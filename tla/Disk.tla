-------------------------------- MODULE Disk ---------------------------------
(***************************************************************************)
(* The buffer cache of the xv6 kernel (kernel/bio.c) on top of the disk    *)
(* driver (kernel/virtio_disk.c) and its device, with the sleep locks of   *)
(* the buffers (kernel/sleeplock.c).                                       *)
(*                                                                         *)
(* A section under bcache.lock, under a sleep lock's spin lock, or of a    *)
(* process under vdisk_lock is one step.  The interrupt handler holds      *)
(* vdisk_lock across steps, one completion each, because the device works  *)
(* on meanwhile.  A process waits in two steps, sleep_prepare(ch) and      *)
(* sleep(): chan[p] is what it has prepared to wait for, and it goes on    *)
(* when a wakeup() has cleared it.                                         *)
(*                                                                         *)
(* The users are the log and the file system above it: a process has one   *)
(* buffer at a time, changes it and pins it (log_write()), writes a pinned *)
(* one home and unpins it (install_trans()), or writes it at once          *)
(* (write_log(), write_head()).                                            *)
(***************************************************************************)
EXTENDS Naturals, Sequences, FiniteSets

CONSTANTS Proc,       \* processes
          Block,      \* blocks of the disk
          Value,      \* contents of a block
          NBUF,       \* buffers 1 .. NBUF
          NUM,        \* descriptors 0 .. NUM-1
          Rings,      \* bound: the sets of descriptors to start with ({Desc} in the code)
          MaxPinned,  \* bound: blocks pinned at a time
          MayKill,    \* bound: processes that may be killed
          None        \* no process, no block, no channel

Buf  == 1..NBUF
Desc == 0..NUM-1

ASSUME DiskAssumption ==
  /\ NBUF \in Nat \ {0} /\ NUM \in Nat /\ NUM >= 3 /\ MaxPinned \in Nat
  /\ MayKill \subseteq Proc /\ Rings \subseteq SUBSET Desc
  /\ None \notin Proc \union Block /\ IsFiniteSet(Proc) /\ Value # {}

VARIABLES
  disk,      \* device: the blocks
  avail,     \* device: the requests it has not done
  used,      \* device: heads of the requests it has done, oldest first
  irq,       \* device: the interrupt is raised
  blockno, valid, refcnt, data,  \* struct buf; valid is the set of valid buffers
  owner,     \* b->lock: the process that has it
  lru,       \* the list of buffers, most recently used first
  free,      \* disk.free[]
  info,      \* disk.info[].b, 0 when there is none
  busy,      \* buffers with b->disk == 1
  handler,   \* virtio_disk_intr() is running, vdisk_lock held
  pinned,    \* blocks in the log, pinned
  pc, buf,   \* where each process is, its buffer
  type, idx, \* virtio_disk_rw(): "in" or "out", and its three descriptors
  chan,      \* what it waits for
  kernel     \* "up", or "panic"

device == <<disk, avail, used, irq>>
cache  == <<blockno, valid, refcnt, data, owner, lru>>
driver == <<free, info, busy, handler>>
vars == <<disk, avail, used, irq, blockno, valid, refcnt, data, owner, lru, free, info,
          busy, handler, pinned, pc, buf, type, idx, chan, kernel>>

Up == kernel = "up"
Goto(p, l) == pc' = [pc EXCEPT ![p] = l]

(* Channels: &b->lock, b and &disk.free[0]. *)
LockOf(b)  == <<"lock", b>>
DiskOf(b)  == <<"disk", b>>
FreeDesc   == <<"free", 0>>

(* wakeup(ch) *)
Wakeup(ch) == chan' = [p \in Proc |-> IF chan[p] = ch THEN None ELSE chan[p]]

(* binit(), virtio_disk_init() *)
Init ==
  /\ disk \in [Block -> Value]
  /\ avail = {} /\ used = <<>> /\ irq = FALSE
  /\ blockno = [b \in Buf |-> None]
  /\ valid = {}
  /\ refcnt = [b \in Buf |-> 0]
  /\ data = [b \in Buf |-> CHOOSE v \in Value : TRUE]
  /\ owner = [b \in Buf |-> None]
  /\ lru = [k \in 1..NBUF |-> NBUF + 1 - k]
  /\ free \in Rings
  /\ info = [d \in Desc |-> 0]
  /\ busy = {} /\ handler = FALSE
  /\ pinned = {}
  /\ pc = [p \in Proc |-> "idle"]
  /\ buf = [p \in Proc |-> 0]
  /\ type = [p \in Proc |-> "in"]
  /\ idx = [p \in Proc |-> {}]
  /\ chan = [p \in Proc |-> None]
  /\ kernel = "up"

-----------------------------------------------------------------------------
(* bget(), under bcache.lock.                                              *)

Cached(bn) == {b \in Buf : blockno[b] = bn}

(* The buffers that may be recycled. *)
Unused == {b \in Buf : refcnt[b] = 0}

(* The one least recently used: the last of the list. *)
Victim(b) ==
  \E k \in 1..NBUF : /\ lru[k] = b /\ b \in Unused
                     /\ \A l \in k+1..NBUF : lru[l] \notin Unused

BgetHit(p, bn) ==
  /\ Up /\ pc[p] = "idle"
  /\ \E b \in Cached(bn) :
       /\ refcnt' = [refcnt EXCEPT ![b] = @ + 1]
       /\ buf' = [buf EXCEPT ![p] = b]
  /\ Goto(p, "lock")
  /\ UNCHANGED <<device, blockno, valid, data, owner, lru, driver, pinned, type, idx, chan, kernel>>

BgetRecycle(p, bn) ==
  /\ Up /\ pc[p] = "idle" /\ Cached(bn) = {}
  /\ \E b \in Buf :
       /\ Victim(b)
       /\ blockno' = [blockno EXCEPT ![b] = bn]
       /\ valid' = valid \ {b}
       /\ refcnt' = [refcnt EXCEPT ![b] = 1]
       /\ buf' = [buf EXCEPT ![p] = b]
  /\ Goto(p, "lock")
  /\ UNCHANGED <<device, data, owner, lru, driver, pinned, type, idx, chan, kernel>>

BgetPanic(p, bn) ==
  /\ Up /\ pc[p] = "idle" /\ Cached(bn) = {} /\ Unused = {}
  /\ kernel' = "panic"
  /\ UNCHANGED <<device, cache, driver, pinned, pc, buf, type, idx, chan>>

(* acquiresleep(&b->lock), then bread()'s test of b->valid. *)
AcquireSleep(p) ==
  /\ Up /\ pc[p] = "lock"
  /\ LET b == buf[p] IN
       \/ /\ owner[b] # None
          /\ chan' = [chan EXCEPT ![p] = LockOf(b)]
          /\ Goto(p, "lock_sleep")
          /\ UNCHANGED owner
       \/ /\ owner[b] = None
          /\ owner' = [owner EXCEPT ![b] = p]
          /\ Goto(p, IF b \in valid THEN "have" ELSE "rw")
          /\ UNCHANGED chan
  /\ UNCHANGED <<device, blockno, valid, refcnt, data, lru, driver, pinned, buf, type, idx, kernel>>

-----------------------------------------------------------------------------
(* What the log and the file system do with a buffer.                      *)

(* bpin(), unless the block is in the log already.  Mutant: forgotten.     *)
NoPin(b) == UNCHANGED refcnt
Pin(b)   == refcnt' = [refcnt EXCEPT ![b] = IF blockno[b] \in pinned THEN @ ELSE @ + 1]

(* A change, then log_write(). *)
LogWrite(p) ==
  LET b == buf[p] IN
  /\ Up /\ pc[p] = "have"
  /\ blockno[b] \in pinned \/ Cardinality(pinned) < MaxPinned
  /\ \E v \in Value : data' = [data EXCEPT ![b] = v]
  /\ Pin(b)
  /\ pinned' = pinned \union {blockno[b]}
  /\ UNCHANGED <<device, blockno, valid, owner, lru, driver, pc, buf, type, idx, chan, kernel>>

(* A change of a block that is not logged, then bwrite(). *)
WriteNow(p) ==
  /\ Up /\ pc[p] = "have" /\ blockno[buf[p]] \notin pinned
  /\ \E v \in Value : data' = [data EXCEPT ![buf[p]] = v]
  /\ Goto(p, "rw")
  /\ type' = [type EXCEPT ![p] = "out"]
  /\ UNCHANGED <<device, blockno, valid, refcnt, owner, lru, driver, pinned, buf, idx,
                 chan, kernel>>

(* install_trans(): bwrite() of a logged block; bunpin() follows. *)
WriteHome(p) ==
  /\ Up /\ pc[p] = "have" /\ blockno[buf[p]] \in pinned
  /\ Goto(p, "rw")
  /\ type' = [type EXCEPT ![p] = "out"]
  /\ UNCHANGED <<device, cache, driver, pinned, buf, idx, chan, kernel>>

(* bwrite() has returned. *)
Unpin(p) ==
  LET b == buf[p] IN
  /\ Up /\ pc[p] = "written"
  /\ IF blockno[b] \in pinned
       THEN /\ refcnt' = [refcnt EXCEPT ![b] = @ - 1]
            /\ pinned' = pinned \ {blockno[b]}
       ELSE UNCHANGED <<refcnt, pinned>>
  /\ Goto(p, "have")
  /\ UNCHANGED <<device, blockno, valid, data, owner, lru, driver, buf, type, idx, chan, kernel>>

(* brelse(): releasesleep(). *)
ReleaseSleep(p) ==
  /\ Up /\ pc[p] = "have"
  /\ owner' = [owner EXCEPT ![buf[p]] = None]
  /\ Wakeup(LockOf(buf[p]))
  /\ Goto(p, "release")
  /\ UNCHANGED <<device, blockno, valid, refcnt, data, lru, driver, pinned, buf, type, idx, kernel>>

(* An unused buffer becomes the most recently used: those before it move   *)
(* up.  Mutant: and it stays where it was, too.                            *)
Twice(b)   == <<b>> \o lru
ToFront(b) == [k \in 1..NBUF |-> IF k = 1 THEN b
                                 ELSE IF \E l \in k..NBUF : lru[l] = b THEN lru[k - 1] ELSE lru[k]]

(* brelse(): the section under bcache.lock. *)
Brelse(p) ==
  LET b == buf[p] IN
  /\ Up /\ pc[p] = "release"
  /\ refcnt' = [refcnt EXCEPT ![b] = @ - 1]
  /\ lru' = IF refcnt[b] = 1 THEN ToFront(b) ELSE lru
  /\ buf' = [buf EXCEPT ![p] = 0]
  /\ Goto(p, "idle")
  /\ UNCHANGED <<device, blockno, valid, data, owner, driver, pinned, type, idx, chan, kernel>>

-----------------------------------------------------------------------------
(* virtio_disk_rw(), under vdisk_lock.                                     *)

(* alloc3_desc(): the three free descriptors of smallest number. *)
Three == {d \in free : Cardinality({e \in free : e < d}) < 3}
Enough == Cardinality(free) >= 3
First(S) == CHOOSE d \in S : \A e \in S : d <= e

(* The request of p goes to the device; sleep_prepare(b) in the loop on    *)
(* b->disk.                                                                *)
Submit(p) ==
  LET b == buf[p] IN
  /\ Up /\ pc[p] = "rw" /\ ~handler /\ Enough
  /\ free' = free \ Three
  /\ idx' = [idx EXCEPT ![p] = Three]
  /\ info' = [info EXCEPT ![First(Three)] = b]
  /\ busy' = busy \union {b}
  /\ avail' = avail \union {[head |-> First(Three), type |-> type[p], sector |-> blockno[b], b |-> b]}
  /\ chan' = [chan EXCEPT ![p] = DiskOf(b)]
  /\ Goto(p, "disk_sleep")
  /\ UNCHANGED <<disk, used, irq, cache, handler, pinned, buf, type, kernel>>

(* alloc3_desc() fails: what it took is given back, with the wakeup() of   *)
(* free_desc(); then sleep_prepare(&disk.free[0]).                         *)
NoDesc(p) ==
  /\ Up /\ pc[p] = "rw" /\ ~handler /\ ~Enough
  /\ chan' = [r \in Proc |-> IF r = p THEN FreeDesc
                             ELSE IF free # {} /\ chan[r] = FreeDesc THEN None ELSE chan[r]]
  /\ Goto(p, "desc_sleep")
  /\ UNCHANGED <<device, cache, driver, pinned, buf, type, idx, kernel>>

(* The test of the loop on b->disk.  Mutant: any return of sleep() ends it. *)
NoLoop(b)    == FALSE
StillBusy(b) == b \in busy

(* After sleep(): the loop, and free_chain() at its end. *)
Wait(p) ==
  LET b == buf[p] IN
  /\ Up /\ pc[p] = "disk" /\ ~handler
  /\ \/ /\ b \in busy
        /\ chan' = [chan EXCEPT ![p] = DiskOf(b)]
        /\ Goto(p, "disk_sleep")
        /\ UNCHANGED <<valid, free, info, type, idx>>
     \/ /\ ~StillBusy(b)
        /\ info' = [info EXCEPT ![First(idx[p])] = 0]
        /\ free' = free \union idx[p]
        /\ Wakeup(FreeDesc)
        /\ idx' = [idx EXCEPT ![p] = {}]
        /\ type' = [type EXCEPT ![p] = "in"]
        /\ valid' = valid \union {b}
        /\ Goto(p, IF type[p] = "in" THEN "have" ELSE "written")
  /\ UNCHANGED <<device, blockno, refcnt, data, owner, lru, busy, handler, pinned, buf, kernel>>

-----------------------------------------------------------------------------
(* The device, and virtio_disk_intr().                                     *)

(* The device does a request, in any order, and raises its interrupt. *)
Device ==
  \E r \in avail :
    /\ avail' = avail \ {r}
    /\ used' = Append(used, r.head)
    /\ irq' = TRUE
    /\ IF r.type = "in"
         THEN data' = [data EXCEPT ![r.b] = disk[r.sector]] /\ UNCHANGED disk
         ELSE disk' = [disk EXCEPT ![r.sector] = data[r.b]] /\ UNCHANGED data
    /\ UNCHANGED <<blockno, valid, refcnt, owner, lru, driver, pinned, pc, buf, type, idx,
                   chan, kernel>>

(* acquire(&disk.vdisk_lock), and the interrupt is acknowledged. *)
Intr ==
  /\ Up /\ irq /\ ~handler
  /\ handler' = TRUE
  /\ irq' = FALSE
  /\ UNCHANGED <<disk, avail, used, cache, free, info, busy, pinned, pc, buf, type, idx,
                 chan, kernel>>

(* One entry of the used ring. *)
IntrUsed ==
  /\ Up /\ handler /\ used # <<>>
  /\ busy' = busy \ {info[Head(used)]}
  /\ Wakeup(DiskOf(info[Head(used)]))
  /\ used' = Tail(used)
  /\ UNCHANGED <<disk, avail, irq, cache, free, info, handler, pinned, pc, buf, type, idx,
                 kernel>>

(* The loop's test.  Mutant: one entry for each interrupt. *)
OneEach == TRUE
Drained == used = <<>>

(* The handler returns.  What the device has done since it started has     *)
(* raised the interrupt again.                                             *)
IntrEnd ==
  /\ Up /\ handler /\ Drained
  /\ handler' = FALSE
  /\ UNCHANGED <<device, cache, free, info, busy, pinned, pc, buf, type, idx, chan, kernel>>

-----------------------------------------------------------------------------
(* sleep() returns: woken, or killed (kkill() leaves p->chan). *)
Retry == [lock_sleep |-> "lock", desc_sleep |-> "rw", disk_sleep |-> "disk"]

Woken(p) ==
  /\ Up /\ pc[p] \in DOMAIN Retry /\ chan[p] = None
  /\ Goto(p, Retry[pc[p]])
  /\ UNCHANGED <<device, cache, driver, pinned, buf, type, idx, chan, kernel>>

KilledAwake(p) ==
  /\ Up /\ p \in MayKill /\ pc[p] \in DOMAIN Retry /\ chan[p] # None
  /\ Goto(p, Retry[pc[p]])
  /\ UNCHANGED <<device, cache, driver, pinned, buf, type, idx, chan, kernel>>

(* Nothing is modelled after a panic(). *)
Halted == ~Up /\ UNCHANGED vars

Bread(p) == \/ \E bn \in Block : BgetHit(p, bn) \/ BgetRecycle(p, bn) \/ BgetPanic(p, bn)
            \/ AcquireSleep(p)
User(p) == LogWrite(p) \/ WriteNow(p) \/ WriteHome(p)
Rest(p) == Unpin(p) \/ ReleaseSleep(p) \/ Brelse(p)
Rw(p)   == Submit(p) \/ NoDesc(p) \/ Wait(p) \/ Woken(p)
Handler == Intr \/ IntrUsed \/ IntrEnd

Next ==
  \/ \E p \in Proc : Bread(p) \/ User(p) \/ Rest(p) \/ Rw(p) \/ KilledAwake(p)
  \/ Device
  \/ Handler
  \/ Halted

Spec == Init /\ [][Next]_vars

-----------------------------------------------------------------------------
(* Every variable has its type (struct buf, struct disk, the locals); a     *)
(* block is in one buffer, and the count of a buffer says who uses it.     *)
PCs == {"idle", "lock", "lock_sleep", "have", "rw", "desc_sleep", "disk", "disk_sleep",
        "written", "release"}
Chan == {<<k, b>> : k \in {"lock", "disk"}, b \in Buf} \union {FreeDesc, None}
TypeOK ==
  /\ disk \in [Block -> Value]
  /\ avail \subseteq [head : Desc, type : {"in", "out"}, sector : Block, b : Buf]
  /\ used \in Seq(Desc) /\ Len(used) <= NUM
  /\ irq \in BOOLEAN /\ handler \in BOOLEAN
  /\ blockno \in [Buf -> Block \union {None}]
  /\ valid \subseteq Buf /\ busy \subseteq Buf
  /\ refcnt \in [Buf -> 0..Cardinality(Proc)+1]
  /\ data \in [Buf -> Value]
  /\ owner \in [Buf -> Proc \union {None}]
  /\ lru \in [1..NBUF -> Buf] /\ \A k, l \in 1..NBUF : lru[k] = lru[l] => k = l
  /\ free \subseteq Desc
  /\ info \in [Desc -> 0..NBUF]
  /\ pinned \subseteq Block /\ Cardinality(pinned) <= MaxPinned
  /\ pc \in [Proc -> PCs]
  /\ buf \in [Proc -> 0..NBUF]
  /\ type \in [Proc -> {"in", "out"}]
  /\ idx \in [Proc -> SUBSET Desc]
  /\ chan \in [Proc -> Chan]
  /\ kernel \in {"up", "panic"}
  /\ \A b, c \in Buf : blockno[b] = blockno[c] /\ blockno[b] # None => b = c
  /\ \A b \in Buf :
       refcnt[b] = Cardinality({p \in Proc : buf[p] = b})
                     + (IF blockno[b] \in pinned THEN 1 ELSE 0)

(* The cache and the disk together are one array of blocks, each used by   *)
(* one process at a time: no recycled buffer loses a change, no reader     *)
(* sees an old block or one the device is still writing.                   *)
Has(p) == IF pc[p] \in {"have", "written"} \/ type[p] = "out" THEN {blockno[buf[p]]} ELSE {}
HasBlock == [p \in Proc |-> Has(p)]
Content(bn) == IF \E b \in valid : blockno[b] = bn
                 THEN data[CHOOSE b \in valid : blockno[b] = bn] ELSE disk[bn]
Contents == [bn \in Block |-> Content(bn)]
Store == INSTANCE BlockStore WITH contents <- Contents, has <- HasBlock
BlocksCoherent == Store!Spec

(* Descriptors are free or belong to one request, and what the device and  *)
(* the used ring refer to is a request somebody waits for: free_desc()     *)
(* never panics and no completion goes to a buffer that is not waiting.    *)
Outstanding == {r.head : r \in avail} \union {used[k] : k \in 1..Len(used)}
DescOwned ==
  /\ \A p \in Proc : idx[p] \intersect free = {}
  /\ \A p, r \in Proc : p # r => idx[p] \intersect idx[r] = {}
  /\ free \union UNION {idx[p] : p \in Proc} \in Rings
  /\ \A d \in Outstanding : \E p \in Proc :
       pc[p] \in {"disk", "disk_sleep"} /\ d = First(idx[p]) /\ info[d] = buf[p] /\ buf[p] \in busy

(* No wakeup is lost: who waits for a buffer waits for a process that has  *)
(* it, who waits for descriptors lacks them, who waits for the disk has a  *)
(* request in the device or in the used ring, and then the handler runs or *)
(* the interrupt is raised.                                                *)
NoLostWakeup ==
  \A p \in Proc : chan[p] # None =>
    /\ pc[p] = "lock_sleep" => owner[buf[p]] \notin {None, p}
    /\ pc[p] = "desc_sleep" => ~Enough
    /\ pc[p] = "disk_sleep" =>
         /\ First(idx[p]) \in Outstanding
         /\ used # <<>> => irq \/ handler
=============================================================================
