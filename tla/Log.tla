-------------------------------- MODULE Log ---------------------------------
(***************************************************************************)
(* The redo log of the xv6 file system, kernel/log.c, with crashes.        *)
(*                                                                         *)
(* Every section under log.lock is one step, every block written to disk   *)
(* is one step, and the machine may stop between any two of them, during   *)
(* recovery too.  A disk write of one block is atomic (the disk is         *)
(* external).  What an operation does between begin_op() and end_op() is   *)
(* reduced to the blocks it changes: at most MAXOPBLOCKS of them, each     *)
(* modified in its buffer and passed to log_write() before brelse().  The  *)
(* contents of a block is the number of the operation that wrote it last.  *)
(*                                                                         *)
(* The kernel sleeps in two steps (sleep_prepare(&log) under log.lock,     *)
(* then sleep()); wakeup(&log) empties chan, the set of the processes that *)
(* have prepared.                                                          *)
(***************************************************************************)
EXTENDS Naturals, Sequences, FiniteSets

CONSTANTS Proc,         \* processes
          Block,        \* home blocks
          LOGBLOCKS,    \* blocks of the log
          MAXOPBLOCKS,  \* blocks one operation may write
          MaxOps,       \* bound: operations in a behaviour
          MaxCrashes    \* bound: crashes in a behaviour

ASSUME LogAssumption ==
  /\ LOGBLOCKS \in Nat /\ MAXOPBLOCKS \in Nat \ {0} /\ MAXOPBLOCKS <= LOGBLOCKS
  /\ MaxOps \in Nat /\ MaxCrashes \in Nat /\ IsFiniteSet(Proc)

VARIABLES
  home,         \* disk: the home blocks
  logd,         \* disk: the log blocks
  head,         \* disk: the log header, the sequence of block numbers
  cache,        \* buffer cache: contents of the home blocks
  pinned,       \* buffer cache: blocks pinned by log_write()
  lh,           \* log.lh
  outstanding,  \* log.outstanding
  committing,   \* log.committing
  ncommit,      \* log.ncommit
  chan,         \* processes with p->chan == &log
  kernel,       \* "up", "panic", or the step of recover_from_log()
  tail,         \* the loop variable of write_log() and install_trans()
  pc,           \* where each process is
  op,           \* the operation each process executes
  wrote,        \* blocks that operation has written
  want,         \* sys_sync(): n
  nextop,       \* the next operation's number
  crashes,      \* crashes so far
  unsaved,      \* history: operations that have ended and are not committed
  owed          \* history: p's unsaved when it called sys_sync(), not yet committed

vars  == <<home, logd, head, cache, pinned, lh, outstanding, committing, ncommit, chan,
           kernel, tail, pc, op, wrote, want, nextop, crashes, unsaved, owed>>

Op == 1..MaxOps
Committer(p) == pc[p] \in {"commit", "write_log", "write_head", "install", "erase", "done"}
Up == kernel = "up"
Goto(p, l) == pc' = [pc EXCEPT ![p] = l]

(* mkfs's disk, and a kernel about to read the log. *)
Init ==
  /\ home = [b \in Block |-> 0]
  /\ logd = [i \in 1..LOGBLOCKS |-> 0]
  /\ head = <<>>
  /\ cache = home
  /\ pinned = {} /\ lh = <<>> /\ chan = {}
  /\ outstanding = 0 /\ committing = FALSE /\ ncommit = 0
  /\ kernel = "read_head" /\ tail = 0
  /\ pc = [p \in Proc |-> "idle"]
  /\ op = [p \in Proc |-> 0]
  /\ wrote = [p \in Proc |-> {}]
  /\ want = [p \in Proc |-> 0]
  /\ nextop = 1 /\ crashes = 0
  /\ unsaved = {} /\ owed = [p \in Proc |-> {}]

-----------------------------------------------------------------------------
(* Recovery: recover_from_log(), called by the first process.              *)

(* read_head() *)
ReadHead ==
  /\ kernel = "read_head"
  /\ lh' = head
  /\ tail' = 1
  /\ kernel' = "install"
  /\ UNCHANGED <<home, logd, head, cache, pinned, outstanding, committing, ncommit,
                 chan, pc, op, wrote, want, nextop, crashes, unsaved, owed>>

(* install_trans(): the log block of position tail goes home. *)
InstallBlock ==
  /\ tail <= Len(lh)
  /\ home'  = [home EXCEPT ![lh[tail]] = logd[tail]]
  /\ cache' = [cache EXCEPT ![lh[tail]] = logd[tail]]
  /\ tail' = tail + 1

(* install_trans(1) *)
RecoverInstall ==
  /\ kernel = "install"
  /\ \/ InstallBlock /\ UNCHANGED kernel
     \/ tail > Len(lh) /\ kernel' = "erase" /\ UNCHANGED <<home, cache, tail>>
  /\ UNCHANGED <<logd, head, pinned, lh, outstanding, committing, ncommit, chan, pc, op,
                 wrote, want, nextop, crashes, unsaved, owed>>

(* log.lh.n = 0; write_head() *)
EraseHead == lh' = <<>> /\ head' = <<>>

RecoverErase ==
  /\ kernel = "erase"
  /\ EraseHead
  /\ tail' = 0
  /\ kernel' = "up"
  /\ UNCHANGED <<home, logd, cache, pinned, outstanding, committing, ncommit, chan, pc,
                 op, wrote, want, nextop, crashes, unsaved, owed>>

(* The machine stops and starts again: memory is lost, the disk stays. *)
Crash ==
  /\ crashes < MaxCrashes
  /\ crashes' = crashes + 1
  /\ cache' = home
  /\ pinned' = {} /\ lh' = <<>> /\ chan' = {}
  /\ outstanding' = 0 /\ committing' = FALSE /\ ncommit' = 0
  /\ kernel' = "read_head" /\ tail' = 0
  /\ pc' = [p \in Proc |-> "idle"]
  /\ op' = [p \in Proc |-> 0]
  /\ wrote' = [p \in Proc |-> {}]
  /\ want' = [p \in Proc |-> 0]
  /\ unsaved' = {} /\ owed' = [p \in Proc |-> {}]
  /\ UNCHANGED <<home, logd, head, nextop>>

-----------------------------------------------------------------------------
(* begin_op()                                                              *)

(* A file system call starts. *)
StartOp(p) ==
  /\ Up /\ pc[p] = "idle" /\ nextop <= MaxOps
  /\ op' = [op EXCEPT ![p] = nextop]
  /\ nextop' = nextop + 1
  /\ Goto(p, "begin")
  /\ UNCHANGED <<home, logd, head, cache, pinned, lh, outstanding, committing, ncommit,
                 chan, kernel, tail, wrote, want, crashes, unsaved, owed>>

(* The two reasons to wait.  Mutants: a commit does not matter; this       *)
(* operation is left out of the reservation.                               *)
NoReason       == FALSE
CommitReason   == committing
OthersOnly     == Len(lh) + outstanding * MAXOPBLOCKS > LOGBLOCKS
LogSpaceReason == Len(lh) + (outstanding + 1) * MAXOPBLOCKS > LOGBLOCKS
MustWait == CommitReason \/ LogSpaceReason

BeginOp(p) ==
  /\ Up /\ pc[p] = "begin"
  /\ \/ /\ MustWait
        /\ chan' = chan \union {p}
        /\ Goto(p, "begin_sleep")
        /\ UNCHANGED outstanding
     \/ /\ ~MustWait
        /\ outstanding' = outstanding + 1
        /\ Goto(p, "op")
        /\ UNCHANGED chan
  /\ UNCHANGED <<home, logd, head, cache, pinned, lh, committing, ncommit, kernel, tail,
                 op, wrote, want, nextop, crashes, unsaved, owed>>

(* sleep() returns after a wakeup(&log): try again. *)
Awake(p) == pc' = [pc EXCEPT ![p] = IF @ = "begin_sleep" THEN "begin" ELSE "sync_loop"]

Woken(p) ==
  /\ Up /\ pc[p] \in {"begin_sleep", "sync_sleep"} /\ p \notin chan
  /\ Awake(p)
  /\ UNCHANGED <<home, logd, head, cache, pinned, lh, outstanding, committing, ncommit,
                 chan, kernel, tail, op, wrote, want, nextop, crashes, unsaved, owed>>

(* kkill() makes the sleeper RUNNABLE and leaves its chan. *)
KilledAwake(p) ==
  /\ Up /\ pc[p] \in {"begin_sleep", "sync_sleep"} /\ p \in chan
  /\ Awake(p)
  /\ UNCHANGED <<home, logd, head, cache, pinned, lh, outstanding, committing, ncommit,
                 chan, kernel, tail, op, wrote, want, nextop, crashes, unsaved, owed>>

-----------------------------------------------------------------------------
(* The operation: log_write()                                              *)

Logged(b) == \E i \in 1..Len(lh) : lh[i] = b

(* log.lh.block[] gets b, unless it holds b already (absorption), and a    *)
(* new block is pinned.  Mutant: never pin.                                *)
Absorb(b) == lh' = IF Logged(b) THEN lh ELSE Append(lh, b)
NoPin(b) == UNCHANGED pinned
Pin(b)   == pinned' = IF Logged(b) THEN pinned ELSE pinned \union {b}

(* A buffer is modified and passed to log_write(). *)
LogWrite(p, b) ==
  /\ Up /\ pc[p] = "op"
  /\ b \in wrote[p] \/ Cardinality(wrote[p]) < MAXOPBLOCKS
  /\ cache' = [cache EXCEPT ![b] = op[p]]
  /\ wrote' = [wrote EXCEPT ![p] = @ \union {b}]
  /\ IF Len(lh) >= LOGBLOCKS \/ outstanding < 1
       THEN kernel' = "panic" /\ UNCHANGED <<lh, pinned>>
       ELSE Absorb(b) /\ Pin(b) /\ UNCHANGED kernel
  /\ UNCHANGED <<home, logd, head, outstanding, committing, ncommit, chan, tail, pc, op,
                 want, nextop, crashes, unsaved, owed>>

-----------------------------------------------------------------------------
(* end_op() and commit()                                                   *)

(* wakeup(&log).  Mutant: forgotten.                                       *)
WakeNobody == UNCHANGED chan
WakeAll    == chan' = {}

EndOp(p) ==
  /\ Up /\ pc[p] = "op"
  /\ outstanding' = outstanding - 1
  /\ unsaved' = IF wrote[p] = {} THEN unsaved ELSE unsaved \union {op[p]}
  /\ op' = [op EXCEPT ![p] = 0]
  /\ wrote' = [wrote EXCEPT ![p] = {}]
  /\ \/ /\ committing
        /\ kernel' = "panic"
        /\ UNCHANGED <<committing, pc, chan>>
     \/ /\ ~committing /\ outstanding = 1
        /\ committing' = TRUE
        /\ Goto(p, "commit")
        /\ UNCHANGED <<kernel, chan>>
     \/ /\ ~committing /\ outstanding # 1
        /\ WakeAll
        /\ Goto(p, "idle")
        /\ UNCHANGED <<kernel, committing>>
  /\ UNCHANGED <<home, logd, head, cache, pinned, lh, ncommit, tail, want, nextop,
                 crashes, owed>>

(* commit(): if (log.lh.n > 0) *)
CommitTest(p) ==
  /\ Up /\ pc[p] = "commit"
  /\ Goto(p, IF Len(lh) > 0 THEN "write_log" ELSE "done")
  /\ tail' = IF Len(lh) > 0 THEN 1 ELSE 0
  /\ UNCHANGED <<home, logd, head, cache, pinned, lh, outstanding, committing, ncommit,
                 chan, kernel, op, wrote, want, nextop, crashes, unsaved, owed>>

(* write_log(), one block. *)
WriteLog(p) ==
  /\ Up /\ pc[p] = "write_log"
  /\ \/ /\ tail <= Len(lh)
        /\ logd' = [logd EXCEPT ![tail] = cache[lh[tail]]]
        /\ tail' = tail + 1
        /\ UNCHANGED pc
     \/ /\ tail > Len(lh)
        /\ Goto(p, "write_head")
        /\ UNCHANGED <<logd, tail>>
  /\ UNCHANGED <<home, head, cache, pinned, lh, outstanding, committing, ncommit, chan,
                 kernel, op, wrote, want, nextop, crashes, unsaved, owed>>

(* write_head(): the commit. *)
WriteHead(p) ==
  /\ Up /\ pc[p] = "write_head"
  /\ head' = lh
  /\ tail' = 1
  /\ Goto(p, "install")
  /\ unsaved' = {}
  /\ owed' = [r \in Proc |-> owed[r] \ unsaved]
  /\ UNCHANGED <<home, logd, cache, pinned, lh, outstanding, committing, ncommit, chan,
                 kernel, op, wrote, want, nextop, crashes>>

(* install_trans(0), one block: written home, then unpinned. *)
Install(p) ==
  /\ Up /\ pc[p] = "install"
  /\ \/ InstallBlock /\ pinned' = pinned \ {lh[tail]} /\ UNCHANGED pc
     \/ tail > Len(lh) /\ Goto(p, "erase") /\ UNCHANGED <<home, cache, tail, pinned>>
  /\ UNCHANGED <<logd, head, lh, outstanding, committing, ncommit, chan, kernel, op,
                 wrote, want, nextop, crashes, unsaved, owed>>

Erase(p) ==
  /\ Up /\ pc[p] = "erase"
  /\ EraseHead
  /\ tail' = 0
  /\ Goto(p, "done")
  /\ UNCHANGED <<home, logd, cache, pinned, outstanding, committing, ncommit, chan,
                 kernel, op, wrote, want, nextop, crashes, unsaved, owed>>

(* end_op() after commit() *)
EndCommit(p) ==
  /\ Up /\ pc[p] = "done"
  /\ committing' = FALSE
  /\ ncommit' = ncommit + 1
  /\ WakeAll
  /\ Goto(p, "idle")
  /\ UNCHANGED <<home, logd, head, cache, pinned, lh, outstanding, kernel, tail, op,
                 wrote, want, nextop, crashes, unsaved, owed>>

-----------------------------------------------------------------------------
(* sys_sync()                                                              *)

(* Mutant: a commit in progress does not matter. *)
OpsOnly     == outstanding > 0
SyncMustWait == committing \/ outstanding > 0

(* The call: nothing to wait for, or n = log.ncommit + 1 and the first     *)
(* sleep_prepare().                                                        *)
Sync(p) ==
  /\ Up /\ pc[p] = "idle"
  /\ owed' = [owed EXCEPT ![p] = unsaved]
  /\ \/ /\ SyncMustWait
        /\ want' = [want EXCEPT ![p] = ncommit + 1]
        /\ chan' = chan \union {p}
        /\ Goto(p, "sync_sleep")
     \/ /\ ~SyncMustWait
        /\ Goto(p, "sync_done")
        /\ UNCHANGED <<want, chan>>
  /\ UNCHANGED <<home, logd, head, cache, pinned, lh, outstanding, committing, ncommit,
                 kernel, tail, op, wrote, nextop, crashes, unsaved>>

(* while (log.ncommit < n), after a sleep. *)
SyncLoop(p) ==
  /\ Up /\ pc[p] = "sync_loop"
  /\ IF ncommit < want[p]
       THEN Goto(p, "sync_sleep") /\ chan' = chan \union {p}
       ELSE Goto(p, "sync_done") /\ UNCHANGED chan
  /\ UNCHANGED <<home, logd, head, cache, pinned, lh, outstanding, committing, ncommit,
                 kernel, tail, op, wrote, want, nextop, crashes, unsaved, owed>>

SyncReturn(p) ==
  /\ Up /\ pc[p] = "sync_done"
  /\ Goto(p, "idle")
  /\ want' = [want EXCEPT ![p] = 0]
  /\ owed' = [owed EXCEPT ![p] = {}]
  /\ UNCHANGED <<home, logd, head, cache, pinned, lh, outstanding, committing, ncommit,
                 chan, kernel, tail, op, wrote, nextop, crashes, unsaved>>

-----------------------------------------------------------------------------
Recover == ReadHead \/ RecoverInstall \/ RecoverErase
Commit(p) == CommitTest(p) \/ WriteLog(p) \/ WriteHead(p) \/ Install(p) \/ Erase(p)
               \/ EndCommit(p)
Wait(p)   == BeginOp(p) \/ Woken(p) \/ SyncLoop(p) \/ SyncReturn(p)

Next ==
  \/ Recover
  \/ Crash
  \/ \E p \in Proc : StartOp(p) \/ EndOp(p) \/ Commit(p) \/ Wait(p) \/ Sync(p)
                       \/ KilledAwake(p)
                       \/ \E b \in Block : LogWrite(p, b)

Spec == Init /\ [][Next]_vars

(* Processes run, and an operation that has begun ends. *)
Fairness == /\ WF_vars(Recover)
            /\ \A p \in Proc : WF_vars(EndOp(p)) /\ WF_vars(Commit(p)) /\ WF_vars(Wait(p))
FairSpec == Spec /\ Fairness

-----------------------------------------------------------------------------
(* Every variable has its type (struct log, the disk, the locals); a       *)
(* header holds a block once.                                              *)
PCs == {"idle", "begin", "begin_sleep", "op", "commit", "write_log", "write_head",
        "install", "erase", "done", "sync_loop", "sync_sleep", "sync_done"}
Header == {s \in Seq(Block) :
             Len(s) <= LOGBLOCKS /\ \A i, j \in 1..Len(s) : s[i] = s[j] => i = j}
TypeOK ==
  /\ home \in [Block -> 0..MaxOps]
  /\ logd \in [1..LOGBLOCKS -> 0..MaxOps]
  /\ cache \in [Block -> 0..MaxOps]
  /\ pinned \subseteq Block
  /\ lh \in Header /\ head \in Header
  /\ outstanding \in Nat
  /\ committing \in BOOLEAN
  /\ ncommit \in Nat
  /\ chan \subseteq Proc
  /\ kernel \in {"up", "panic", "read_head", "install", "erase"}
  /\ tail \in 0..LOGBLOCKS+1
  /\ pc \in [Proc -> PCs]
  /\ op \in [Proc -> 0..MaxOps]
  /\ wrote \in [Proc -> SUBSET Block]
  /\ want \in [Proc -> Nat]
  /\ nextop \in 1..MaxOps+1
  /\ crashes \in 0..MaxCrashes
  /\ unsaved \subseteq Op
  /\ owed \in [Proc -> SUBSET Op]

(* What the disk holds for b if the machine stops now: the log block of a  *)
(* committed transaction, or else the home block.                          *)
Committed(b) == \E i \in 1..Len(head) : head[i] = b
Durable == [b \in Block |->
             IF Committed(b) THEN logd[CHOOSE i \in 1..Len(head) : head[i] = b] ELSE home[b]]

(* Processes run once the log is recovered; what they see then is the      *)
(* buffer cache, and an operation is in progress from begin_op() to        *)
(* end_op().                                                               *)
Running == kernel \in {"up", "panic"}
Mem     == IF Running THEN cache ELSE Durable
InOp    == {p \in Proc : pc[p] = "op"}

(* Log implements Transactions: through every interleaving of operations,  *)
(* and a crash at any point of a commit or of a recovery, what a crash     *)
(* leaves is what the file system was when no operation was in progress.   *)
T == INSTANCE Transactions WITH
       Value <- 0..MaxOps, Empty <- 0, mem <- Mem, dur <- Durable, active <- InOp
CrashAtomic == T!Spec

(* The blocks that operations in progress may still add to the log. *)
Reserved == {x \in Proc \X (1..MAXOPBLOCKS) :
               pc[x[1]] = "op" /\ x[2] > Cardinality(wrote[x[1]])}

(* The reservation of begin_op() is enough for every new block of every    *)
(* operation it lets in: log_write() never finds the log full for a block  *)
(* that is not in it yet, and end_op() never meets a commit.               *)
SpaceReserved ==
  /\ Len(lh) + Cardinality(Reserved) <= LOGBLOCKS
  /\ kernel = "panic" => Len(lh) = LOGBLOCKS /\ ~committing

(* The buffer cache may drop any block that is not pinned without losing   *)
(* an update: bget() recycles such a buffer without writing it.            *)
EvictionSafe == \A b \in Block : b \notin pinned => cache[b] = home[b]

(* No wakeup is lost: who sleeps in begin_op() still has a reason to, who  *)
(* sleeps in sys_sync() still waits for its commit, and there is an        *)
(* operation or a committer that will wake them.                           *)
NoLostWakeup ==
  \A p \in chan :
    /\ pc[p] = "begin_sleep" => MustWait
    /\ pc[p] = "sync_sleep" => ncommit < want[p]
    /\ pc[p] \in {"begin_sleep", "sync_sleep"} => committing \/ outstanding > 0

(* When sys_sync() returns, every operation that had ended when it was     *)
(* called is committed to the disk.                                        *)
SyncDurable == \A p \in Proc : pc[p] = "sync_done" => owed[p] = {}

(* begin_op() and sys_sync() return: with finitely many operations, every  *)
(* process that waits for log space or for a commit goes on.               *)
WaitEnds == \A p \in Proc : pc[p] \in {"begin_sleep", "sync_sleep"}
                               ~> pc[p] \notin {"begin", "begin_sleep", "sync_loop", "sync_sleep"}
=============================================================================
