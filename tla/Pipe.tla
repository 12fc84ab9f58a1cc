-------------------------------- MODULE Pipe --------------------------------
(***************************************************************************)
(* One pipe of kernel/pipe.c, the processes that read and write it, and    *)
(* the part of fileclose() and filedup() that decides when it is closed.   *)
(*                                                                         *)
(* pi->lock is held from acquire() to release(), one byte per step, so     *)
(* that kkill(), which does not take it, can come between two bytes.       *)
(* sleep_prepare() is done under pi->lock, sleep() after its release: a    *)
(* process that has prepared is at r_sleep or w_sleep, one that is         *)
(* SLEEPING at r_asleep or w_asleep.                                       *)
(***************************************************************************)
EXTENDS Integers

CONSTANTS Proc,      \* processes
          Byte,      \* contents of a byte
          PIPESIZE,
          UINT,      \* number of values of nread and nwrite (2^32 in the code)
          Sizes,     \* n of the read and write calls
          MayKill,   \* processes that may be killed
          MayHold    \* end of the pipe -> processes that may come to hold it

ASSUME PipeAssumption ==
  /\ PIPESIZE \in Nat \ {0} /\ UINT \in Nat
  /\ UINT % PIPESIZE = 0 /\ PIPESIZE < UINT
  /\ Byte # {} /\ Sizes \subseteq Nat /\ MayKill \subseteq Proc
  /\ MayHold \in [{"read", "write"} -> SUBSET Proc]

VARIABLES
  data, nread, nwrite, readopen, writeopen,  \* struct pipe
  lock,        \* holder of pi->lock, a set of at most one process
  allocated,   \* the page of struct pipe is not free
  holders,     \* end of the pipe -> processes whose descriptors refer to it
  pc, n, i,    \* where each process is, its call's n and i
  chan,        \* p->chan: "nread", "nwrite" or "none"
  killed       \* processes with p->killed

pipe  == <<data, nread, nwrite, readopen, writeopen, allocated>>
calls == <<n, i>>
vars  == <<data, nread, nwrite, readopen, writeopen, lock, allocated, holders, pc, n, i,
           chan, killed>>

Ends == {"read", "write"}
Plus(x, k) == (x + k) % UINT
Empty == nread = nwrite
Full  == nwrite = Plus(nread, PIPESIZE)
Goto(p, l) == pc' = [pc EXCEPT ![p] = l]

(* pipealloc(): one process has both ends; kalloc() has filled the page    *)
(* with one value.                                                         *)
Init ==
  /\ data = [k \in 0..PIPESIZE-1 |-> CHOOSE v \in Byte : TRUE]
  /\ nread = 0 /\ nwrite = 0
  /\ readopen = TRUE /\ writeopen = TRUE
  /\ lock = {} /\ allocated = TRUE
  /\ \E p \in MayHold["read"] \intersect MayHold["write"] : holders = [end \in Ends |-> {p}]
  /\ pc = [p \in Proc |-> "idle"]
  /\ n = [p \in Proc |-> 0]
  /\ i = [p \in Proc |-> 0]
  /\ chan = [p \in Proc |-> "none"]
  /\ killed = {}

(* wakeup(ch): who has prepared is let go, who sleeps is made runnable.    *)
(* Mutant: forgotten.                                                      *)
NoWakeup(ch) == UNCHANGED chan
Wakeup(ch)   == chan' = [p \in Proc |-> IF chan[p] = ch THEN "none" ELSE chan[p]]

Acquire(p) == lock = {} /\ lock' = {p}
Release == lock' = {}

(* The call returns. *)
Return(p) ==
  /\ Goto(p, "idle")
  /\ n' = [n EXCEPT ![p] = 0]
  /\ i' = [i EXCEPT ![p] = 0]

-----------------------------------------------------------------------------
(* pipewrite()                                                             *)

Write(p, size) ==
  /\ pc[p] = "idle" /\ p \in holders["write"] /\ p \notin killed
  /\ n' = [n EXCEPT ![p] = size]
  /\ Goto(p, "w_lock")
  /\ UNCHANGED <<pipe, lock, holders, i, chan, killed>>

(* acquire(&pi->lock), at the start and after sleep(). *)
WriteLock(p) ==
  /\ pc[p] = "w_lock" /\ Acquire(p)
  /\ Goto(p, "w_loop")
  /\ UNCHANGED <<pipe, holders, calls, chan, killed>>

(* The loop: nobody can read what would be written, or p is killed. *)
WriteFails(p) ==
  /\ pc[p] = "w_loop" /\ i[p] < n[p] /\ (~readopen \/ p \in killed)
  /\ Release
  /\ Return(p)
  /\ UNCHANGED <<pipe, holders, chan, killed>>

(* pipewrite-full: wakeup(&pi->nread), sleep_prepare(&pi->nwrite).         *)
(* Mutant of the test: compares the indices into data.                     *)
FullByIndex == ~Empty /\ nwrite % PIPESIZE = nread % PIPESIZE /\ nwrite > nread
WriteMustWait == Full

WritePrepare(p) ==
  /\ pc[p] = "w_loop" /\ i[p] < n[p] /\ readopen /\ p \notin killed /\ WriteMustWait
  /\ chan' = [r \in Proc |-> IF r = p THEN "nwrite"
                             ELSE IF chan[r] = "nread" THEN "none" ELSE chan[r]]
  /\ Release
  /\ Goto(p, "w_sleep")
  /\ UNCHANGED <<pipe, holders, calls, killed>>

(* pi->data[pi->nwrite++ % PIPESIZE] = ch *)
WriteByte(p) ==
  /\ pc[p] = "w_loop" /\ i[p] < n[p] /\ readopen /\ p \notin killed /\ ~WriteMustWait
  /\ \E ch \in Byte : data' = [data EXCEPT ![nwrite % PIPESIZE] = ch]
  /\ nwrite' = Plus(nwrite, 1)
  /\ i' = [i EXCEPT ![p] = @ + 1]
  /\ UNCHANGED <<nread, readopen, writeopen, allocated, lock, holders, pc, n, chan, killed>>

(* The end of the loop, or copyin() has failed. *)
WriteEnd(p) ==
  /\ pc[p] = "w_loop"
  /\ \/ i[p] = n[p]
     \/ readopen /\ p \notin killed /\ ~WriteMustWait
  /\ Wakeup("nread")
  /\ Release
  /\ Return(p)
  /\ UNCHANGED <<pipe, holders, killed>>

-----------------------------------------------------------------------------
(* piperead()                                                              *)

Read(p, size) ==
  /\ pc[p] = "idle" /\ p \in holders["read"] /\ p \notin killed
  /\ n' = [n EXCEPT ![p] = size]
  /\ Goto(p, "r_lock")
  /\ UNCHANGED <<pipe, lock, holders, i, chan, killed>>

ReadLock(p) ==
  /\ pc[p] = "r_lock" /\ Acquire(p)
  /\ Goto(p, "r_loop")
  /\ UNCHANGED <<pipe, holders, calls, chan, killed>>

(* pipe-empty: as long as there is a writer, wait.  Mutant: never wait.    *)
NeverWait    == FALSE
ReadMustWait == Empty /\ writeopen

ReadFails(p) ==
  /\ pc[p] = "r_loop" /\ ReadMustWait /\ p \in killed
  /\ Release
  /\ Return(p)
  /\ UNCHANGED <<pipe, holders, chan, killed>>

ReadPrepare(p) ==
  /\ pc[p] = "r_loop" /\ ReadMustWait /\ p \notin killed
  /\ chan' = [chan EXCEPT ![p] = "nread"]
  /\ Release
  /\ Goto(p, "r_sleep")
  /\ UNCHANGED <<pipe, holders, calls, killed>>

ReadGo(p) ==
  /\ pc[p] = "r_loop" /\ ~ReadMustWait
  /\ Goto(p, "r_copy")
  /\ UNCHANGED <<pipe, lock, holders, calls, chan, killed>>

(* piperead-copy, one byte: ch = pi->data[pi->nread % PIPESIZE] has been   *)
(* copied out.                                                             *)
ReadByte(p) ==
  /\ pc[p] = "r_copy" /\ i[p] < n[p] /\ ~Empty
  /\ nread' = Plus(nread, 1)
  /\ i' = [i EXCEPT ![p] = @ + 1]
  /\ UNCHANGED <<data, nwrite, readopen, writeopen, allocated, lock, holders, pc, n, chan,
                 killed>>

(* All is read, the pipe is empty, or copyout() has failed and the byte    *)
(* stays.                                                                  *)
ReadDone(p) ==
  /\ pc[p] = "r_copy"
  /\ Wakeup("nwrite")
  /\ Release
  /\ Return(p)
  /\ UNCHANGED <<pipe, holders, killed>>

-----------------------------------------------------------------------------
(* sleep(), kkill()                                                        *)

Lock(l) == IF l \in {"r_sleep", "r_asleep"} THEN "r_lock" ELSE "w_lock"

(* sleep() finds p->chan: p is SLEEPING; or a wakeup() has come in time. *)
FallAsleep(p) ==
  /\ pc[p] \in {"r_sleep", "w_sleep"}
  /\ Goto(p, IF chan[p] = "none" THEN Lock(pc[p])
             ELSE IF pc[p] = "r_sleep" THEN "r_asleep" ELSE "w_asleep")
  /\ UNCHANGED <<pipe, lock, holders, calls, chan, killed>>

(* wakeup() has made p runnable. *)
Awake(p) ==
  /\ pc[p] \in {"r_asleep", "w_asleep"} /\ chan[p] = "none"
  /\ Goto(p, Lock(pc[p]))
  /\ UNCHANGED <<pipe, lock, holders, calls, chan, killed>>

(* kkill(): a sleeper is made runnable, and keeps its chan. *)
Kill(p) ==
  /\ p \in MayKill \ killed
  /\ killed' = killed \union {p}
  /\ Goto(p, IF pc[p] \in {"r_asleep", "w_asleep"} THEN Lock(pc[p]) ELSE pc[p])
  /\ UNCHANGED <<pipe, lock, holders, calls, chan>>

-----------------------------------------------------------------------------
(* filedup(), fileclose(), pipeclose()                                     *)

(* A fork() or dup() of p gives q the end. *)
Dup(p, q, end) ==
  /\ pc[p] = "idle" /\ p \in holders[end] /\ p \notin killed
  /\ pc[q] = "idle" /\ q \notin killed /\ q \in MayHold[end] \ holders[end]
  /\ holders' = [holders EXCEPT ![end] = @ \union {q}]
  /\ UNCHANGED <<pipe, lock, pc, calls, chan, killed>>

(* fileclose(): --f->ref, under ftable.lock; the last one closes the pipe. *)
(* A killed process comes here from kexit().                               *)
Close(p, end) ==
  /\ pc[p] = "idle" /\ p \in holders[end]
  /\ holders' = [holders EXCEPT ![end] = @ \ {p}]
  /\ Goto(p, IF holders[end] # {p} THEN "idle"
             ELSE IF end = "read" THEN "close_read" ELSE "close_write")
  /\ UNCHANGED <<pipe, lock, calls, chan, killed>>

(* pipeclose() frees the page when both ends are closed.  Mutant: either.  *)
FreeEarly == allocated' = (readopen' /\ writeopen')
FreeIfUnused == allocated' = (readopen' \/ writeopen')

PipeClose(p) ==
  /\ pc[p] \in {"close_read", "close_write"} /\ lock = {}
  /\ \/ pc[p] = "close_write" /\ writeopen' = FALSE /\ UNCHANGED readopen /\ Wakeup("nread")
     \/ pc[p] = "close_read" /\ readopen' = FALSE /\ UNCHANGED writeopen /\ Wakeup("nwrite")
  /\ FreeIfUnused
  /\ Goto(p, "idle")
  /\ UNCHANGED <<data, nread, nwrite, lock, holders, calls, killed>>

-----------------------------------------------------------------------------
(* What a process does inside a call. *)
Step(p) ==
  \/ WriteLock(p) \/ WriteFails(p) \/ WritePrepare(p) \/ WriteByte(p) \/ WriteEnd(p)
  \/ ReadLock(p) \/ ReadFails(p) \/ ReadPrepare(p) \/ ReadGo(p) \/ ReadByte(p) \/ ReadDone(p)
  \/ FallAsleep(p) \/ Awake(p) \/ PipeClose(p)

Next ==
  \E p \in Proc :
    \/ Step(p) \/ Kill(p)
    \/ \E size \in Sizes : Read(p, size) \/ Write(p, size)
    \/ \E end \in Ends : Close(p, end) \/ \E q \in Proc : Dup(p, q, end)

Spec == Init /\ [][Next]_vars

-----------------------------------------------------------------------------
(* Every variable has its type; the pipe never holds more than PIPESIZE    *)
(* bytes.                                                                  *)
Used == (nwrite - nread) % UINT
PCs == {"idle", "w_lock", "w_loop", "w_sleep", "w_asleep", "r_lock", "r_loop", "r_copy",
        "r_sleep", "r_asleep", "close_read", "close_write"}
Outside == {"idle", "close_read", "close_write"}
TypeOK ==
  /\ data \in [0..PIPESIZE-1 -> Byte]
  /\ nread \in 0..UINT-1 /\ nwrite \in 0..UINT-1 /\ Used <= PIPESIZE
  /\ readopen \in BOOLEAN /\ writeopen \in BOOLEAN /\ allocated \in BOOLEAN
  /\ lock \subseteq Proc /\ \A p, q \in lock : p = q
  /\ holders \in [Ends -> SUBSET Proc] /\ \A end \in Ends : holders[end] \subseteq MayHold[end]
  /\ pc \in [Proc -> PCs]
  /\ n \in [Proc -> Sizes \union {0}]
  /\ i \in [Proc -> Nat]
  /\ \A p \in Proc : i[p] <= n[p] /\ (pc[p] \in Outside => n[p] = 0)
  /\ chan \in [Proc -> {"none", "nread", "nwrite"}]
  /\ killed \subseteq Proc

(* The pipe is a queue: through every interleaving of readers, writers and *)
(* kills, and when nwrite and nread wrap around, the bytes come out as     *)
(* they went in, and none goes in once an end is closed.                   *)
Q == INSTANCE ByteQueue WITH
       Size  <- PIPESIZE,
       queue <- [k \in 1..Used |-> data[Plus(nread, k - 1) % PIPESIZE]]
FifoQueue == Q!Spec

(* No wakeup is lost: who sleeps for data finds none and has a writer, or  *)
(* a writer or closer that holds pi->lock will wake it; who sleeps for     *)
(* room has a full pipe and a reader.  The exception is a writer killed    *)
(* between two bytes: pipewrite() returns -1 without a wakeup().           *)
NoLostWakeup ==
  \A p \in Proc : chan[p] # "none" =>
    /\ pc[p] \in {"r_sleep", "r_asleep"} =>
         \/ Empty
         \/ \E w \in lock : pc[w] = "w_loop"
         \/ killed \cap MayHold["write"] # {}
    /\ pc[p] \in {"r_sleep", "r_asleep"} => writeopen
    /\ pc[p] \in {"w_sleep", "w_asleep"} =>
         /\ Full \/ \E r \in lock : pc[r] = "r_copy"
         /\ readopen

(* The struct pipe is there for everybody who is inside a call, or has a   *)
(* descriptor that may lead to one.                                        *)
NoUseAfterFree ==
  ~allocated => /\ \A p \in Proc : pc[p] = "idle"
                /\ \A end \in Ends : holders[end] = {}

(* A read that returns 0 bytes of the n > 0 it asked for, and was not      *)
(* stopped by copyout(), means the end of the stream: nothing is left, and *)
(* nobody can write.                                                       *)
EofIsFinal ==
  [][\A p \in Proc : ReadDone(p) /\ n[p] > 0 /\ i[p] = 0 /\ Empty =>
       ~writeopen /\ holders["write"] = {}]_vars
=============================================================================
