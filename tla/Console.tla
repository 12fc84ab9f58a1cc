------------------------------- MODULE Console ------------------------------
(***************************************************************************)
(* The console of xv6: its ring of typed characters (kernel/console.c) and *)
(* the transmitter it writes to (kernel/uart.c).                           *)
(*                                                                         *)
(* A stretch of code that holds cons.lock is one step; a process sleeps    *)
(* only between two of them.  uartwrite() holds the sleep lock tx_lock     *)
(* across its sleeps, so its owner is kept.  An interrupt handler is one   *)
(* step: the echo of a character spins until the transmitter is idle,      *)
(* which writes of other processes cannot delay.  What is printed is left  *)
(* out; the keys that count are "nl" (also typed as \r), "eof" (^D), "del" *)
(* (^H and DEL), "kill" (^U) and "ps" (^P).                                *)
(***************************************************************************)
EXTENDS Integers, Sequences

CONSTANTS Proc, Chars, INPUT_BUF_SIZE,
          BATCH        \* consolewrite()'s batch, 32 characters

ASSUME ConsoleAssumption == INPUT_BUF_SIZE \in Nat \ {0} /\ BATCH \in Nat \ {0}

VARIABLES cons,        \* buf, r, w, e
          uart,        \* transmitter busy, interrupt pending, owner of tx_lock (a set)
          con,         \* process -> the console call it is in
          killed       \* processes with p->killed

console == <<cons, uart, con, killed>>

(* con[p]: where the process is, characters still to transfer, those of the   *)
(* batch, what a read has got, and whether the user's buffer is bad.         *)
NoCon == [pc |-> "none", n |-> 0, nn |-> 0, got |-> <<>>, bad |-> FALSE]
Done(p, got) == con' = [con EXCEPT ![p] = [NoCon EXCEPT !.pc = "done", !.got = got]]
Goto(p, pc)  == con' = [con EXCEPT ![p].pc = pc]

At(i)     == cons.buf[i % INPUT_BUF_SIZE]
Chunk(i, j) == [k \in 1..(j - i) |-> At(i + k - 1)]    \* characters i..j-1 of the ring

(* wakeup(chan): "r" is &cons.r, "tx" is &tx_chan, "lock" is tx_lock.        *)
Asleep(pc) == CASE pc = "r" -> "rchan" [] pc = "tx" -> "txchan" [] pc = "lock" -> "lockchan"
NoWakeup(cs, pc) == cs                                 \* mutant: wakeup forgotten
Wakeup(cs, pc) ==
  [p \in Proc |-> IF cs[p].pc = Asleep(pc) THEN [cs[p] EXCEPT !.pc = pc] ELSE cs[p]]

ConInit ==
  /\ cons = [buf |-> [i \in 0..(INPUT_BUF_SIZE - 1) |-> "none"], r |-> 0, w |-> 0, e |-> 0]
  /\ uart = [busy |-> FALSE, irq |-> FALSE, owner |-> {}]
  /\ con = [p \in Proc |-> NoCon]
  /\ killed = {}

----------------------------------------------------------------------------
(* Reading.                                                                 *)

ConsoleRead(p, n, bad) ==
  /\ IF n = 0 THEN Done(p, <<>>)
     ELSE con' = [con EXCEPT ![p] = [NoCon EXCEPT !.pc = "r", !.n = n, !.bad = bad]]
  /\ UNCHANGED <<cons, uart, killed>>

(* Nothing there: a killed process gives up, any other sleeps. *)
ReadWait(p) ==
  /\ con[p].pc = "r" /\ cons.r = cons.w
  /\ IF p \in killed THEN Done(p, <<"error">>) ELSE Goto(p, "rchan")
  /\ UNCHANGED <<cons, uart, killed>>

(* Characters up to the end of a line, of the buffer or of the input.  ^D is *)
(* pushed back unless it comes first.                                       *)
LineEnds == {"nl", "eof"}
Stops(s, n) ==
  /\ s \in (cons.r + 1)..cons.w /\ s <= cons.r + n
  /\ \A i \in cons.r..(s - 2) : At(i) \notin LineEnds
  /\ s = cons.w \/ s = cons.r + n \/ At(s - 1) \in LineEnds

ReadChars(p) ==
  /\ con[p].pc = "r" /\ cons.r # cons.w /\ ~ con[p].bad
  /\ \E s \in (cons.r + 1)..cons.w :
       LET last == At(s - 1)
           got  == con[p].got \o Chunk(cons.r, IF last = "eof" THEN s - 1 ELSE s)
           back == IF last = "eof" /\ got # <<>> THEN 1 ELSE 0
           left == con[p].n - (s - cons.r)
       IN /\ Stops(s, con[p].n)
          /\ cons' = [cons EXCEPT !.r = s - back]
          /\ CASE last \in LineEnds \/ left = 0 -> Done(p, got)
               [] last \notin LineEnds /\ left # 0 /\ p \in killed -> Done(p, <<"error">>)
               [] OTHER -> con' = [con EXCEPT ![p] = [@ EXCEPT !.pc = "rchan", !.n = left, !.got = got]]
  /\ UNCHANGED <<uart, killed>>

(* either_copyout() fails: the character is gone. *)
ReadBad(p) ==
  /\ con[p].pc = "r" /\ cons.r # cons.w /\ con[p].bad
  /\ cons' = [cons EXCEPT !.r = @ + 1]
  /\ Done(p, <<>>)
  /\ UNCHANGED <<uart, killed>>

----------------------------------------------------------------------------
(* Writing: batches, each under tx_lock.                                    *)

Batch(n) == IF n < BATCH THEN n ELSE BATCH
NextBatch(p, n) ==
  IF n = 0 THEN Done(p, <<>>)
  ELSE con' = [con EXCEPT ![p] = [NoCon EXCEPT !.pc = "lock", !.n = n, !.nn = Batch(n)]]

ConsoleWrite(p, n, bad) ==
  /\ IF bad THEN Done(p, <<>>) ELSE NextBatch(p, n)
  /\ UNCHANGED <<cons, uart, killed>>

TxLock(p) ==
  /\ con[p].pc = "lock"
  /\ IF uart.owner = {} THEN Goto(p, "tx") /\ uart' = [uart EXCEPT !.owner = {p}]
     ELSE Goto(p, "lockchan") /\ UNCHANGED uart
  /\ UNCHANGED <<cons, killed>>

(* sleep_prepare(), then the test of LSR: send, or sleep. *)
TxSend(p) ==
  /\ con[p].pc = "tx" /\ con[p].nn > 0 /\ ~ uart.busy
  /\ uart' = [uart EXCEPT !.busy = TRUE, !.irq = FALSE]
  /\ con' = [con EXCEPT ![p].nn = @ - 1, ![p].n = @ - 1]
  /\ UNCHANGED <<cons, killed>>

TxWait(p) ==
  /\ con[p].pc = "tx" /\ con[p].nn > 0 /\ uart.busy
  /\ Goto(p, "txchan")
  /\ UNCHANGED <<cons, uart, killed>>

TxUnlock(p) ==
  /\ con[p].pc = "tx" /\ con[p].nn = 0
  /\ uart' = [uart EXCEPT !.owner = {}]
  /\ con' = [Wakeup(con, "lock") EXCEPT ![p] =
               IF con[p].n = 0 THEN [NoCon EXCEPT !.pc = "done"]
               ELSE [NoCon EXCEPT !.pc = "lock", !.n = con[p].n, !.nn = Batch(con[p].n)]]
  /\ UNCHANGED <<cons, killed>>

ConStep(p) == \/ ReadWait(p) \/ ReadChars(p) \/ ReadBad(p)
              \/ TxLock(p) \/ TxSend(p) \/ TxWait(p) \/ TxUnlock(p)

(* kkill(): a sleeper wakes, and its loop tests again.  One that has looked *)
(* at killed() and has still to reach sleep() is not SLEEPING: it is missed *)
(* and sleeps on until a wakeup.                                            *)
Kill(p) ==
  /\ killed' = killed \cup {p}
  /\ \/ UNCHANGED con
     \/ con' = [con EXCEPT ![p].pc = CASE @ = "rchan" -> "r" [] @ = "txchan" -> "tx"
                                       [] @ = "lockchan" -> "lock" [] OTHER -> @]
  /\ UNCHANGED <<cons, uart>>

----------------------------------------------------------------------------
(* The device and its interrupts.                                           *)

TxDone ==
  /\ uart.busy
  /\ uart' = [uart EXCEPT !.busy = FALSE, !.irq = TRUE]
  /\ UNCHANGED <<cons, con, killed>>

(* uartintr(): acknowledge, and wake the writer if the transmitter is idle. *)
AfterTx == IF uart.busy THEN con ELSE Wakeup(con, "tx")

TxIntr ==
  /\ uart.irq
  /\ uart' = [uart EXCEPT !.irq = FALSE]
  /\ con' = AfterTx
  /\ UNCHANGED <<cons, killed>>

(* consoleintr(): the ring is full when e has come round to r. *)
RoomOfOne == cons.e - cons.r <= INPUT_BUF_SIZE         \* mutant: off by one
Room      == cons.e - cons.r < INPUT_BUF_SIZE
Commits(c) == c \in LineEnds \/ cons.e + 1 - cons.r = INPUT_BUF_SIZE

StoreKey(c) ==
  /\ c \in Chars /\ Room
  /\ cons' = [cons EXCEPT !.buf[cons.e % INPUT_BUF_SIZE] = c, !.e = @ + 1,
                          !.w = IF Commits(c) THEN cons.e + 1 ELSE @]
  /\ con' = IF Commits(c) THEN Wakeup(AfterTx, "r") ELSE AfterTx

EraseKeys(c) ==
  /\ c \in {"del", "kill"} /\ cons.e # cons.w
  /\ cons' = [cons EXCEPT !.e = IF c = "kill" THEN cons.w ELSE @ - 1]
  /\ con' = AfterTx

(* ^P: procdump(). *)
PrintProcs(c) == c = "ps" /\ con' = AfterTx /\ UNCHANGED cons

(* What is printed goes through uartputc_sync() and leaves the transmitter  *)
(* busy.                                                                    *)
Echo(c) ==
  /\ StoreKey(c) \/ EraseKeys(c) \/ PrintProcs(c)
  /\ uart' = [uart EXCEPT !.busy = TRUE, !.irq = FALSE]
  /\ UNCHANGED killed

(* A character for which there is no room, an erase of nothing. *)
Ignore(c) ==
  /\ \/ c \in Chars /\ ~ Room
     \/ c \in {"del", "kill"} /\ cons.e = cons.w
  /\ uart' = [uart EXCEPT !.irq = FALSE]
  /\ con' = AfterTx
  /\ UNCHANGED <<cons, killed>>

Key(c) == Echo(c) \/ Ignore(c)

----------------------------------------------------------------------------
(* The console by itself, whatever programs do with it: a process that is in *)
(* no call of its begins one or goes away.                                   *)
Idle(p) == con[p].pc \in {"none", "done"}
Gone(p) ==
  /\ Idle(p)
  /\ con' = [con EXCEPT ![p] = NoCon]
  /\ killed' \in {killed, killed \ {p}}
  /\ UNCHANGED <<cons, uart>>
NewCall(p) == \E n \in Nat, bad \in BOOLEAN : ConsoleRead(p, n, bad) \/ ConsoleWrite(p, n, bad)

ConNext ==
  \/ \E p \in Proc : ConStep(p) \/ Kill(p) \/ Gone(p) \/ (Idle(p) /\ NewCall(p))
  \/ \E c \in Chars \cup {"del", "kill", "ps"} : Key(c)
  \/ TxDone \/ TxIntr
ConSpec == ConInit /\ [][ConNext]_console

----------------------------------------------------------------------------
(* The types, with the order of the ring's indices: read up to r, whole lines *)
(* up to w, typed up to e, and never more than the ring holds.               *)
ConTypeOK ==
  /\ cons \in [buf : [0..(INPUT_BUF_SIZE - 1) -> Chars \cup {"none"}], r : Nat, w : Nat, e : Nat]
  /\ cons.r <= cons.w /\ cons.w <= cons.e /\ cons.e <= cons.r + INPUT_BUF_SIZE
  /\ uart \in [busy : BOOLEAN, irq : BOOLEAN, owner : SUBSET Proc]
  /\ con \in [Proc -> [pc : {"none", "done", "r", "rchan", "lock", "lockchan", "tx", "txchan"},
                       n : Nat, nn : Nat, got : Seq(Chars \cup {"none", "error"}), bad : BOOLEAN]]
  /\ \A p \in Proc : con[p].nn <= IF con[p].pc \in {"r", "rchan"} THEN 0 ELSE con[p].n
  /\ killed \subseteq Proc

(* The ring is the queue of whole lines and the line being typed: no        *)
(* character is lost, doubled or out of order when the ring wraps, fills or *)
(* is erased, and a read returns at most one line (console.c:79-190).       *)
Lines == INSTANCE LineQueue WITH
           Capacity <- INPUT_BUF_SIZE, queue <- Chunk(cons.r, cons.w), edit <- Chunk(cons.w, cons.e)
LinesWhole == Lines!Spec

(* A reader sleeps only while no line is finished, a writer only while the  *)
(* transmitter is busy or its interrupt is still to come, and a process in   *)
(* line for tx_lock only while another has it (console.c:97, uart.c:86).    *)
NoLostWakeup ==
  \A p \in Proc :
    CASE con[p].pc = "rchan"    -> cons.r = cons.w
      [] con[p].pc = "txchan"   -> uart.busy \/ uart.irq
      [] con[p].pc = "lockchan" -> uart.owner # {}
      [] OTHER -> TRUE
=============================================================================
