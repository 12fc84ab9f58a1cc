---------------------------- MODULE ConsoleProofs ---------------------------
(* Theorems about Console by itself (ConSpec), for every number of         *)
(* processes, every INPUT_BUF_SIZE and every batch.                        *)
EXTENDS Console, SequenceTheorems, TLAPS

-----------------------------------------------------------------------------
(* Arithmetic modulo M.                                                    *)

(* Division with remainder. *)
LEMMA Division ==
  ASSUME NEW M \in Nat \ {0}, NEW a \in Int
  PROVE  a % M \in 0..M-1 /\ a \div M \in Int /\ a = M * (a \div M) + (a % M)
  OBVIOUS

(* Positions less than one turn apart are different. *)
LEMMA Apart ==
  ASSUME NEW M \in Nat \ {0}, NEW a \in Nat, NEW b \in Nat, a < b, b < a + M
  PROVE  a % M # b % M
<1> DEFINE q == a \div M  r == a % M  d == b \div M  s == b % M
<1>1. q \in Int /\ d \in Int /\ r \in 0..M-1 /\ s \in 0..M-1
      /\ a = M * q + r /\ b = M * d + s
  BY Division
<1>2. SUFFICES ASSUME r = s PROVE FALSE
  OBVIOUS
<1>3. b - a = M * (d - q)
  BY <1>1, <1>2
<1>4. d - q >= 1 => M * (d - q) >= M
  BY <1>1
<1>5. d - q <= 0 => M * (d - q) <= 0
  BY <1>1
<1> QED
  BY <1>1, <1>3, <1>4, <1>5

-----------------------------------------------------------------------------
(* Parts of the ring, as sequences.                                        *)

(* The code's sizes. *)
LEMMA Sizing == INPUT_BUF_SIZE \in Nat \ {0} /\ BATCH \in Nat \ {0}
  BY ConsoleAssumption

Contents == Chars \cup {"none"}
Ring == [0..(INPUT_BUF_SIZE - 1) -> Contents]
Cell(b, x) == b[x % INPUT_BUF_SIZE]
Part(b, i, j) == [k \in 1..(j - i) |-> Cell(b, i + k - 1)]

(* A position is one of the ring. *)
LEMMA InRing ==
  ASSUME NEW i \in Nat
  PROVE  i % INPUT_BUF_SIZE \in 0..(INPUT_BUF_SIZE - 1)
  BY Sizing, Division

(* A part is a sequence. *)
LEMMA PartSeq ==
  ASSUME NEW b \in Ring, NEW i \in Nat, NEW j \in Nat, i <= j
  PROVE  /\ Part(b, i, j) \in Seq(Contents)
         /\ Len(Part(b, i, j)) = j - i
         /\ \A k \in 1..(j - i) : Part(b, i, j)[k] = Cell(b, i + k - 1)
<1>1. ASSUME NEW k \in 1..(j - i) PROVE Cell(b, i + k - 1) \in Contents
  <2>1. i + k - 1 \in Nat
    OBVIOUS
  <2> HIDE DEF Contents
  <2> QED
    BY <2>1, InRing DEF Ring, Cell
<1>2. j - i \in Nat
  OBVIOUS
<1>5. Part(b, i, j) \in Seq(Contents)
  BY <1>1, <1>2, IsASeq DEF Part
<1> QED
  BY <1>2, <1>5, LenProperties DEF Part

(* Neighbouring parts join. *)
LEMMA PartJoin ==
  ASSUME NEW b \in Ring, NEW i \in Nat, NEW m \in Nat, NEW j \in Nat, i <= m, m <= j
  PROVE  Part(b, i, m) \o Part(b, m, j) = Part(b, i, j)
<1> DEFINE s == Part(b, i, m)  t == Part(b, m, j)  u == Part(b, i, j)
<1>a. /\ s \in Seq(Contents) /\ Len(s) = m - i
      /\ \A k \in 1..(m - i) : s[k] = Cell(b, i + k - 1)
  BY PartSeq
<1>b. /\ t \in Seq(Contents) /\ Len(t) = j - m
      /\ \A k \in 1..(j - m) : t[k] = Cell(b, m + k - 1)
  BY PartSeq
<1>c. /\ u \in Seq(Contents) /\ Len(u) = j - i
      /\ \A k \in 1..(j - i) : u[k] = Cell(b, i + k - 1)
  BY PartSeq
<1> HIDE DEF s, t, u
<1>2. /\ s \o t \in Seq(Contents) /\ Len(s \o t) = j - i
      /\ \A k \in 1..(j - i) : (s \o t)[k] = IF k <= m - i THEN s[k] ELSE t[k - (m - i)]
  <2>1. /\ s \o t \in Seq(Contents) /\ Len(s \o t) = Len(s) + Len(t)
        /\ \A k \in 1..(Len(s) + Len(t)) :
             (s \o t)[k] = IF k <= Len(s) THEN s[k] ELSE t[k - Len(s)]
    BY <1>a, <1>b, ConcatProperties
  <2>2. Len(s) + Len(t) = j - i
    BY <1>a, <1>b
  <2> QED
    BY <1>a, <2>1, <2>2
<1>3. ASSUME NEW k \in 1..(j - i) PROVE (s \o t)[k] = u[k]
  <2>1. CASE k <= m - i
    <3>1. k \in 1..(m - i)
      BY <2>1
    <3>2. (s \o t)[k] = s[k]
      BY <1>2, <2>1
    <3> QED
      BY <1>a, <1>c, <3>1, <3>2
  <2>2. CASE ~ (k <= m - i)
    <3>1. k - (m - i) \in 1..(j - m) /\ m + (k - (m - i)) - 1 = i + k - 1
      BY <2>2
    <3> QED
      BY <1>b, <1>c, <1>2, <2>2, <3>1
  <2> QED
    BY <2>1, <2>2
<1>4. s \o t = u
  BY <1>c, <1>2, <1>3, SeqEqual
<1> QED
  BY <1>4 DEF s, t, u

(* The end of a part is a part. *)
LEMMA PartDrop ==
  ASSUME NEW b \in Ring, NEW i \in Nat, NEW m \in Nat, NEW j \in Nat, i <= m, m <= j
  PROVE  SubSeq(Part(b, i, j), m - i + 1, j - i) = Part(b, m, j)
<1> DEFINE t == Part(b, m, j)  u == Part(b, i, j)
<1>a. /\ t \in Seq(Contents) /\ Len(t) = j - m
      /\ \A k \in 1..(j - m) : t[k] = Cell(b, m + k - 1)
  BY PartSeq
<1>b. /\ u \in Seq(Contents) /\ Len(u) = j - i
      /\ \A k \in 1..(j - i) : u[k] = Cell(b, i + k - 1)
  BY PartSeq
<1> HIDE DEF t, u
<1> DEFINE v == SubSeq(u, m - i + 1, j - i)
<1>2. /\ v \in Seq(Contents) /\ Len(v) = j - m
      /\ \A k \in 1..(j - m) : v[k] = u[m - i + k]
  <2>1. \A k \in (m - i + 1)..(j - i) : u[k] \in Contents
    BY <1>b, ElementOfSeq
  <2> PICK x \in Int, y \in Int : x = m - i + 1 /\ y = j - i
    OBVIOUS
  <2>2. \A k \in x..y : u[k] \in Contents
    BY <2>1
  <2>3. /\ SubSeq(u, x, y) \in Seq(Contents)
        /\ Len(SubSeq(u, x, y)) = IF x <= y THEN y - x + 1 ELSE 0
        /\ \A k \in 1..(y - x + 1) : SubSeq(u, x, y)[k] = u[x + k - 1]
    BY <2>2, SubSeqProperties
  <2>4. /\ y - x + 1 = j - m /\ (IF x <= y THEN y - x + 1 ELSE 0) = j - m
        /\ \A k \in 1..(j - m) : x + k - 1 = m - i + k
    OBVIOUS
  <2> QED
    BY <2>3, <2>4
<1> HIDE DEF v
<1>3. ASSUME NEW k \in 1..(j - m) PROVE v[k] = t[k]
  <2>1. m - i + k \in 1..(j - i) /\ i + (m - i + k) - 1 = m + k - 1
    OBVIOUS
  <2> QED
    BY <1>a, <1>b, <1>2, <2>1
<1>4. v = t
  BY <1>a, <1>b, <1>2, <1>3, SeqEqual
<1> QED
  BY <1>4 DEF v, t, u

(* So is the beginning. *)
LEMMA PartFront ==
  ASSUME NEW b \in Ring, NEW i \in Nat, NEW m \in Nat, NEW j \in Nat, i <= m, m <= j
  PROVE  SubSeq(Part(b, i, j), 1, m - i) = Part(b, i, m)
<1> DEFINE t == Part(b, i, m)  u == Part(b, i, j)
<1>a. /\ t \in Seq(Contents) /\ Len(t) = m - i
      /\ \A k \in 1..(m - i) : t[k] = Cell(b, i + k - 1)
  BY PartSeq
<1>b. /\ u \in Seq(Contents) /\ Len(u) = j - i
      /\ \A k \in 1..(j - i) : u[k] = Cell(b, i + k - 1)
  BY PartSeq
<1> HIDE DEF t, u
<1> DEFINE v == SubSeq(u, 1, m - i)
<1>2. /\ v \in Seq(Contents) /\ Len(v) = m - i
      /\ \A k \in 1..(m - i) : v[k] = u[k]
  <2>1. \A k \in 1..(m - i) : u[k] \in Contents
    BY <1>b, ElementOfSeq
  <2> QED
    BY <1>b, <2>1, SubSeqProperties
<1> HIDE DEF v
<1>3. ASSUME NEW k \in 1..(m - i) PROVE v[k] = t[k]
  <2>1. k \in 1..(j - i)
    OBVIOUS
  <2> QED
    BY <1>a, <1>b, <1>2, <2>1
<1>4. v = t
  BY <1>a, <1>b, <1>2, <1>3, SeqEqual
<1> QED
  BY <1>4 DEF v, t, u

(* A character stored at e is behind every part that ends there, and moves *)
(* nothing in it while the ring has room.                                  *)
LEMMA PartStore ==
  ASSUME NEW b \in Ring, NEW c \in Contents, NEW i \in Nat, NEW j \in Nat, NEW e \in Nat,
         i <= j, j <= e, e < i + INPUT_BUF_SIZE
  PROVE  Part([b EXCEPT ![e % INPUT_BUF_SIZE] = c], i, j) = Part(b, i, j)
<1> DEFINE at == e % INPUT_BUF_SIZE  d == [b EXCEPT ![at] = c]
<1>1. ASSUME NEW k \in 1..(j - i)
      PROVE  Cell(d, i + k - 1) = Cell(b, i + k - 1)
  <2>1. i + k - 1 \in Nat /\ i + k - 1 < e /\ e < (i + k - 1) + INPUT_BUF_SIZE
    BY Sizing
  <2>2. (i + k - 1) % INPUT_BUF_SIZE # at
    BY <2>1, Sizing, Apart
  <2>3. (i + k - 1) % INPUT_BUF_SIZE \in 0..(INPUT_BUF_SIZE - 1)
    BY <2>1, InRing
  <2> DEFINE x == (i + k - 1) % INPUT_BUF_SIZE
  <2> HIDE DEF x, at
  <2> QED
    BY <2>2, <2>3 DEF Ring, Cell, x
<1> HIDE DEF d
<1>2. Part(d, i, j) = Part(b, i, j)
  BY <1>1 DEF Part
<1> QED
  BY <1>2 DEF d

(* The part that ends with it. *)
LEMMA PartGrow ==
  ASSUME NEW b \in Ring, NEW c \in Contents, NEW i \in Nat, NEW e \in Nat,
         i <= e, e < i + INPUT_BUF_SIZE
  PROVE  Part([b EXCEPT ![e % INPUT_BUF_SIZE] = c], i, e + 1) = Append(Part(b, i, e), c)
<1> PICK n \in Nat : n = e + 1 /\ i <= n
  OBVIOUS
<1> DEFINE at == e % INPUT_BUF_SIZE  d == [b EXCEPT ![at] = c]
           s == Part(d, i, n)  t == Part(d, i, e)
<1>1. at \in 0..(INPUT_BUF_SIZE - 1)
  BY InRing
<1>2. d \in Ring /\ d[at] = c
  <2> HIDE DEF at, Contents
  <2> QED
    BY <1>1 DEF Ring
<1>3. t = Part(b, i, e)
  <2> HIDE DEF Part, Contents
  <2> QED
    BY PartStore
<1> HIDE DEF d
<1>a. /\ s \in Seq(Contents) /\ Len(s) = n - i
      /\ \A k \in 1..(n - i) : s[k] = Cell(d, i + k - 1)
  BY <1>2, PartSeq
<1>4. /\ t \in Seq(Contents) /\ Len(t) = e - i
      /\ \A k \in 1..(e - i) : t[k] = Cell(d, i + k - 1)
  BY <1>2, PartSeq
<1> HIDE DEF s, t, Contents
<1>5. /\ Append(t, c) \in Seq(Contents) /\ Len(Append(t, c)) = n - i
      /\ \A k \in 1..(e - i) : Append(t, c)[k] = t[k]
      /\ Append(t, c)[n - i] = c
  <2>1. /\ Append(t, c) \in Seq(Contents) /\ Len(Append(t, c)) = Len(t) + 1
        /\ \A k \in 1..Len(t) : Append(t, c)[k] = t[k]
        /\ Append(t, c)[Len(t) + 1] = c
    <3>1. t \in Seq(Contents)
      BY <1>4
    <3> QED
      BY <3>1, AppendProperties
  <2>2. Len(t) = e - i /\ Len(t) + 1 = n - i
    BY <1>4
  <2> QED
    BY <2>1, <2>2
<1>6. s[n - i] = c
  <2>1. n - i \in 1..(n - i) /\ i + (n - i) - 1 = e
    OBVIOUS
  <2> QED
    BY <1>2, <1>a, <2>1 DEF Cell
<1>7. ASSUME NEW k \in 1..(n - i) PROVE s[k] = Append(t, c)[k]
  <2>1. k \in 1..(e - i) \/ k = n - i
    OBVIOUS
  <2> QED
    BY <1>a, <1>4, <1>5, <1>6, <2>1
<1>8. s = Append(t, c)
  BY <1>a, <1>4, <1>5, <1>7, SeqEqual
<1> QED
  BY <1>3, <1>8 DEF s, d

-----------------------------------------------------------------------------
(* The calls of processes.                                                 *)
PCs == {"none", "done", "r", "rchan", "lock", "lockchan", "tx", "txchan"}
CallRecs == [pc : PCs, n : Nat, nn : Nat, got : Seq(Chars \cup {"none", "error"}), bad : BOOLEAN]
Fits(x) == x.nn <= IF x.pc \in {"r", "rchan"} THEN 0 ELSE x.n
Calling(f) == f \in [Proc -> CallRecs] /\ \A p \in Proc : Fits(f[p])

(* What is shared. *)
RingOK ==
  /\ cons \in [buf : Ring, r : Nat, w : Nat, e : Nat]
  /\ cons.r <= cons.w /\ cons.w <= cons.e /\ cons.e <= cons.r + INPUT_BUF_SIZE
UartOK == uart \in [busy : BOOLEAN, irq : BOOLEAN, owner : SUBSET Proc]

(* The parts of the type invariant. *)
LEMMA TypeParts == ConTypeOK <=> RingOK /\ UartOK /\ Calling(con) /\ killed \subseteq Proc
  BY DEF ConTypeOK, RingOK, UartOK, Calling, CallRecs, PCs, Fits, Ring, Contents

(* Who sleeps, and what must hold then. *)
ReadersAsleep == \A p \in Proc : con[p].pc = "rchan" => cons.r = cons.w
WritersAsleep == \A p \in Proc : con[p].pc = "txchan" => uart.busy \/ uart.irq
LockersAsleep == \A p \in Proc : con[p].pc = "lockchan" => uart.owner # {}

(* The parts of NoLostWakeup. *)
LEMMA SleepParts == NoLostWakeup <=> ReadersAsleep /\ WritersAsleep /\ LockersAsleep
<1>1. ASSUME NEW p \in Proc
      PROVE  (CASE con[p].pc = "rchan"    -> cons.r = cons.w
                [] con[p].pc = "txchan"   -> uart.busy \/ uart.irq
                [] con[p].pc = "lockchan" -> uart.owner # {}
                [] OTHER -> TRUE)
             <=> /\ con[p].pc = "rchan" => cons.r = cons.w
                 /\ con[p].pc = "txchan" => uart.busy \/ uart.irq
                 /\ con[p].pc = "lockchan" => uart.owner # {}
  OBVIOUS
<1> QED
  BY <1>1 DEF NoLostWakeup, ReadersAsleep, WritersAsleep, LockersAsleep

IInv == ConTypeOK /\ NoLostWakeup

-----------------------------------------------------------------------------
(* What one process does, and what wakeup() does.                          *)

(* The call of one process changes. *)
LEMMA OneCall ==
  ASSUME Calling(con), NEW p \in Proc, NEW x \in CallRecs, Fits(x),
         con' = [con EXCEPT ![p] = x]
  PROVE  Calling(con') /\ con'[p] = x /\ \A q \in Proc : q # p => con'[q] = con[q]
<1> HIDE DEF CallRecs
<1> QED
  BY DEF Calling

(* A call that moves to another place. *)
LEMMA Moves ==
  ASSUME Calling(con), NEW p \in Proc, NEW pc \in PCs, Goto(p, pc),
         pc \in {"r", "rchan"} => con[p].pc \in {"r", "rchan"}
  PROVE  Calling(con') /\ con'[p].pc = pc /\ \A q \in Proc : q # p => con'[q] = con[q]
<1>1. con[p] \in CallRecs /\ Fits(con[p])
  BY DEF Calling
<1> DEFINE x == [con[p] EXCEPT !.pc = pc]
<1>2. x \in CallRecs /\ x.pc = pc /\ x.nn = con[p].nn /\ x.n = con[p].n
  BY <1>1 DEF CallRecs
<1>4. con[p].nn \in Nat /\ con[p].n \in Nat
  BY <1>1 DEF CallRecs
<1>3. con' = [con EXCEPT ![p] = x]
  BY DEF Goto
<1> HIDE DEF x
<1>5. Fits(x)
  BY <1>1, <1>2, <1>4 DEF Fits
<1> QED
  BY <1>2, <1>3, <1>5, OneCall

(* A call that ends. *)
LEMMA Ends ==
  ASSUME Calling(con), NEW p \in Proc, NEW got \in Seq(Chars \cup {"none", "error"}), Done(p, got)
  PROVE  Calling(con') /\ con'[p].pc = "done" /\ \A q \in Proc : q # p => con'[q] = con[q]
<1> DEFINE x == [NoCon EXCEPT !.pc = "done", !.got = got]
<1>a. x \in [pc : {"done"}, n : {0}, nn : {0}, got : {got}, bad : {FALSE}]
  BY DEF NoCon
<1>1. x \in CallRecs /\ x.pc = "done" /\ Fits(x)
  <2> HIDE DEF x
  <2> DEFINE G == Seq(Chars \cup {"none", "error"})
  <2>1. got \in G
    OBVIOUS
  <2> HIDE DEF G
  <2>2. x.pc = "done" /\ x.n = 0 /\ x.nn = 0 /\ x.got = got
    BY <1>a
  <2>3. "done" \in PCs
    BY DEF PCs
  <2> HIDE DEF PCs
  <2>4. x \in [pc : PCs, n : Nat, nn : Nat, got : G, bad : BOOLEAN]
    <3>1. /\ {"done"} \subseteq PCs /\ {0} \subseteq Nat /\ {got} \subseteq G
          /\ {FALSE} \subseteq BOOLEAN
      BY <2>1, <2>3
    <3> QED
      BY ONLY <1>a, <3>1
  <2> QED
    BY <2>2, <2>4 DEF CallRecs, Fits, G
<1>2. con' = [con EXCEPT ![p] = x]
  BY DEF Done
<1> HIDE DEF x
<1> QED
  BY <1>1, <1>2, OneCall

(* wakeup(): who sleeps on the channel goes on. *)
LEMMA Woken ==
  ASSUME NEW f, Calling(f), NEW pc \in {"r", "tx", "lock"}
  PROVE  /\ Calling(Wakeup(f, pc))
         /\ \A q \in Proc : Wakeup(f, pc)[q].pc = IF f[q].pc = Asleep(pc) THEN pc ELSE f[q].pc
<1>1. ASSUME NEW q \in Proc
      PROVE  /\ Wakeup(f, pc)[q] \in CallRecs
             /\ Fits(Wakeup(f, pc)[q])
             /\ Wakeup(f, pc)[q].pc = IF f[q].pc = Asleep(pc) THEN pc ELSE f[q].pc
  <2>1. f[q] \in CallRecs /\ Fits(f[q])
    BY DEF Calling
  <2>2. Wakeup(f, pc)[q] = IF f[q].pc = Asleep(pc) THEN [f[q] EXCEPT !.pc = pc] ELSE f[q]
    BY DEF Wakeup
  <2>3. \/ Asleep(pc) = "rchan" /\ pc = "r"
        \/ Asleep(pc) \in {"txchan", "lockchan"} /\ pc # "r"
    BY DEF Asleep
  <2> QED
    BY <2>1, <2>2, <2>3 DEF CallRecs, PCs, Fits
<1>2. Wakeup(f, pc) \in [Proc -> CallRecs]
  BY <1>1 DEF Wakeup
<1> QED
  BY <1>1, <1>2 DEF Calling

(* uartintr(): the writers wake when the transmitter is idle. *)
LEMMA AfterTxWakes ==
  ASSUME Calling(con)
  PROVE  /\ Calling(AfterTx)
         /\ \A q \in Proc : AfterTx[q].pc # con[q].pc => AfterTx[q].pc = "tx"
         /\ \A q \in Proc : AfterTx[q].pc = "txchan" => uart.busy
<1>1. CASE uart.busy
  BY <1>1 DEF AfterTx
<1>2. CASE ~ uart.busy
  <2>1. AfterTx = Wakeup(con, "tx")
    BY <1>2 DEF AfterTx
  <2>2. Asleep("tx") = "txchan"
    BY DEF Asleep
  <2> QED
    BY <2>1, <2>2, Woken
<1> QED
  BY <1>1, <1>2

(* A call that begins. *)
LEMMA Begins ==
  ASSUME Calling(con), NEW p \in Proc, NEW pc \in PCs, NEW n \in Nat, NEW m \in Nat, m <= n,
         pc \in {"r", "rchan"} => m = 0,
         NEW x \in [pc : {pc}, n : {n}, nn : {m}, got : {<<>>}, bad : BOOLEAN],
         con' = [con EXCEPT ![p] = x]
  PROVE  Calling(con') /\ con'[p].pc = pc /\ \A q \in Proc : q # p => con'[q] = con[q]
<1> DEFINE G == Seq(Chars \cup {"none", "error"})
<1>1. <<>> \in G
  OBVIOUS
<1> HIDE DEF G
<1>2. x \in [pc : PCs, n : Nat, nn : Nat, got : G, bad : BOOLEAN]
  BY <1>1
<1>3. x \in CallRecs
  BY <1>2 DEF CallRecs, G
<1>4. Fits(x) /\ x.pc = pc
  BY DEF Fits
<1> QED
  BY <1>3, <1>4, OneCall

(* A batch is a part of what is left. *)
LEMMA BatchFits == \A n \in Nat : Batch(n) \in Nat /\ Batch(n) <= n
  BY Sizing DEF Batch

-----------------------------------------------------------------------------
(* The invariant, step by step.                                            *)
Good ==
  /\ RingOK /\ UartOK /\ Calling(con) /\ killed \subseteq Proc
  /\ ReadersAsleep /\ WritersAsleep /\ LockersAsleep

(* It is the type invariant with the safety property. *)
LEMMA GoodParts == IInv <=> Good
  BY TypeParts, SleepParts DEF IInv, Good

(* A step of one process that changes neither ring nor transmitter, and puts *)
(* nobody else to sleep.                                                     *)
LEMMA CallOnly ==
  ASSUME Good, NEW p \in Proc, Calling(con'), \A q \in Proc : q # p => con'[q] = con[q],
         con'[p].pc \notin {"rchan", "txchan", "lockchan"},
         UNCHANGED <<cons, uart>>, killed' \subseteq Proc
  PROVE  Good'
<1>1. RingOK' /\ UartOK'
  BY DEF Good, RingOK, UartOK
<1>2. ReadersAsleep' /\ WritersAsleep' /\ LockersAsleep'
  BY DEF Good, ReadersAsleep, WritersAsleep, LockersAsleep
<1> QED
  BY <1>1, <1>2 DEF Good

(* read() and write() of the console begin. *)
LEMMA CallsKeep == ASSUME Good, NEW p \in Proc, NewCall(p) PROVE Good'
<1>1. PICK n \in Nat, bad \in BOOLEAN : ConsoleRead(p, n, bad) \/ ConsoleWrite(p, n, bad)
  BY DEF NewCall
<1>2. Calling(con) /\ <<>> \in Seq(Chars \cup {"none", "error"})
  BY DEF Good
<1>3. /\ Calling(con')
      /\ con'[p].pc \notin {"rchan", "txchan", "lockchan"}
      /\ \A q \in Proc : q # p => con'[q] = con[q]
  <2>1. CASE Done(p, <<>>)
    BY <1>2, <2>1, Ends
  <2>2. CASE con' = [con EXCEPT ![p] = [NoCon EXCEPT !.pc = "r", !.n = n, !.bad = bad]]
    <3>1. [NoCon EXCEPT !.pc = "r", !.n = n, !.bad = bad]
            \in [pc : {"r"}, n : {n}, nn : {0}, got : {<<>>}, bad : BOOLEAN]
      BY DEF NoCon
    <3>2. "r" \in PCs /\ 0 \in Nat /\ 0 <= n
      BY DEF PCs
    <3> QED
      BY <1>2, <2>2, <3>1, <3>2, Begins
  <2>3. CASE con' = [con EXCEPT ![p] = [NoCon EXCEPT !.pc = "lock", !.n = n, !.nn = Batch(n)]]
    <3>1. [NoCon EXCEPT !.pc = "lock", !.n = n, !.nn = Batch(n)]
            \in [pc : {"lock"}, n : {n}, nn : {Batch(n)}, got : {<<>>}, bad : BOOLEAN]
      BY DEF NoCon
    <3>2. "lock" \in PCs
      BY DEF PCs
    <3> QED
      BY <1>2, <2>3, <3>1, <3>2, BatchFits, Begins
  <2> QED
    BY <1>1, <2>1, <2>2, <2>3 DEF ConsoleRead, ConsoleWrite, NextBatch
<1>4. UNCHANGED <<cons, uart, killed>>
  BY <1>1 DEF ConsoleRead, ConsoleWrite
<1> QED
  BY <1>3, <1>4, CallOnly DEF Good

(* A process that is in no call goes away. *)
LEMMA GoneKeeps == ASSUME Good, NEW p \in Proc, Gone(p) PROVE Good'
<1>1. "none" \in PCs /\ 0 \in Nat /\ 0 <= 0 /\ FALSE \in BOOLEAN
  BY DEF PCs
<1>2. con' = [con EXCEPT ![p] = NoCon]
      /\ NoCon \in [pc : {"none"}, n : {0}, nn : {0}, got : {<<>>}, bad : BOOLEAN]
  BY DEF Gone, NoCon
<1>3. /\ Calling(con') /\ con'[p].pc = "none"
      /\ \A q \in Proc : q # p => con'[q] = con[q]
  BY <1>1, <1>2, Begins DEF Good
<1>4. UNCHANGED <<cons, uart>> /\ killed' \subseteq Proc
  BY DEF Gone, Good
<1> QED
  BY <1>3, <1>4, CallOnly

(* kkill(): nobody falls asleep, and who is missed has slept before. *)
LEMMA KillKeeps == ASSUME Good, NEW p \in Proc, Kill(p) PROVE Good'
<1>6. CASE UNCHANGED con
  <2>1. UNCHANGED <<cons, uart>> /\ killed' \subseteq Proc
    BY DEF Kill, Good
  <2> QED
    BY <1>6, <2>1 DEF Good, RingOK, UartOK, ReadersAsleep, WritersAsleep, LockersAsleep
<1>7. SUFFICES ASSUME ~ UNCHANGED con PROVE Good'
  BY <1>6
<1> DEFINE pc == CASE con[p].pc = "rchan" -> "r" [] con[p].pc = "txchan" -> "tx"
                   [] con[p].pc = "lockchan" -> "lock" [] OTHER -> con[p].pc
<1>1. con[p] \in CallRecs /\ con[p].pc \in PCs
  BY DEF Good, Calling, CallRecs
<1>2. /\ pc \in PCs /\ pc \notin {"rchan", "txchan", "lockchan"}
      /\ pc \in {"r", "rchan"} => con[p].pc \in {"r", "rchan"}
  BY <1>1 DEF PCs
<1>3. Goto(p, pc)
  BY <1>7 DEF Kill, Goto
<1> HIDE DEF pc
<1>4. /\ Calling(con') /\ con'[p].pc = pc
      /\ \A q \in Proc : q # p => con'[q] = con[q]
  BY <1>2, <1>3, Moves DEF Good
<1>5. UNCHANGED <<cons, uart>> /\ killed' \subseteq Proc
  BY DEF Kill, Good
<1> QED
  BY <1>2, <1>4, <1>5, CallOnly

(* A reader finds no line: it gives up, or sleeps. *)
LEMMA ReadWaitKeeps == ASSUME Good, NEW p \in Proc, ReadWait(p) PROVE Good'
<1>1. Calling(con) /\ con[p].pc = "r" /\ "rchan" \in PCs
  BY DEF Good, PCs, ReadWait
<1>2. UNCHANGED <<cons, uart, killed>> /\ cons.r = cons.w
  BY DEF ReadWait
<1>3. CASE Done(p, <<"error">>)
  <2>1. <<"error">> \in Seq(Chars \cup {"none", "error"})
    OBVIOUS
  <2>2. /\ Calling(con') /\ con'[p].pc = "done"
        /\ \A q \in Proc : q # p => con'[q] = con[q]
    BY <1>1, <1>3, <2>1, Ends
  <2> QED
    BY <1>2, <2>2, CallOnly DEF Good
<1>4. CASE Goto(p, "rchan")
  <2>1. /\ Calling(con') /\ con'[p].pc = "rchan"
        /\ \A q \in Proc : q # p => con'[q] = con[q]
    BY <1>1, <1>4, Moves
  <2>2. RingOK' /\ UartOK' /\ (killed \subseteq Proc)'
    BY <1>2 DEF Good, RingOK, UartOK
  <2>3. ReadersAsleep' /\ WritersAsleep' /\ LockersAsleep'
    BY <1>2, <2>1 DEF Good, ReadersAsleep, WritersAsleep, LockersAsleep
  <2> QED
    BY <2>1, <2>2, <2>3 DEF Good
<1> QED
  BY <1>3, <1>4 DEF ReadWait

(* acquiresleep(&tx_lock). *)
LEMMA TxLockKeeps == ASSUME Good, NEW p \in Proc, TxLock(p) PROVE Good'
<1>1. Calling(con) /\ "tx" \in PCs /\ "lockchan" \in PCs
  BY DEF Good, PCs
<1>2. RingOK' /\ (killed \subseteq Proc)' /\ UNCHANGED cons
  BY DEF TxLock, Good, RingOK
<1>3. CASE uart.owner = {}
  <2>1. Goto(p, "tx") /\ uart' = [uart EXCEPT !.owner = {p}]
    BY <1>3 DEF TxLock
  <2>2. /\ Calling(con') /\ con'[p].pc = "tx"
        /\ \A q \in Proc : q # p => con'[q] = con[q]
    BY <1>1, <2>1, Moves
  <2>3. UartOK' /\ uart'.owner = {p} /\ uart'.busy = uart.busy /\ uart'.irq = uart.irq
    BY <2>1 DEF Good, UartOK
  <2>4. ReadersAsleep' /\ WritersAsleep' /\ LockersAsleep'
    BY <1>2, <2>2, <2>3 DEF Good, ReadersAsleep, WritersAsleep, LockersAsleep
  <2> QED
    BY <1>2, <2>2, <2>3, <2>4 DEF Good
<1>4. CASE uart.owner # {}
  <2>1. Goto(p, "lockchan") /\ UNCHANGED uart
    BY <1>4 DEF TxLock
  <2>2. /\ Calling(con') /\ con'[p].pc = "lockchan"
        /\ \A q \in Proc : q # p => con'[q] = con[q]
    BY <1>1, <2>1, Moves
  <2>3. UartOK'
    BY <2>1 DEF Good, UartOK
  <2>4. ReadersAsleep' /\ WritersAsleep' /\ LockersAsleep'
    BY <1>2, <1>4, <2>1, <2>2 DEF Good, ReadersAsleep, WritersAsleep, LockersAsleep
  <2> QED
    BY <1>2, <2>2, <2>3, <2>4 DEF Good
<1> QED
  BY <1>3, <1>4

(* The owner sends a character, or waits for the transmitter. *)
LEMMA TxSendKeeps == ASSUME Good, NEW p \in Proc, TxSend(p) PROVE Good'
<1> DEFINE x == [con[p] EXCEPT !.nn = @ - 1, !.n = @ - 1]
<1>1. con[p] \in CallRecs /\ con[p].nn <= con[p].n /\ con[p].nn > 0 /\ con[p].pc = "tx"
  BY DEF Good, Calling, TxSend, Fits
<1>2. x \in CallRecs /\ Fits(x) /\ x.pc = "tx"
  <2> DEFINE G == Seq(Chars \cup {"none", "error"})
  <2> HIDE DEF G
  <2>1. con[p] \in [pc : PCs, n : Nat, nn : Nat, got : G, bad : BOOLEAN]
    BY <1>1 DEF CallRecs, G
  <2>2. PICK a \in Nat, b \in Nat : a = con[p].nn - 1 /\ b = con[p].n - 1 /\ a <= b
    BY <1>1, <2>1
  <2>3. x = [con[p] EXCEPT !.nn = a, !.n = b]
    BY <2>2
  <2> HIDE DEF x, PCs
  <2>4. x \in [pc : PCs, n : Nat, nn : Nat, got : G, bad : BOOLEAN]
    BY ONLY <2>1, <2>3
  <2>5. x.nn = a /\ x.n = b /\ x.pc = con[p].pc
    BY ONLY <2>1, <2>3
  <2> QED
    BY <1>1, <2>2, <2>4, <2>5 DEF CallRecs, Fits, G
<1>3. con' = [con EXCEPT ![p] = x]
  BY DEF TxSend, Good, Calling
<1> HIDE DEF x
<1>4. Calling(con') /\ con'[p].pc = "tx" /\ \A q \in Proc : q # p => con'[q] = con[q]
  BY <1>2, <1>3, OneCall DEF Good
<1>5. RingOK' /\ (killed \subseteq Proc)' /\ UNCHANGED cons
  BY DEF TxSend, Good, RingOK
<1>6. UartOK' /\ uart'.busy /\ uart'.owner = uart.owner
  BY DEF TxSend, Good, UartOK
<1>7. ReadersAsleep' /\ WritersAsleep' /\ LockersAsleep'
  BY <1>4, <1>5, <1>6 DEF Good, ReadersAsleep, WritersAsleep, LockersAsleep
<1> QED
  BY <1>4, <1>5, <1>6, <1>7 DEF Good

(* The transmitter is busy, so its interrupt is to come. *)
LEMMA TxWaitKeeps == ASSUME Good, NEW p \in Proc, TxWait(p) PROVE Good'
<1>1. Calling(con) /\ "txchan" \in PCs
  BY DEF Good, PCs
<1>2. UNCHANGED <<cons, uart, killed>> /\ uart.busy /\ Goto(p, "txchan")
  BY DEF TxWait
<1>3. Calling(con') /\ con'[p].pc = "txchan" /\ \A q \in Proc : q # p => con'[q] = con[q]
  BY <1>1, <1>2, Moves
<1>4. RingOK' /\ UartOK' /\ (killed \subseteq Proc)'
  BY <1>2 DEF Good, RingOK, UartOK
<1>5. ReadersAsleep' /\ WritersAsleep' /\ LockersAsleep'
  BY <1>2, <1>3 DEF Good, ReadersAsleep, WritersAsleep, LockersAsleep
<1> QED
  BY <1>3, <1>4, <1>5 DEF Good

(* releasesleep(&tx_lock): everyone in line tries again. *)
LEMMA TxUnlockKeeps == ASSUME Good, NEW p \in Proc, TxUnlock(p) PROVE Good'
<1> DEFINE f == Wakeup(con, "lock")
           x == IF con[p].n = 0 THEN [NoCon EXCEPT !.pc = "done"]
                ELSE [NoCon EXCEPT !.pc = "lock", !.n = con[p].n, !.nn = Batch(con[p].n)]
<1>1. Calling(f) /\ \A q \in Proc : f[q].pc = IF con[q].pc = "lockchan" THEN "lock" ELSE con[q].pc
  <2>1. Asleep("lock") = "lockchan"
    BY DEF Asleep
  <2> QED
    BY <2>1, Woken DEF Good
<1>2. x \in CallRecs /\ Fits(x) /\ x.pc \in {"done", "lock"}
  <2> DEFINE G == Seq(Chars \cup {"none", "error"})
  <2>1. con[p].n \in Nat
    BY DEF Good, Calling, CallRecs
  <2>2. PICK n \in Nat : n = con[p].n
    BY <2>1
  <2>3. Batch(n) \in Nat /\ Batch(n) <= n /\ 0 \in Nat
    BY BatchFits
  <2>4. \/ x \in [pc : {"done"}, n : {0}, nn : {0}, got : {<<>>}, bad : {FALSE}]
        \/ x \in [pc : {"lock"}, n : {n}, nn : {Batch(n)}, got : {<<>>}, bad : {FALSE}]
    BY <2>2 DEF NoCon
  <2>5. <<>> \in G
    OBVIOUS
  <2> HIDE DEF G, x
  <2>6. x.nn <= x.n /\ x.pc \in {"done", "lock"}
    <3>1. \/ x.pc = "done" /\ x.n = 0 /\ x.nn = 0
          \/ x.pc = "lock" /\ x.n = n /\ x.nn = Batch(n)
      BY ONLY <2>4
    <3> QED
      BY <2>3, <3>1
  <2>7. {"done"} \subseteq PCs /\ {"lock"} \subseteq PCs /\ {<<>>} \subseteq G
        /\ {0} \subseteq Nat /\ {n} \subseteq Nat /\ {Batch(n)} \subseteq Nat
        /\ {FALSE} \subseteq BOOLEAN
    BY <2>3, <2>5 DEF PCs
  <2>8. x \in [pc : PCs, n : Nat, nn : Nat, got : G, bad : BOOLEAN]
    BY ONLY <2>4, <2>7
  <2> QED
    BY <2>6, <2>8 DEF CallRecs, Fits, G
<1>3. con' = [f EXCEPT ![p] = x]
  BY DEF TxUnlock
<1> HIDE DEF f, x
<1>4. Calling(con') /\ con'[p] = x /\ \A q \in Proc : q # p => con'[q] = f[q]
  <2> HIDE DEF CallRecs
  <2> QED
    BY <1>1, <1>2, <1>3 DEF Calling
<1>5. RingOK' /\ (killed \subseteq Proc)' /\ UNCHANGED cons
  BY DEF TxUnlock, Good, RingOK
<1>6. UartOK' /\ uart'.busy = uart.busy /\ uart'.irq = uart.irq
  BY DEF TxUnlock, Good, UartOK
<1>7. ReadersAsleep'
  BY <1>1, <1>2, <1>4, <1>5 DEF Good, ReadersAsleep
<1>8. WritersAsleep'
  BY <1>1, <1>2, <1>4, <1>6 DEF Good, WritersAsleep
<1>9. LockersAsleep'
  BY <1>1, <1>2, <1>4 DEF Good, LockersAsleep
<1> QED
  BY <1>4, <1>5, <1>6, <1>7, <1>8, <1>9 DEF Good

(* The transmitter has sent a character: its interrupt is pending. *)
LEMMA TxDoneKeeps == ASSUME Good, TxDone PROVE Good'
<1>1. UNCHANGED <<cons, con, killed>>
  BY DEF TxDone
<1>2. RingOK' /\ Calling(con') /\ (killed \subseteq Proc)'
  BY <1>1 DEF Good, RingOK
<1>3. UartOK' /\ uart'.irq /\ uart'.owner = uart.owner
  BY DEF TxDone, Good, UartOK
<1>4. ReadersAsleep' /\ WritersAsleep' /\ LockersAsleep'
  BY <1>1, <1>3 DEF Good, ReadersAsleep, WritersAsleep, LockersAsleep
<1> QED
  BY <1>2, <1>3, <1>4 DEF Good

(* An interrupt that moves no character and leaves the transmitter as it is: *)
(* the pending one is acknowledged, and no writer needs it any more.         *)
LEMMA Acknowledged ==
  ASSUME Good, con' = AfterTx, uart' = [uart EXCEPT !.irq = FALSE], UNCHANGED <<cons, killed>>
  PROVE  Good'
<1>1. /\ Calling(con')
      /\ \A q \in Proc : con'[q].pc # con[q].pc => con'[q].pc = "tx"
      /\ \A q \in Proc : con'[q].pc = "txchan" => uart.busy
  BY AfterTxWakes DEF Good
<1>2. RingOK' /\ (killed \subseteq Proc)'
  BY DEF Good, RingOK
<1>3. UartOK' /\ uart'.busy = uart.busy /\ uart'.owner = uart.owner
  BY DEF Good, UartOK
<1>4. ReadersAsleep' /\ WritersAsleep' /\ LockersAsleep'
  BY <1>1, <1>3 DEF Good, ReadersAsleep, WritersAsleep, LockersAsleep
<1> QED
  BY <1>1, <1>2, <1>3, <1>4 DEF Good

(* A key that moves the end of the ring: what the echo does with the           *)
(* transmitter and its writers.                                                *)
LEMMA EchoTells ==
  ASSUME Good, NEW c, Echo(c)
  PROVE  UartOK' /\ uart'.busy /\ uart'.owner = uart.owner /\ UNCHANGED killed
  BY DEF Echo, Good, UartOK

(* Where a typed character goes. *)
LEMMA StoreMoves ==
  ASSUME Good, NEW c, StoreKey(c)
  PROVE  /\ c \in Contents /\ cons.e < cons.r + INPUT_BUF_SIZE
         /\ cons'.buf = [cons.buf EXCEPT ![cons.e % INPUT_BUF_SIZE] = c]
         /\ cons'.r = cons.r /\ cons'.e = cons.e + 1
         /\ cons'.w = IF Commits(c) THEN cons.e + 1 ELSE cons.w
         /\ RingOK'
<1> PICK b \in Ring, r \in Nat, w \in Nat, e \in Nat :
         /\ cons = [buf |-> b, r |-> r, w |-> w, e |-> e]
         /\ r <= w /\ w <= e /\ e <= r + INPUT_BUF_SIZE
  BY DEF Good, RingOK
<1> PICK w1 : w1 = IF Commits(c) THEN e + 1 ELSE w
  OBVIOUS
<1>1. c \in Contents /\ e < r + INPUT_BUF_SIZE
  BY Sizing DEF StoreKey, Room, Contents
<1>2. cons' = [cons EXCEPT !.buf[e % INPUT_BUF_SIZE] = c, !.e = e + 1, !.w = w1]
  BY DEF StoreKey
<1> DEFINE at == e % INPUT_BUF_SIZE  d == [b EXCEPT ![at] = c]
<1>3. d \in Ring
  <2>1. at \in 0..(INPUT_BUF_SIZE - 1)
    BY InRing
  <2> HIDE DEF at, Contents
  <2> QED
    BY <1>1, <2>1 DEF Ring
<1>4. cons' \in [buf : {d}, r : {r}, w : {w1}, e : {e + 1}]
  <2> HIDE DEF at
  <2> QED
    BY <1>2 DEF at
<1>5. cons'.buf = d /\ cons'.r = r /\ cons'.w = w1 /\ cons'.e = e + 1
  <2> HIDE DEF d
  <2> QED
    BY <1>4
<1>6. PICK e1 \in Nat : e1 = e + 1
  OBVIOUS
<1>7. w1 \in Nat /\ r <= w1 /\ w1 <= e1 /\ e1 <= r + INPUT_BUF_SIZE
  BY <1>1, <1>6, Sizing
<1>8. RingOK'
  <2>1. {d} \subseteq Ring /\ {r} \subseteq Nat /\ {w1} \subseteq Nat /\ {e + 1} \subseteq Nat
    BY <1>3, <1>6, <1>7
  <2> HIDE DEF d, Ring
  <2>2. cons' \in [buf : Ring, r : Nat, w : Nat, e : Nat]
    BY ONLY <1>4, <2>1
  <2> QED
    BY <1>5, <1>6, <1>7, <2>2 DEF RingOK
<1> QED
  BY <1>1, <1>5, <1>8

(* A character is stored; the end of a line wakes the readers. *)
LEMMA StoreKeeps == ASSUME Good, NEW c, Echo(c), StoreKey(c) PROVE Good'
<1>1. RingOK' /\ cons'.r = cons.r /\ cons'.w = IF Commits(c) THEN cons.e + 1 ELSE cons.w
  BY StoreMoves
<1>2. UartOK' /\ uart'.busy /\ uart'.owner = uart.owner /\ (killed \subseteq Proc)'
  BY EchoTells DEF Good
<1>3. Calling(AfterTx) /\ \A q \in Proc : AfterTx[q].pc # con[q].pc => AfterTx[q].pc = "tx"
  BY AfterTxWakes DEF Good
<1>4. /\ Calling(con')
      /\ \A q \in Proc : con'[q].pc = "lockchan" => con[q].pc = "lockchan"
      /\ \A q \in Proc : con'[q].pc = "rchan" => con[q].pc = "rchan" /\ ~ Commits(c)
  <2>1. CASE Commits(c)
    <3>1. con' = Wakeup(AfterTx, "r") /\ Asleep("r") = "rchan"
      BY <2>1 DEF StoreKey, Asleep
    <3>2. /\ Calling(Wakeup(AfterTx, "r"))
          /\ \A q \in Proc : Wakeup(AfterTx, "r")[q].pc
               = IF AfterTx[q].pc = Asleep("r") THEN "r" ELSE AfterTx[q].pc
      BY <1>3, Woken
    <3> QED
      BY <1>3, <3>1, <3>2
  <2>2. CASE ~ Commits(c)
    <3>1. con' = AfterTx
      BY <2>2 DEF StoreKey
    <3> QED
      BY <1>3, <2>2, <3>1
  <2> QED
    BY <2>1, <2>2
<1>5. ReadersAsleep'
  BY <1>1, <1>4 DEF Good, ReadersAsleep
<1>6. WritersAsleep' /\ LockersAsleep'
  BY <1>2, <1>4 DEF Good, WritersAsleep, LockersAsleep
<1> QED
  BY <1>1, <1>2, <1>4, <1>5, <1>6 DEF Good

(* What ^H and ^U leave of the line. *)
LEMMA EraseMoves ==
  ASSUME Good, NEW c, EraseKeys(c)
  PROVE  /\ cons'.buf = cons.buf /\ cons'.r = cons.r /\ cons'.w = cons.w
         /\ cons'.e = IF c = "kill" THEN cons.w ELSE cons.e - 1
         /\ cons.w < cons.e
         /\ RingOK'
<1> PICK b \in Ring, r \in Nat, w \in Nat, e \in Nat :
         /\ cons = [buf |-> b, r |-> r, w |-> w, e |-> e]
         /\ r <= w /\ w <= e /\ e <= r + INPUT_BUF_SIZE
  BY DEF Good, RingOK
<1> PICK e1 : e1 = IF c = "kill" THEN w ELSE e - 1
  OBVIOUS
<1>1. w < e
  BY DEF EraseKeys
<1>2. cons' = [cons EXCEPT !.e = e1]
  BY DEF EraseKeys
<1>3. cons'.buf = b /\ cons'.r = r /\ cons'.w = w /\ cons'.e = e1
  BY <1>2
<1>4. e1 \in Nat /\ w <= e1 /\ e1 <= r + INPUT_BUF_SIZE
  BY <1>1, Sizing
<1>5. RingOK'
  <2> HIDE DEF Ring
  <2>1. cons' \in [buf : Ring, r : Nat, w : Nat, e : Nat]
    BY <1>2, <1>4
  <2> QED
    BY <1>3, <1>4, <2>1 DEF RingOK
<1> QED
  BY <1>1, <1>3, <1>5

(* Erasing touches no finished line. *)
LEMMA EraseKeeps == ASSUME Good, NEW c, Echo(c), EraseKeys(c) PROVE Good'
<1>1. RingOK' /\ cons'.r = cons.r /\ cons'.w = cons.w
  BY EraseMoves
<1>2. UartOK' /\ uart'.busy /\ uart'.owner = uart.owner /\ (killed \subseteq Proc)'
  BY EchoTells DEF Good
<1>3. con' = AfterTx
  BY DEF EraseKeys
<1>4. Calling(con') /\ \A q \in Proc : con'[q].pc # con[q].pc => con'[q].pc = "tx"
  BY <1>3, AfterTxWakes DEF Good
<1>5. ReadersAsleep' /\ WritersAsleep' /\ LockersAsleep'
  BY <1>1, <1>2, <1>4 DEF Good, ReadersAsleep, WritersAsleep, LockersAsleep
<1> QED
  BY <1>1, <1>2, <1>4, <1>5 DEF Good

(* ^P changes nothing but the transmitter. *)
LEMMA PrintKeeps == ASSUME Good, NEW c, Echo(c), PrintProcs(c) PROVE Good'
<1>1. UartOK' /\ uart'.busy /\ uart'.owner = uart.owner /\ (killed \subseteq Proc)'
  BY EchoTells DEF Good
<1>2. con' = AfterTx /\ UNCHANGED cons
  BY DEF PrintProcs
<1>3. Calling(con') /\ \A q \in Proc : con'[q].pc # con[q].pc => con'[q].pc = "tx"
  BY <1>2, AfterTxWakes DEF Good
<1>4. RingOK'
  BY <1>2 DEF Good, RingOK
<1>5. ReadersAsleep' /\ WritersAsleep' /\ LockersAsleep'
  BY <1>1, <1>2, <1>3 DEF Good, ReadersAsleep, WritersAsleep, LockersAsleep
<1> QED
  BY <1>1, <1>3, <1>4, <1>5 DEF Good

(* A read that fails has taken a character. *)
LEMMA BadMoves ==
  ASSUME Good, NEW p \in Proc, ReadBad(p)
  PROVE  /\ cons'.buf = cons.buf /\ cons'.r = cons.r + 1 /\ cons'.w = cons.w /\ cons'.e = cons.e
         /\ cons.r < cons.w
         /\ RingOK'
<1> PICK b \in Ring, r \in Nat, w \in Nat, e \in Nat :
         /\ cons = [buf |-> b, r |-> r, w |-> w, e |-> e]
         /\ r <= w /\ w <= e /\ e <= r + INPUT_BUF_SIZE
  BY DEF Good, RingOK
<1> PICK r1 \in Nat : r1 = r + 1
  OBVIOUS
<1>1. r < w
  BY DEF ReadBad
<1>2. cons' = [cons EXCEPT !.r = r1]
  BY DEF ReadBad
<1>3. cons'.buf = b /\ cons'.r = r1 /\ cons'.w = w /\ cons'.e = e
  BY <1>2
<1>4. r1 <= w /\ e <= r1 + INPUT_BUF_SIZE
  BY <1>1, Sizing
<1>5. RingOK'
  <2> HIDE DEF Ring
  <2>1. cons' \in [buf : Ring, r : Nat, w : Nat, e : Nat]
    BY <1>2
  <2> QED
    BY <1>3, <1>4, <2>1 DEF RingOK
<1> QED
  BY <1>1, <1>3, <1>5

(* It ends the read. *)
LEMMA BadKeeps == ASSUME Good, NEW p \in Proc, ReadBad(p) PROVE Good'
<1>1. RingOK' /\ cons'.w = cons.w /\ cons.r < cons.w
  BY BadMoves
<1>2. UNCHANGED <<uart, killed>> /\ Done(p, <<>>)
  BY DEF ReadBad
<1>3. <<>> \in Seq(Chars \cup {"none", "error"})
  OBVIOUS
<1>4. Calling(con') /\ con'[p].pc = "done" /\ \A q \in Proc : q # p => con'[q] = con[q]
  BY <1>2, <1>3, Ends DEF Good
<1>5. UartOK' /\ (killed \subseteq Proc)'
  BY <1>2 DEF Good, UartOK
<1>6. cons.r # cons.w
  BY <1>1 DEF Good, RingOK
<1>7. ReadersAsleep' /\ WritersAsleep' /\ LockersAsleep'
  BY <1>2, <1>4, <1>6 DEF Good, ReadersAsleep, WritersAsleep, LockersAsleep
<1> QED
  BY <1>1, <1>4, <1>5, <1>7 DEF Good

(* How much of the ring a read has looked at, and what it got. *)
Backs(s, got) == IF At(s - 1) = "eof" /\ got # <<>> THEN 1 ELSE 0
Gets(s, got) == got \o Chunk(cons.r, IF At(s - 1) = "eof" THEN s - 1 ELSE s)

(* What a read takes out of the ring: at most one line. *)
LEMMA ReadMoves ==
  ASSUME Good, NEW p \in Proc, NEW s \in (cons.r + 1)..cons.w, Stops(s, con[p].n),
         NEW back \in {0, 1}, cons' = [cons EXCEPT !.r = s - back]
  PROVE  /\ cons'.buf = cons.buf /\ cons'.r = s - back /\ cons'.w = cons.w /\ cons'.e = cons.e
         /\ cons.r <= cons'.r /\ cons'.r <= cons.w
         /\ \A i \in cons.r..(s - 2) : At(i) \notin LineEnds
         /\ RingOK'
<1> PICK b \in Ring, r \in Nat, w \in Nat, e \in Nat :
         /\ cons = [buf |-> b, r |-> r, w |-> w, e |-> e]
         /\ r <= w /\ w <= e /\ e <= r + INPUT_BUF_SIZE
  BY DEF Good, RingOK
<1>1. s \in (r + 1)..w
  OBVIOUS
<1> PICK r1 \in Nat : r1 = s - back
  BY <1>1
<1>2. cons' = [cons EXCEPT !.r = r1]
  OBVIOUS
<1>3. cons'.buf = b /\ cons'.r = r1 /\ cons'.w = w /\ cons'.e = e
  BY <1>2
<1>4. r <= r1 /\ r1 <= w /\ e <= r1 + INPUT_BUF_SIZE
  BY <1>1, Sizing
<1>5. RingOK'
  <2> HIDE DEF Ring
  <2>1. cons' \in [buf : Ring, r : Nat, w : Nat, e : Nat]
    BY <1>2
  <2> QED
    BY <1>3, <1>4, <2>1 DEF RingOK
<1>6. \A i \in cons.r..(s - 2) : At(i) \notin LineEnds
  BY DEF Stops
<1> QED
  BY <1>1, <1>3, <1>4, <1>5, <1>6

(* What a read has got is characters. *)
LEMMA GetsType ==
  ASSUME Good, NEW p \in Proc, NEW s \in (cons.r + 1)..cons.w
  PROVE  Gets(s, con[p].got) \in Seq(Chars \cup {"none", "error"})
<1> DEFINE C == Chars \cup {"none", "error"}
           j == IF At(s - 1) = "eof" THEN s - 1 ELSE s
<1>1. cons.buf \in Ring /\ cons.r \in Nat /\ cons.w \in Nat
  BY DEF Good, RingOK
<1>2. j \in Nat /\ cons.r <= j
  BY <1>1
<1>3. Chunk(cons.r, j) = Part(cons.buf, cons.r, j)
  BY DEF Chunk, At, Part, Cell
<1> HIDE DEF j
<1>4. Chunk(cons.r, j) \in Seq(Contents)
  <2> HIDE DEF Part, Contents, Ring
  <2>1. Part(cons.buf, cons.r, j) \in Seq(Contents)
    BY <1>1, <1>2, PartSeq
  <2> QED
    BY <1>3, <2>1
<1>5. Contents \subseteq C
  BY DEF Contents
<1>6. con[p].got \in Seq(C)
  BY DEF Good, Calling, CallRecs
<1> HIDE DEF C, Contents
<1>7. Chunk(cons.r, j) \in Seq(C)
  BY <1>4, <1>5
<1>8. con[p].got \o Chunk(cons.r, j) \in Seq(C)
  BY <1>6, <1>7
<1> QED
  BY <1>8 DEF Gets, C, j

(* A read that takes the characters before s, but for those pushed back. *)
ReadTo(p, s, back) ==
  LET left == con[p].n - (s - cons.r)
      got  == Gets(s, con[p].got) IN
  /\ Stops(s, con[p].n) /\ cons' = [cons EXCEPT !.r = s - back]
  /\ \/ Done(p, got)
     \/ left # 0 /\ Done(p, <<"error">>)
     \/ /\ left # 0 /\ At(s - 1) \notin LineEnds
        /\ con' = [con EXCEPT ![p] = [con[p] EXCEPT !.pc = "rchan", !.n = left, !.got = got]]
        /\ back = 0

(* It is what ReadChars does. *)
LEMMA ReadParts ==
  ASSUME NEW p \in Proc, ReadChars(p)
  PROVE  /\ con[p].pc = "r" /\ cons.r # cons.w /\ UNCHANGED <<uart, killed>>
         /\ \E s \in (cons.r + 1)..cons.w, back \in {0, 1} : ReadTo(p, s, back)
<1>1. con[p].pc = "r" /\ cons.r # cons.w /\ UNCHANGED <<uart, killed>>
  BY DEF ReadChars
<1>2. PICK s \in (cons.r + 1)..cons.w :
       LET last == At(s - 1)
           got  == con[p].got \o Chunk(cons.r, IF last = "eof" THEN s - 1 ELSE s)
           back == IF last = "eof" /\ got # <<>> THEN 1 ELSE 0
           left == con[p].n - (s - cons.r)
       IN /\ Stops(s, con[p].n)
          /\ cons' = [cons EXCEPT !.r = s - back]
          /\ CASE last \in LineEnds \/ left = 0 -> Done(p, got)
               [] last \notin LineEnds /\ left # 0 /\ p \in killed -> Done(p, <<"error">>)
               [] OTHER -> con' = [con EXCEPT ![p] = [@ EXCEPT !.pc = "rchan", !.n = left, !.got = got]]
  BY DEF ReadChars
<1> DEFINE last == At(s - 1)
           got  == Gets(s, con[p].got)
           back == Backs(s, got)
           left == con[p].n - (s - cons.r)
<1>3. /\ Stops(s, con[p].n)
      /\ cons' = [cons EXCEPT !.r = s - back]
  BY <1>2 DEF Gets, Backs
<1> DEFINE y == [con EXCEPT ![p] = [@ EXCEPT !.pc = "rchan", !.n = left, !.got = got]]
<1>8. y = [con EXCEPT ![p] = [con[p] EXCEPT !.pc = "rchan", !.n = left, !.got = got]]
  OBVIOUS
<1>4. \/ Done(p, got)
      \/ left # 0 /\ Done(p, <<"error">>)
      \/ left # 0 /\ last \notin LineEnds /\ con' = y
  <2>1. got = con[p].got \o Chunk(cons.r, IF last = "eof" THEN s - 1 ELSE s)
    BY DEF Gets
  <2> HIDE DEF got, left, last
  <2>2. (CASE last \in LineEnds \/ left = 0 -> Done(p, got)
           [] last \notin LineEnds /\ left # 0 /\ p \in killed -> Done(p, <<"error">>)
           [] OTHER -> con' = y)
    BY <1>2, <2>1 DEF left, last
  <2> HIDE DEF y
  <2> QED
    BY <2>2
<1> HIDE DEF y
<1>5. back \in {0, 1}
  BY DEF Backs
<1>6. last \notin LineEnds => back = 0
  BY DEF Backs, LineEnds
<1> HIDE DEF got, back, left
<1>7. \/ Done(p, got)
      \/ left # 0 /\ Done(p, <<"error">>)
      \/ /\ left # 0 /\ last \notin LineEnds
         /\ con' = [con EXCEPT ![p] = [con[p] EXCEPT !.pc = "rchan", !.n = left, !.got = got]]
         /\ back = 0
  BY <1>4, <1>6, <1>8
<1>9. ReadTo(p, s, back)
  BY <1>3, <1>7 DEF ReadTo, got, left
<1> QED
  BY <1>1, <1>5, <1>9

(* A read either ends, or goes on to sleep because it took all there was. *)
LEMMA ReadKeeps == ASSUME Good, NEW p \in Proc, ReadChars(p) PROVE Good'
<1> PICK s \in (cons.r + 1)..cons.w, back \in {0, 1} : ReadTo(p, s, back)
  BY ReadParts
<1> PICK left, got :
         /\ left = con[p].n - (s - cons.r) /\ got = Gets(s, con[p].got)
         /\ Stops(s, con[p].n) /\ cons' = [cons EXCEPT !.r = s - back]
         /\ \/ Done(p, got)
            \/ left # 0 /\ Done(p, <<"error">>)
            \/ /\ left # 0 /\ At(s - 1) \notin LineEnds
               /\ con' = [con EXCEPT ![p] =
                            [con[p] EXCEPT !.pc = "rchan", !.n = left, !.got = got]]
               /\ back = 0
  <2> DEFINE left == con[p].n - (s - cons.r)
             got  == Gets(s, con[p].got)
  <2>1. /\ Stops(s, con[p].n) /\ cons' = [cons EXCEPT !.r = s - back]
        /\ \/ Done(p, got)
           \/ left # 0 /\ Done(p, <<"error">>)
           \/ /\ left # 0 /\ At(s - 1) \notin LineEnds
              /\ con' = [con EXCEPT ![p] =
                           [con[p] EXCEPT !.pc = "rchan", !.n = left, !.got = got]]
              /\ back = 0
    BY DEF ReadTo
  <2> QED
    BY <2>1
<1>1. con[p].pc = "r" /\ cons.r # cons.w /\ UNCHANGED <<uart, killed>>
  BY ReadParts
<1>2. RingOK' /\ cons'.r = s - back /\ cons'.w = cons.w
  BY ReadMoves
<1>3. UartOK' /\ (killed \subseteq Proc)'
  BY <1>1 DEF Good, UartOK
<1>4. got \in Seq(Chars \cup {"none", "error"}) /\ <<"error">> \in Seq(Chars \cup {"none", "error"})
  BY GetsType
<1>5. /\ Calling(con')
      /\ con'[p].pc \in {"done", "rchan"}
      /\ con'[p].pc = "rchan" => s = cons.w /\ back = 0
      /\ \A q \in Proc : q # p => con'[q] = con[q]
  <2>1. CASE Done(p, got) \/ Done(p, <<"error">>)
    <3>1. /\ Calling(con') /\ con'[p].pc = "done"
          /\ \A q \in Proc : q # p => con'[q] = con[q]
      BY <1>4, <2>1, Ends DEF Good
    <3> QED
      BY <3>1
  <2>2. CASE /\ left # 0 /\ At(s - 1) \notin LineEnds
             /\ con' = [con EXCEPT ![p] =
                          [con[p] EXCEPT !.pc = "rchan", !.n = left, !.got = got]]
             /\ back = 0
    <3> DEFINE x == [con[p] EXCEPT !.pc = "rchan", !.n = left, !.got = got]
               G == Seq(Chars \cup {"none", "error"})
    <3>1. con[p] \in CallRecs /\ Fits(con[p])
      BY DEF Good, Calling
    <3>2. cons.r \in Nat /\ cons.w \in Nat /\ con[p].n \in Nat /\ con[p].nn = 0
      BY <1>1, <3>1 DEF Good, RingOK, CallRecs, Fits
    <3>3. s \in Nat /\ s <= cons.r + con[p].n /\ (s = cons.w \/ s = cons.r + con[p].n)
      BY <2>2, <3>2 DEF Stops
    <3>4. left \in Nat /\ s = cons.w
      BY <2>2, <3>2, <3>3
    <3>5. got \in G
      BY <1>4
    <3> HIDE DEF G
    <3>6. con[p] \in [pc : PCs, n : Nat, nn : Nat, got : G, bad : BOOLEAN]
      BY <3>1 DEF CallRecs, G
    <3>7. "rchan" \in PCs
      BY DEF PCs
    <3> HIDE DEF PCs
    <3>8. x \in [pc : PCs, n : Nat, nn : Nat, got : G, bad : BOOLEAN]
      BY <3>4, <3>5, <3>6, <3>7
    <3>9. x.pc = "rchan" /\ x.n = left /\ x.nn = con[p].nn
      BY <3>6
    <3> HIDE DEF x
    <3>10. x \in CallRecs /\ Fits(x)
      BY <3>2, <3>4, <3>8, <3>9 DEF CallRecs, G, Fits
    <3>11. con' = [con EXCEPT ![p] = x]
      BY <2>2 DEF x
    <3>12. Calling(con') /\ con'[p] = x /\ \A q \in Proc : q # p => con'[q] = con[q]
      BY <3>10, <3>11, OneCall DEF Good
    <3> QED
      BY <2>2, <3>4, <3>9, <3>12
  <2> QED
    BY <2>1, <2>2
<1>6. ReadersAsleep'
  <2>1. con'[p].pc = "rchan" => cons'.r = cons'.w
    BY <1>2, <1>5 DEF Good, RingOK
  <2>2. \A q \in Proc : q # p => con'[q].pc # "rchan"
    BY <1>1, <1>5 DEF Good, ReadersAsleep
  <2> QED
    BY <2>1, <2>2 DEF ReadersAsleep
<1>7. WritersAsleep' /\ LockersAsleep'
  BY <1>1, <1>5 DEF Good, WritersAsleep, LockersAsleep
<1> QED
  BY <1>2, <1>3, <1>5, <1>6, <1>7 DEF Good

(* Every step of the console, and of the processes at it, keeps the invariant. *)
LEMMA StepKeeps == ASSUME Good, [ConNext]_console PROVE Good'
<1>1. ASSUME NEW p \in Proc, ConStep(p) PROVE Good'
  BY <1>1, ReadWaitKeeps, ReadKeeps, BadKeeps, TxLockKeeps, TxSendKeeps, TxWaitKeeps,
     TxUnlockKeeps DEF ConStep
<1>2. ASSUME NEW p \in Proc, Kill(p) \/ Gone(p) \/ NewCall(p) PROVE Good'
  BY <1>2, KillKeeps, GoneKeeps, CallsKeep
<1>3. ASSUME NEW c, Key(c) PROVE Good'
  <2>1. CASE Echo(c)
    BY <2>1, StoreKeeps, EraseKeeps, PrintKeeps DEF Echo
  <2>2. CASE Ignore(c)
    BY <2>2, Acknowledged DEF Ignore
  <2> QED
    BY <1>3, <2>1, <2>2 DEF Key
<1>4. CASE TxDone
  BY <1>4, TxDoneKeeps
<1>5. CASE TxIntr
  BY <1>5, Acknowledged DEF TxIntr
<1>6. CASE UNCHANGED console
  <2>1. UNCHANGED <<cons, uart, con, killed>>
    BY <1>6 DEF console
  <2> QED
    BY <2>1 DEF Good, RingOK, UartOK, ReadersAsleep, WritersAsleep, LockersAsleep
<1> QED
  BY <1>1, <1>2, <1>3, <1>4, <1>5, <1>6 DEF ConNext

(* The console starts empty and quiet, with nobody in a call. *)
LEMMA StartGood == ConInit => Good
<1> SUFFICES ASSUME ConInit PROVE Good
  OBVIOUS
<1>1. RingOK
  <2> DEFINE b == [i \in 0..(INPUT_BUF_SIZE - 1) |-> "none"]
  <2>1. b \in Ring
    BY DEF Ring, Contents
  <2>2. cons = [buf |-> b, r |-> 0, w |-> 0, e |-> 0]
    BY DEF ConInit
  <2> HIDE DEF b, Ring
  <2> QED
    BY <2>1, <2>2, Sizing DEF RingOK
<1>2. UartOK /\ killed \subseteq Proc
  BY DEF ConInit, UartOK
<1>3. Calling(con) /\ \A p \in Proc : con[p].pc = "none"
  <2> DEFINE G == Seq(Chars \cup {"none", "error"})
  <2>1. <<>> \in G
    OBVIOUS
  <2> HIDE DEF G
  <2>2. NoCon \in [pc : PCs, n : Nat, nn : Nat, got : G, bad : BOOLEAN]
    BY <2>1 DEF NoCon, PCs
  <2>3. NoCon \in CallRecs
    BY <2>2 DEF CallRecs, G
  <2>4. Fits(NoCon) /\ NoCon.pc = "none"
    BY DEF Fits, NoCon
  <2>5. con = [p \in Proc |-> NoCon]
    BY DEF ConInit
  <2> HIDE DEF CallRecs
  <2> QED
    BY <2>3, <2>4, <2>5 DEF Calling
<1>4. ReadersAsleep /\ WritersAsleep /\ LockersAsleep
  BY <1>3 DEF ReadersAsleep, WritersAsleep, LockersAsleep
<1> QED
  BY <1>1, <1>2, <1>3, <1>4 DEF Good

(* Every reachable state keeps the types, the order r <= w <= e of the ring's *)
(* indices and its size, and everyone who sleeps has a wakeup to come.        *)
THEOREM ConsoleInductive == ConSpec => []IInv
<1>1. ConInit => IInv
  BY StartGood, GoodParts
<1>2. IInv /\ [ConNext]_console => IInv'
  <2>1. IInv' <=> Good'
    BY GoodParts, PTL
  <2> QED
    BY <2>1, GoodParts, StepKeeps
<1> QED
  BY <1>1, <1>2, PTL DEF ConSpec

(* The ring's indices keep their order and their distance. *)
THEOREM ConsoleTyped == ConSpec => []ConTypeOK
<1>1. IInv => ConTypeOK
  BY DEF IInv
<1> QED
  BY <1>1, ConsoleInductive, PTL

(* No reader sleeps while a line is ready, no writer while the transmitter is *)
(* idle and quiet, nobody at a free tx_lock: whatever calls programs make,    *)
(* whoever is killed, and whenever the interrupts come (console.c:97,         *)
(* uart.c:86).                                                               *)
THEOREM SleepersWoken == ConSpec => []NoLostWakeup
<1>1. IInv => NoLostWakeup
  BY DEF IInv
<1> QED
  BY <1>1, ConsoleInductive, PTL

-----------------------------------------------------------------------------
(* The ring is the abstract queue of lines.                                   *)

(* The finished input and the line being typed are parts of the ring. *)
LEMMA Views ==
  /\ Chunk(cons.r, cons.w) = Part(cons.buf, cons.r, cons.w)
  /\ Chunk(cons.w, cons.e) = Part(cons.buf, cons.w, cons.e)
  BY DEF Chunk, At, Part, Cell

(* After a step too. *)
LEMMA ViewsNext ==
  /\ Chunk(cons.r, cons.w)' = Part(cons'.buf, cons'.r, cons'.w)
  /\ Chunk(cons.w, cons.e)' = Part(cons'.buf, cons'.w, cons'.e)
  BY DEF Chunk, At, Part, Cell

(* Nothing between a position and itself. *)
LEMMA PartEmpty == ASSUME NEW b \in Ring, NEW i \in Nat PROVE Part(b, i, i) = <<>>
<1>1. Part(b, i, i) \in Seq(Contents) /\ Len(Part(b, i, i)) = i - i
  BY PartSeq
<1> HIDE DEF Part, Contents
<1> QED
  BY <1>1, EmptySeq

(* Storing a character is typing it: it ends the line where it should, and    *)
(* the whole line then joins the queue.                                       *)
LEMMA StoreTypes == ASSUME Good, NEW c, StoreKey(c) PROVE Lines!Type(c)
<1> PICK b \in Ring, r \in Nat, w \in Nat, e \in Nat :
         /\ cons = [buf |-> b, r |-> r, w |-> w, e |-> e]
         /\ r <= w /\ w <= e /\ e <= r + INPUT_BUF_SIZE
  BY DEF Good, RingOK
<1> PICK n \in Nat : n = e + 1 /\ r <= n /\ w <= n
  OBVIOUS
<1> DEFINE d == [b EXCEPT ![e % INPUT_BUF_SIZE] = c]
           queue == Part(b, r, w)
           edit == Part(b, w, e)
<1>1. /\ c \in Contents /\ e < r + INPUT_BUF_SIZE
      /\ cons'.buf = d /\ cons'.r = r /\ cons'.e = n
      /\ cons'.w = IF Commits(c) THEN n ELSE w
      /\ RingOK'
  BY StoreMoves
<1>2. d \in Ring
  BY <1>1 DEF RingOK
<1>3. Part(d, r, w) = queue
  <2>1. c \in Contents /\ e < r + INPUT_BUF_SIZE
    BY <1>1
  <2>2. Part([b EXCEPT ![e % INPUT_BUF_SIZE] = c], r, w) = Part(b, r, w)
    <3> HIDE DEF Part, Contents, d
    <3> QED
      BY <2>1, PartStore
  <2> QED
    BY <2>2
<1>4. Part(d, w, n) = Append(edit, c)
  <2>1. e < w + INPUT_BUF_SIZE
    BY <1>1, Sizing
  <2>2. Part(d, w, e + 1) = Append(edit, c)
    <3> HIDE DEF Part, Contents
    <3> QED
      BY <1>1, <2>1, PartGrow
  <2> QED
    BY <2>2
<1>5. Part(d, w, n) \in Seq(Contents) /\ Len(Part(d, w, n)) = n - w
  BY <1>2, PartSeq
<1>6. queue \in Seq(Contents) /\ Len(queue) = w - r
  BY PartSeq
<1>7. edit \in Seq(Contents) /\ Len(edit) = e - w
  BY PartSeq
<1>8. Part(d, r, n) = queue \o Append(edit, c)
  <2>1. Part(d, r, w) \o Part(d, w, n) = Part(d, r, n)
    <3> HIDE DEF d, Part, Contents
    <3> QED
      BY <1>2, PartJoin
  <2> QED
    BY <1>3, <1>4, <2>1
<1>9. Part(d, n, n) = <<>>
  <2> HIDE DEF d
  <2> QED
    BY <1>2, PartEmpty
<1>10. Chunk(cons.r, cons.w) = queue /\ Chunk(cons.w, cons.e) = edit
  BY Views
<1> DEFINE w1 == IF Commits(c) THEN n ELSE w
<1>11. Chunk(cons.r, cons.w)' = Part(d, r, w1) /\ Chunk(cons.w, cons.e)' = Part(d, w1, n)
  <2> HIDE DEF d
  <2> QED
    BY <1>1, ViewsNext
<1>12. ~ (Len(queue) + Len(edit) = INPUT_BUF_SIZE)
  <2> HIDE DEF queue, edit, d
  <2>1. Len(queue) + Len(edit) = e - r /\ e - r < INPUT_BUF_SIZE
    BY <1>1, <1>6, <1>7, Sizing
  <2> QED
    BY <2>1, Sizing
<1>13. c \in {"nl", "eof"} \/ Len(queue) + Len(Append(edit, c)) = INPUT_BUF_SIZE <=> Commits(c)
  <2>1. Len(Append(edit, c)) = n - w
    BY <1>4, <1>5
  <2>2. Len(queue) + Len(Append(edit, c)) = cons.e + 1 - cons.r
    <3> HIDE DEF queue, edit
    <3> QED
      BY <1>6, <2>1
  <2> QED
    BY <2>2 DEF Commits, LineEnds
<1> HIDE DEF d, queue, edit, Part
<1>14. CASE Commits(c)
  BY <1>3, <1>4, <1>8, <1>9, <1>10, <1>11, <1>12, <1>13, <1>14
     DEF Lines!Type, Lines!Ends, Lines!Full
<1>15. CASE ~ Commits(c)
  BY <1>3, <1>4, <1>8, <1>9, <1>10, <1>11, <1>12, <1>13, <1>15
     DEF Lines!Type, Lines!Ends, Lines!Full
<1> QED
  BY <1>14, <1>15

(* ^H erases the last character of the line, ^U the line. *)
LEMMA EraseEdits == ASSUME Good, NEW c, EraseKeys(c) PROVE Lines!Erase \/ Lines!KillLine
<1> PICK b \in Ring, r \in Nat, w \in Nat, e \in Nat :
         /\ cons = [buf |-> b, r |-> r, w |-> w, e |-> e]
         /\ r <= w /\ w <= e /\ e <= r + INPUT_BUF_SIZE
  BY DEF Good, RingOK
<1>1. /\ cons'.buf = b /\ cons'.r = r /\ cons'.w = w
      /\ cons'.e = IF c = "kill" THEN w ELSE e - 1
      /\ w < e
  BY EraseMoves
<1>2. Chunk(cons.r, cons.w) = Part(b, r, w) /\ Chunk(cons.w, cons.e) = Part(b, w, e)
  BY Views
<1>3. Chunk(cons.r, cons.w)' = Part(b, r, w) /\ Chunk(cons.w, cons.e)' = Part(b, w, cons'.e)
  BY <1>1, ViewsNext
<1>4. CASE c = "kill"
  <2>1. Part(b, w, cons'.e) = <<>>
    BY <1>1, <1>4, PartEmpty
  <2> HIDE DEF Part
  <2> QED
    BY <1>2, <1>3, <2>1 DEF Lines!KillLine
<1>5. CASE c # "kill"
  <2> PICK m \in Nat : m = e - 1 /\ w <= m /\ m <= e
    BY <1>1
  <2>1. Part(b, w, e) \in Seq(Contents) /\ Len(Part(b, w, e)) = e - w
    BY PartSeq
  <2>2. SubSeq(Part(b, w, e), 1, m - w) = Part(b, w, m)
    BY PartFront
  <2>3. cons'.e = m
    BY <1>1, <1>5
  <2> HIDE DEF Part, Contents
  <2>4. Part(b, w, e) # <<>> /\ Len(Part(b, w, e)) - 1 = m - w
    BY <1>1, <2>1
  <2> QED
    BY <1>2, <1>3, <2>2, <2>3, <2>4 DEF Lines!Erase
<1> QED
  BY <1>4, <1>5

(* A read takes from the first line only, in order. *)
LEMMA Takes ==
  ASSUME Good, NEW r1 \in Nat, cons'.buf = cons.buf, cons'.r = r1, cons'.w = cons.w,
         cons'.e = cons.e, cons.r <= r1, r1 <= cons.w,
         \A i \in cons.r..(r1 - 2) : At(i) \notin LineEnds
  PROVE  \/ \E k \in 1..Len(Chunk(cons.r, cons.w)) : Lines!Take(k)
         \/ UNCHANGED <<Chunk(cons.r, cons.w), Chunk(cons.w, cons.e)>>
<1> PICK b \in Ring, r \in Nat, w \in Nat, e \in Nat :
         /\ cons = [buf |-> b, r |-> r, w |-> w, e |-> e]
         /\ r <= w /\ w <= e /\ e <= r + INPUT_BUF_SIZE
  BY DEF Good, RingOK
<1> DEFINE queue == Part(b, r, w)
<1>1. Chunk(cons.r, cons.w) = queue /\ Chunk(cons.w, cons.e) = Part(b, w, e)
  BY Views
<1>2. Chunk(cons.r, cons.w)' = Part(b, r1, w) /\ Chunk(cons.w, cons.e)' = Part(b, w, e)
  BY ViewsNext
<1>3. CASE r1 = r
  <2> HIDE DEF Part
  <2> QED
    BY <1>1, <1>2, <1>3
<1>4. CASE r1 # r
  <2> PICK k \in Nat : k = r1 - r
    OBVIOUS
  <2>1. /\ Len(queue) = w - r
        /\ \A i \in 1..(w - r) : queue[i] = Cell(b, r + i - 1)
    BY PartSeq
  <2>2. SubSeq(queue, r1 - r + 1, w - r) = Part(b, r1, w)
    BY PartDrop
  <2>3. ASSUME NEW i \in 1..(k - 1) PROVE queue[i] \notin Lines!Ends
    <3>1. i \in 1..(w - r) /\ r + i - 1 \in r..(r1 - 2)
      OBVIOUS
    <3>2. queue[i] = At(r + i - 1)
      BY <2>1, <3>1 DEF At, Cell
    <3> HIDE DEF queue
    <3> QED
      BY <3>1, <3>2 DEF LineEnds, Lines!Ends
  <2> HIDE DEF queue, Part
  <2>4. k <= Len(queue) /\ k \in 1..Len(queue)
    BY <1>4, <2>1
  <2>5. Lines!Take(k)
    BY <1>1, <1>2, <2>1, <2>2, <2>3, <2>4 DEF Lines!Take
  <2> QED
    BY <1>1, <2>4, <2>5
<1> QED
  BY <1>3, <1>4

(* Each step of the console is a step of the queue of lines, or none. *)
LEMMA StepLines ==
  ASSUME Good, [ConNext]_console
  PROVE  [Lines!Next]_<<Chunk(cons.r, cons.w), Chunk(cons.w, cons.e)>>
<1> DEFINE Same == UNCHANGED <<Chunk(cons.r, cons.w), Chunk(cons.w, cons.e)>>
<1>1. CASE UNCHANGED cons
  <2>1. Same
    BY <1>1 DEF Chunk, At
  <2> QED
    BY <2>1
<1>2. ASSUME NEW p \in Proc, ReadChars(p)
      PROVE  Lines!Next \/ Same
  <2> PICK s \in (cons.r + 1)..cons.w, back \in {0, 1} : ReadTo(p, s, back)
    BY <1>2, ReadParts
  <2>1. Stops(s, con[p].n) /\ cons' = [cons EXCEPT !.r = s - back]
    BY DEF ReadTo
  <2>2. /\ cons'.buf = cons.buf /\ cons'.r = s - back /\ cons'.w = cons.w /\ cons'.e = cons.e
        /\ cons.r <= cons'.r /\ cons'.r <= cons.w
        /\ \A i \in cons.r..(s - 2) : At(i) \notin LineEnds
        /\ RingOK'
    BY <2>1, ReadMoves
  <2>3. s \in Int /\ cons.r \in Nat /\ cons'.r \in Nat
    BY <2>2 DEF Good, RingOK
  <2>4. \A i \in cons.r..(cons'.r - 2) : At(i) \notin LineEnds
    BY <2>2, <2>3
  <2>5. \/ \E k \in 1..Len(Chunk(cons.r, cons.w)) : Lines!Take(k)
        \/ Same
    BY <2>2, <2>3, <2>4, Takes
  <2> QED
    BY <2>5 DEF Lines!Next
<1>3. ASSUME NEW p \in Proc, ReadBad(p)
      PROVE  Lines!Next \/ Same
  <2>1. /\ cons'.buf = cons.buf /\ cons'.r = cons.r + 1 /\ cons'.w = cons.w /\ cons'.e = cons.e
        /\ cons.r < cons.w
    BY <1>3, BadMoves
  <2>2. cons.r \in Nat /\ cons.w \in Nat
    BY DEF Good, RingOK
  <2> PICK r1 \in Nat : r1 = cons.r + 1 /\ cons.r <= r1 /\ r1 <= cons.w
    BY <2>1, <2>2
  <2>3. \A i \in cons.r..(r1 - 2) : At(i) \notin LineEnds
    BY <2>2
  <2>4. \/ \E k \in 1..Len(Chunk(cons.r, cons.w)) : Lines!Take(k)
        \/ Same
    BY <2>1, <2>3, Takes
  <2> QED
    BY <2>4 DEF Lines!Next
<1>4. ASSUME NEW c, Key(c), cons' # cons
      PROVE  Lines!Next
  <2>1. StoreKey(c) \/ EraseKeys(c)
    BY <1>4 DEF Key, Echo, Ignore, PrintProcs
  <2>2. CASE StoreKey(c)
    BY <2>2, StoreTypes DEF Lines!Next, StoreKey
  <2>3. CASE EraseKeys(c)
    BY <2>3, EraseEdits DEF Lines!Next
  <2> QED
    BY <2>1, <2>2, <2>3
<1>5. CASE \E p \in Proc : ConStep(p) \/ Kill(p) \/ Gone(p) \/ (Idle(p) /\ NewCall(p))
  <2> PICK p \in Proc : ConStep(p) \/ Kill(p) \/ Gone(p) \/ (Idle(p) /\ NewCall(p))
    BY <1>5
  <2>1. ReadChars(p) \/ ReadBad(p) \/ UNCHANGED cons
    BY DEF ConStep, Kill, Gone, NewCall, ConsoleRead, ConsoleWrite, ReadWait, TxLock, TxSend,
           TxWait, TxUnlock
  <2> QED
    BY <1>1, <1>2, <1>3, <2>1
<1>6. CASE \E c \in Chars \cup {"del", "kill", "ps"} : Key(c)
  BY <1>1, <1>4, <1>6
<1>7. CASE TxDone \/ TxIntr \/ UNCHANGED console
  BY <1>1, <1>7 DEF TxDone, TxIntr, console
<1> QED
  BY <1>5, <1>6, <1>7 DEF ConNext

(* The ring is a queue of whole lines and the line being typed, in order and  *)
(* without a loss, and a read returns at most one line (console.c:79-190).    *)
THEOREM ConsoleIsLineQueue == ConSpec => LinesWhole
<1>1. ConInit => Lines!Init
  <2> SUFFICES ASSUME ConInit PROVE Lines!Init
    OBVIOUS
  <2>1. RingOK /\ cons.r = 0 /\ cons.w = 0 /\ cons.e = 0
    BY StartGood DEF Good, ConInit
  <2>2. Part(cons.buf, 0, 0) = <<>>
    BY <2>1, PartEmpty DEF RingOK
  <2> QED
    BY <2>1, <2>2, Views DEF Lines!Init
<1>2. IInv /\ [ConNext]_console => [Lines!Next]_<<Chunk(cons.r, cons.w), Chunk(cons.w, cons.e)>>
  BY GoodParts, StepLines
<1> QED
  BY <1>1, <1>2, ConsoleInductive, PTL DEF ConSpec, LinesWhole, Lines!Spec
=============================================================================
