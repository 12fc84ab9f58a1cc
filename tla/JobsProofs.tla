----------------------------- MODULE JobsProofs -----------------------------
(* Theorems about Jobs, for every number of children, every set of lines    *)
(* typed and every queue of messages.                                       *)
EXTENDS Jobs, FiniteSetTheorems, FunctionTheorems, SequenceTheorems, TLAPS

-----------------------------------------------------------------------------
(* Lines and their stages.                                                 *)

StageSet(segs) == UNION {{i} \X DOMAIN segs[i].stages : i \in DOMAIN segs}

(* A stage of a line is a place in one of its pipelines. *)
LEMMA StagePlaces ==
  ASSUME NEW segs \in Seq(SegmentType)
  PROVE  /\ \A i \in 1..Len(segs) : /\ segs[i].stages \in Seq(StageType)
                                    /\ Len(segs[i].stages) \in Nat \ {0}
                                    /\ DOMAIN segs[i].stages = 1..Len(segs[i].stages)
         /\ \A x : x \in StageSet(segs) <=>
              \E i \in 1..Len(segs) : \E j \in 1..Len(segs[i].stages) : x = <<i, j>>
<1>1. DOMAIN segs = 1..Len(segs)
  OBVIOUS
<1>2. ASSUME NEW i \in 1..Len(segs)
      PROVE  /\ segs[i].stages \in Seq(StageType)
             /\ Len(segs[i].stages) \in Nat \ {0}
             /\ DOMAIN segs[i].stages = 1..Len(segs[i].stages)
  <2> DEFINE s == segs[i].stages
  <2>1. segs[i] \in SegmentType
    BY <1>1, ElementOfSeq
  <2>2. s \in Seq(StageType) /\ s # <<>>
    BY <2>1 DEF SegmentType
  <2> HIDE DEF s
  <2>3. Len(s) \in Nat /\ DOMAIN s = 1..Len(s) /\ Len(s) # 0
    BY <2>2, EmptySeq, LenProperties
  <2> QED
    BY <2>2, <2>3 DEF s
<1>3. ASSUME NEW x
      PROVE  x \in StageSet(segs) <=>
               \E i \in 1..Len(segs) : \E j \in 1..Len(segs[i].stages) : x = <<i, j>>
  BY <1>1, <1>2 DEF StageSet
<1> QED
  BY <1>2, <1>3

(* The stages of a line are those of its first pipeline and of the rest. *)
LEMMA StagesOfRest ==
  ASSUME NEW segs \in Seq(SegmentType)
  PROVE  /\ Stages(segs) \in Nat
         /\ segs # <<>> => /\ Len(Head(segs).stages) \in Nat \ {0}
                           /\ Tail(segs) \in Seq(SegmentType)
                           /\ Stages(segs) = Len(Head(segs).stages) + Stages(Tail(segs))
<1>1. ASSUME NEW l \in Seq(SegmentType) PROVE IsFiniteSet(StageSet(l))
  <2> DEFINE U == {{i} \X DOMAIN l[i].stages : i \in 1..Len(l)}
  <2>1. ASSUME NEW i \in 1..Len(l) PROVE IsFiniteSet({i} \X DOMAIN l[i].stages)
    <3> DEFINE m == Len(l[i].stages)
    <3>0. m \in Nat
      BY StagePlaces
    <3>1. IsFiniteSet(1..m)
      <4> HIDE DEF m
      <4> QED
        BY <3>0, FS_Interval
    <3>2. IsFiniteSet({i})
      BY FS_Singleton
    <3> QED
      BY <3>1, <3>2, StagePlaces, FS_Product
  <2>2. IsFiniteSet(U)
    <3>1. IsFiniteSet(1..Len(l))
      BY FS_Interval
    <3> DEFINE f == [i \in 1..Len(l) |-> {i} \X DOMAIN l[i].stages]
    <3>2. f \in Surjection(1..Len(l), U)
      BY DEF Surjection
    <3> QED
      BY <3>1, <3>2, FS_Surjection
  <2>3. StageSet(l) = UNION U
    <3>1. DOMAIN l = 1..Len(l)
      OBVIOUS
    <3> QED
      BY <3>1 DEF StageSet
  <2>4. \A T \in U : IsFiniteSet(T)
    BY <2>1
  <2> HIDE DEF U
  <2> QED
    BY <2>2, <2>3, <2>4, FS_UNION
<1>2. ASSUME NEW l \in Seq(SegmentType)
      PROVE  Stages(l) = Cardinality(StageSet(l)) /\ Stages(l) \in Nat
  BY <1>1, FS_CardinalityType DEF Stages, StageSet
<1>3. ASSUME segs # <<>>
      PROVE  /\ Len(Head(segs).stages) \in Nat \ {0}
             /\ Tail(segs) \in Seq(SegmentType)
             /\ Stages(segs) = Len(Head(segs).stages) + Stages(Tail(segs))
  <2> DEFINE r == Tail(segs)
             n == Len(Head(segs).stages)
             A == {1} \X (1..n)
             B == StageSet(segs) \ A
             f == [x \in StageSet(r) |-> <<x[1] + 1, x[2]>>]
  <2>1. /\ r \in Seq(SegmentType) /\ Len(segs) \in Nat \ {0} /\ Len(r) = Len(segs) - 1
        /\ \A i \in 1..Len(r) : r[i] = segs[i + 1]
        /\ Head(segs) = segs[1] /\ 1 \in 1..Len(segs)
    BY <1>3, HeadTailProperties, EmptySeq
  <2>2. n \in Nat \ {0}
    BY <2>1, StagePlaces
  <2>3. A \subseteq StageSet(segs) /\ IsFiniteSet(A) /\ Cardinality(A) = n
    <3>1. IsFiniteSet(1..n) /\ Cardinality(1..n) = n
      <4> HIDE DEF n
      <4>1. n \in Int /\ ~ (1 > n) /\ n - 1 + 1 = n
        BY <2>2
      <4> QED
        BY <4>1, FS_Interval
    <3>2. IsFiniteSet({1}) /\ Cardinality({1}) = 1
      BY FS_Singleton
    <3>3. IsFiniteSet(A) /\ Cardinality(A) = 1 * n
      <4> DEFINE One == {1}  N == 1..n
      <4>1. IsFiniteSet(One) /\ IsFiniteSet(N) /\ Cardinality(One) = 1 /\ Cardinality(N) = n
        BY <3>1, <3>2
      <4> HIDE DEF One, N
      <4>2. IsFiniteSet(One \X N) /\ Cardinality(One \X N) = Cardinality(One) * Cardinality(N)
        BY <4>1, FS_Product
      <4> QED
        BY <4>1, <4>2 DEF One, N
    <3>4. A \subseteq StageSet(segs)
      <4>1. SUFFICES ASSUME NEW j \in 1..n PROVE <<1, j>> \in StageSet(segs)
        OBVIOUS
      <4> QED
        BY <2>1, StagePlaces
    <3> QED
      BY <2>2, <3>3, <3>4
  <2>a. \A x : x \in StageSet(r) =>
                \E i \in 1..Len(r) : \E j \in 1..Len(r[i].stages) : x = <<i, j>>
    <3> HIDE DEF r
    <3> QED
      BY <2>1, StagePlaces
  <2>4. f \in Bijection(StageSet(r), B)
    <3>1. ASSUME NEW x \in StageSet(r) PROVE f[x] \in B
      <4>1. PICK i \in 1..Len(r) : \E j \in 1..Len(r[i].stages) : x = <<i, j>>
        BY <2>a
      <4>10. PICK j \in 1..Len(r[i].stages) : x = <<i, j>>
        BY <4>1
      <4>2. f[x] = <<i + 1, j>>
        BY <4>10
      <4>3. i + 1 \in 1..Len(segs) /\ j \in 1..Len(segs[i + 1].stages) /\ i + 1 # 1
        BY <2>1, <4>10
      <4> QED
        BY <4>2, <4>3, StagePlaces
    <3>2. ASSUME NEW x \in StageSet(r), NEW y \in StageSet(r), f[x] = f[y] PROVE x = y
      <4>1. PICK i \in 1..Len(r) : \E j \in 1..Len(r[i].stages) : x = <<i, j>>
        BY <2>a
      <4>10. PICK j \in 1..Len(r[i].stages) : x = <<i, j>>
        BY <4>1
      <4>2. PICK k \in 1..Len(r) : \E m \in 1..Len(r[k].stages) : y = <<k, m>>
        BY <2>a
      <4>20. PICK m \in 1..Len(r[k].stages) : y = <<k, m>>
        BY <4>2
      <4>3. <<i + 1, j>> = <<k + 1, m>>
        BY <3>2, <4>10, <4>20
      <4> QED
        BY <4>10, <4>20, <4>3
    <3>3. ASSUME NEW y \in B PROVE \E x \in StageSet(r) : f[x] = y
      <4>1. PICK k \in 1..Len(segs) : \E m \in 1..Len(segs[k].stages) : y = <<k, m>>
        BY StagePlaces
      <4>10. PICK m \in 1..Len(segs[k].stages) : y = <<k, m>>
        BY <4>1
      <4>2. k # 1
        BY <2>1, <4>10
      <4>3. k - 1 \in 1..Len(r) /\ r[k - 1] = segs[k]
        BY <2>1, <4>2
      <4>4. <<k - 1, m>> \in StageSet(r)
        BY <2>1, <4>10, <4>3, StagePlaces
      <4>5. f[<<k - 1, m>>] = y
        BY <4>10, <4>4
      <4> QED
        BY <4>4, <4>5
    <3>4. f \in [StageSet(r) -> B]
      BY <3>1
    <3> HIDE DEF f, B
    <3> QED
      BY <3>2, <3>3, <3>4, Fun_IsBij
  <2>5. IsFiniteSet(StageSet(r)) /\ IsFiniteSet(StageSet(segs))
    BY <1>1, <2>1
  <2>6. Cardinality(B) = Cardinality(StageSet(r))
    BY <2>4, <2>5, FS_Bijection DEF ExistsBijection
  <2>7. StageSet(segs) \cap A = A
    BY <2>3
  <2>8. Cardinality(B) = Cardinality(StageSet(segs)) - n
    <3> HIDE DEF A, n
    <3>1. Cardinality(StageSet(segs) \ A) = Cardinality(StageSet(segs)) - Cardinality(StageSet(segs) \cap A)
      BY <2>5, FS_Difference
    <3> QED
      BY <2>3, <2>7, <3>1
  <2>9. Stages(segs) = Cardinality(StageSet(segs)) /\ Stages(r) = Cardinality(StageSet(r))
        /\ Stages(segs) \in Nat /\ Stages(r) \in Nat
    BY <1>2, <2>1
  <2> QED
    BY <2>1, <2>2, <2>6, <2>8, <2>9
<1> QED
  BY <1>2, <1>3

-----------------------------------------------------------------------------
(* The inductive invariant.                                                *)

Used    == {p \in Pids : proc[p].state # "none"}
Gone(p) == proc[p].state = "gone"

Foreground == {"terminal", "wait", "done"}     \* run_foreground() after register_job()
Resuming   == {"rcheck", "rwait", "rdone"}     \* resume, once it has the terminal
Tracing    == {"trace_wait", "trace_go"}       \* snoop
InForeground(n) == main.job = n /\ main.pc \in Foreground
InResume(n)     == main.job = n /\ main.pc \in Resuming
Suspended       == main.pc = "done" /\ main.stopped

Pcs      == {"prompt", "exited", "next", "fork", "rterminal"}
              \cup Foreground \cup Resuming \cup Tracing
ProcType == [state : {"none", "run", "stopped", "zombie", "gone"},
             group : Pids \cup {Shell}, gated : BOOLEAN, news : BOOLEAN]
JobType  == [pgid : Pids, pids : SUBSET Pids, state : {"Running", "Stopped"},
             background : BOOLEAN, active : BOOLEAN, resumed : {"never", "fg", "timed"}]
Segs     == Seq(SegmentType)
PidSeqs  == Seq(Pids)
MainType == [pc : Pcs, segments : Segs, pids : PidSeqs, job : Nat, left : 0..MaxPids,
             stopped : BOOLEAN, timer : {"off", "set", "fired"},
             how : {"none", "fg", "timed"}]
SaidType == [times : 0..1, lost : BOOLEAN]

Shapes ==
  /\ proc \in [Pids -> ProcType]
  /\ sigchld \in BOOLEAN /\ fg_running \in BOOLEAN /\ eof_warned \in BOOLEAN
  /\ tty \in Pids \cup {Shell}
  /\ jobs \in Seq(JobType)
  /\ pending \subseteq Pids /\ Cardinality(pending) <= MaxPending
  /\ main \in MainType
  /\ lines \in 0..MaxLines
  /\ said \in [Pids -> SaidType]

(* Children get their numbers in turn, and there are numbers for what is     *)
(* left of the line.                                                         *)
InTurn == NewPid \in 1..(MaxPids + 1) /\ Used = 1..(NewPid - 1)
Forked == IF main.pc \in {"fork"} \cup Foreground \cup Tracing THEN Len(main.pids) ELSE 0
Room   == main.pc \notin {"prompt", "exited"} =>
            NewPid + Stages(main.segments) <= MaxPids + 1 + Forked

(* Where the shell is, its locals make sense. *)
Locals ==
  /\ main.pc \notin {"prompt", "exited", "next"} => main.segments # <<>>
  /\ main.pc \in {"fork"} \cup Foreground \cup Tracing =>
       /\ Len(main.pids) <= Len(Segment.stages) /\ Len(main.pids) < NewPid
       /\ \A i \in 1..Len(main.pids) : main.pids[i] < NewPid
       /\ main.pc # "fork" => Len(main.pids) > 0
  /\ main.pc \in {"wait", "rwait"} => main.left > 0
  /\ main.pc = "wait" => ~ main.stopped
  /\ main.pc \in Foreground \cup Resuming \cup {"rterminal"} => main.job \in DOMAIN jobs

(* A child not forked yet is in no group; the one snoop traces is in the     *)
(* group of the shell.                                                       *)
Groups ==
  /\ \A p \in Pids : proc[p].state = "none" => proc[p].group = Shell
  /\ main.pc \in Tracing =>
       /\ proc[main.pids[1]].group = Shell
       /\ main.pc = "trace_go" => proc[main.pids[1]].state = "stopped"

(* The pipeline being forked: its first child leads it, and every stage has  *)
(* joined, unless the first was reaped before; the gate keeps it.            *)
Pipeline ==
  main.pc = "fork" /\ main.pids # <<>> =>
    LET g == main.pids[1] IN
    /\ proc[g].group = g
    /\ \A n \in DOMAIN jobs : jobs[n].pgid # g
    /\ \A i \in 1..Len(main.pids) : proc[main.pids[i]].group = g \/ Gone(g)
    /\ Segment.term = "&" => Alive(g) /\ proc[g].gated

(* The table: each job has a leader of its own. *)
Leaders ==
  /\ \A n \in DOMAIN jobs : /\ jobs[n].pgid < NewPid
                            /\ proc[jobs[n].pgid].group = jobs[n].pgid
                            /\ jobs[n].active => jobs[n].pids # {}
  /\ \A n, m \in DOMAIN jobs : jobs[n].pgid = jobs[m].pgid => n = m

(* The job the shell waits for. *)
Awaited ==
  /\ main.pc \in Foreground =>
       ~ jobs[main.job].background /\ jobs[main.job].resumed = "never"
  /\ main.pc \in Resuming \cup {"rterminal"} =>
       /\ jobs[main.job].resumed # "never"
       /\ main.how = "timed" => jobs[main.job].resumed = "timed"
       /\ main.pc \in Resuming /\ main.timer # "off" => jobs[main.job].resumed = "timed"

(* A zombie is signalled; the terminal, the flag and the queue belong to the *)
(* foreground.                                                               *)
Signals ==
  /\ Zombies # {} => sigchld
  /\ tty # Shell => main.pc \in {"wait", "done"} \cup Resuming
  /\ fg_running => main.pc \in {"fork"} \cup Foreground
  /\ fg_running /\ main.pc = "fork" => Segment.term # "&"
  /\ pending # {} => fg_running

(* An active job of one process lists just that process, or the shell is     *)
(* about to find that the handler took it before a later stage could join.   *)
OnlyMember ==
  \A n \in DOMAIN jobs : OneProcess(n) /\ jobs[n].active =>
    \/ jobs[n].pids = {jobs[n].pgid}
    \/ Gone(jobs[n].pgid) /\ InForeground(n) /\ ~ Suspended

PlainJob(n) == OneProcess(n) /\ jobs[n].resumed # "timed"

AliveListed ==
  \A n \in DOMAIN jobs : PlainJob(n) /\ Alive(jobs[n].pgid) =>
    jobs[n].active /\ (InForeground(n) /\ main.pc = "done" => main.stopped)

ListedAlive ==
  \A n \in DOMAIN jobs : PlainJob(n) /\ jobs[n].active /\ Gone(jobs[n].pgid) =>
    \/ InForeground(n) /\ ~ Suspended
    \/ InResume(n) /\ main.left = 0

LeftCounts ==
  \A n \in DOMAIN jobs : PlainJob(n) /\ jobs[n].active /\ InResume(n) =>
    main.left <= 1 /\ (main.left = 0 => Gone(jobs[n].pgid))

(* The first process of a background job stays listed until it is reaped,    *)
(* and is then announced, queued or lost; nothing is said twice.             *)
Unresumed(n) == jobs[n].background /\ jobs[n].resumed = "never"

StillListed ==
  \A n \in DOMAIN jobs : Unresumed(n) /\ ~ Gone(jobs[n].pgid) =>
    jobs[n].active /\ jobs[n].pgid \in jobs[n].pids

Told(p) == p \in pending \/ said[p].lost \/ said[p].times = 1

ThenTold ==
  \A n \in DOMAIN jobs : Unresumed(n) /\ Gone(jobs[n].pgid) => Told(jobs[n].pgid)

ToldOnce ==
  \A p \in Pids :
    /\ Told(p) => Gone(p)
    /\ p \in pending \/ said[p].lost => said[p].times = 0
    /\ ~ (p \in pending /\ said[p].lost)


IInv == /\ Shapes /\ InTurn /\ Room /\ Locals /\ Groups /\ Pipeline /\ Leaders
        /\ Awaited /\ Signals
        /\ OnlyMember /\ AliveListed /\ ListedAlive /\ LeftCounts
        /\ StillListed /\ ThenTold /\ ToldOnce

-----------------------------------------------------------------------------
(* Lemmas.                                                                 *)

(* Children get their numbers in turn (NewPid). *)
LEMMA Counted ==
  ASSUME NEW k \in 0..MaxPids
  PROVE  Used = 1..k => NewPid = k + 1
<1>1. MaxPids \in Nat
  BY ConstantsAssumption
<1>2. k \in Int /\ 1 \in Int /\ Cardinality(1..k) = k
  BY <1>1, FS_Interval
<1>3. NewPid = 1 + Cardinality(Used)
  BY DEF NewPid, Used
<1> QED
  BY <1>1, <1>2, <1>3

(* A child is forked exactly when its number is less than the next one. *)
LEMMA InTurnUsed ==
  ASSUME InTurn
  PROVE  /\ NewPid \in 1..(MaxPids + 1)
         /\ \A p \in Pids : proc[p].state # "none" <=> p < NewPid
<1>1. MaxPids \in Nat
  BY ConstantsAssumption
<1> QED
  BY <1>1 DEF InTurn, Used, Pids

(* A step that forks nobody leaves the numbers as they are. *)
LEMMA SameInTurn ==
  ASSUME InTurn, \A p \in Pids : proc'[p].state # "none" <=> proc[p].state # "none"
  PROVE  InTurn' /\ NewPid' = NewPid
<1>1. Used' = Used
  BY DEF Used
<1>2. NewPid' = NewPid
  BY <1>1 DEF NewPid, Used
<1> QED
  BY <1>1, <1>2 DEF InTurn

(* What the fields of the locals of the shell are. *)
LEMMA MainFields ==
  ASSUME Shapes
  PROVE  /\ main.pc \in Pcs /\ main.segments \in Segs /\ main.pids \in PidSeqs
         /\ main.job \in Nat /\ main.left \in 0..MaxPids /\ main.stopped \in BOOLEAN
         /\ main.timer \in {"off", "set", "fired"} /\ main.how \in {"none", "fg", "timed"}
<1> HIDE DEF Pcs, Segs, PidSeqs
<1> QED
  BY DEF Shapes, MainType

(* The first segment of the line goes (Drop). *)
LEMMA DropFields ==
  ASSUME Shapes, NEW pc \in Pcs, main.segments # <<>>, main' = Drop(pc)
  PROVE  /\ main' \in MainType
         /\ main'.pc = pc /\ main'.segments = Tail(main.segments)
         /\ main'.pids = main.pids /\ main'.job = main.job /\ main'.left = main.left
         /\ main'.stopped = main.stopped /\ main'.timer = main.timer /\ main'.how = main.how
         /\ Stages(main.segments) = Len(Segment.stages) + Stages(Tail(main.segments))
         /\ Stages(Tail(main.segments)) \in Nat /\ Len(Segment.stages) \in Nat \ {0}
<1>1. main.segments \in Seq(SegmentType)
  BY MainFields DEF Segs
<1>2. Tail(main.segments) \in Segs
  BY <1>1, StagesOfRest DEF Segs
<1>3. /\ main' \in MainType
      /\ main'.pc = pc /\ main'.segments = Tail(main.segments)
      /\ main'.pids = main.pids /\ main'.job = main.job /\ main'.left = main.left
      /\ main'.stopped = main.stopped /\ main'.timer = main.timer /\ main'.how = main.how
  <2> HIDE DEF Pcs, Segs, PidSeqs
  <2> QED
    BY <1>2 DEF Shapes, MainType, Drop
<1> QED
  BY <1>1, <1>3, <1>2, StagesOfRest DEF Segment, Segs

(* The shell goes on somewhere else (Goto). *)
LEMMA GotoFields ==
  ASSUME Shapes, NEW pc \in Pcs, Goto(pc)
  PROVE  /\ main' \in MainType
         /\ main'.pc = pc /\ main'.segments = main.segments
         /\ main'.pids = main.pids /\ main'.job = main.job /\ main'.left = main.left
         /\ main'.stopped = main.stopped /\ main'.timer = main.timer /\ main'.how = main.how
<1> HIDE DEF Pcs, Segs, PidSeqs
<1> QED
  BY DEF Shapes, MainType, Goto

-----------------------------------------------------------------------------
(* Steps that move processes about but take the status of none, and leave  *)
(* the job table but for the printed state of a job.                       *)

Moved(p) ==
  /\ proc'[p].group = proc[p].group
  /\ proc'[p].state = "none" <=> proc[p].state = "none"
  /\ proc'[p].state = "gone" <=> proc[p].state = "gone"
  /\ proc'[p].state \in {"run", "stopped"} => proc[p].state \in {"run", "stopped"}

SameJob(n) ==
  /\ jobs'[n].pgid = jobs[n].pgid /\ jobs'[n].pids = jobs[n].pids
  /\ jobs'[n].active = jobs[n].active /\ jobs'[n].background = jobs[n].background
  /\ jobs'[n].resumed = jobs[n].resumed

SameTable == DOMAIN jobs' = DOMAIN jobs /\ \A n \in DOMAIN jobs : SameJob(n)

(* Job numbers and what they stand for. *)
LEMMA JobFields ==
  ASSUME Shapes, NEW n \in DOMAIN jobs
  PROVE  /\ jobs[n].pgid \in Pids /\ jobs[n].pids \subseteq Pids
         /\ jobs[n].background \in BOOLEAN /\ jobs[n].active \in BOOLEAN
         /\ jobs[n].resumed \in {"never", "fg", "timed"}
         /\ jobs[n].state \in {"Running", "Stopped"}
<1>1. jobs \in Seq(JobType)
  BY DEF Shapes
<1>2. jobs[n] \in JobType
  BY <1>1, ElementOfSeq, LenProperties
<1> QED
  BY <1>2 DEF JobType

(* The kernel's record of a child. *)
LEMMA ProcFields ==
  ASSUME Shapes, NEW p \in Pids
  PROVE  /\ proc[p].state \in {"none", "run", "stopped", "zombie", "gone"}
         /\ proc[p].group \in Pids \cup {Shell}
         /\ proc[p].gated \in BOOLEAN /\ proc[p].news \in BOOLEAN
         /\ said[p].times \in 0..1 /\ said[p].lost \in BOOLEAN
  BY DEF Shapes, ProcType, SaidType

(* The groups of a step that moves no process to another. *)
LEMMA SameGroups ==
  ASSUME \A p \in Pids : proc'[p].group = proc[p].group, NEW g
  PROVE  Group(g)' = Group(g)
  BY DEF Group

(* Such a step keeps what is said about the table but not about the shell.  *)
LEMMA MovedKeeps ==
  ASSUME IInv, \A p \in Pids : Moved(p), SameTable, UNCHANGED <<pending, said>>
  PROVE  /\ InTurn' /\ NewPid' = NewPid
         /\ Leaders' /\ StillListed' /\ ThenTold' /\ ToldOnce'
         /\ \A n \in DOMAIN jobs : /\ OneProcess(n)' <=> OneProcess(n)
                                   /\ PlainJob(n)' <=> PlainJob(n)
<1>1. InTurn' /\ NewPid' = NewPid
  BY SameInTurn DEF IInv, Moved
<1>2. \A n \in DOMAIN jobs : OneProcess(n)' <=> OneProcess(n)
  BY DEF SameTable, SameJob, OneProcess, Group, Moved
<1>3. \A n \in DOMAIN jobs : PlainJob(n)' <=> PlainJob(n)
  BY <1>2 DEF SameTable, SameJob, PlainJob
<1>4. \A n \in DOMAIN jobs : jobs[n].pgid \in Pids
  BY JobFields DEF IInv
<1>5. Leaders'
  BY <1>1, <1>4 DEF IInv, Leaders, SameTable, SameJob, Moved
<1>6. StillListed'
  BY <1>4 DEF IInv, StillListed, Unresumed, SameTable, SameJob, Moved, Gone
<1>7. ThenTold'
  BY <1>4 DEF IInv, ThenTold, Unresumed, SameTable, SameJob, Moved, Gone, Told
<1>8. ToldOnce'
  BY <1>4 DEF IInv, ToldOnce, Moved, Gone, Told
<1> QED
  BY <1>1, <1>2, <1>3, <1>5, <1>6, <1>7, <1>8

(* Where the shell waits for no job. *)
Elsewhere == main.pc \in {"prompt", "exited", "next", "fork", "rterminal"} \cup Tracing

(* And so do the statements about the job the shell waits for, when it      *)
(* begins and ends elsewhere, or stays.                                     *)
LEMMA MovedTable ==
  ASSUME IInv, \A p \in Pids : Moved(p), SameTable, UNCHANGED <<pending, said>>,
         \/ UNCHANGED main
         \/ Elsewhere /\ Elsewhere'
  PROVE  OnlyMember' /\ AliveListed' /\ ListedAlive' /\ LeftCounts'
<1>1. \A n \in DOMAIN jobs : /\ OneProcess(n)' <=> OneProcess(n)
                             /\ PlainJob(n)' <=> PlainJob(n)
  BY MovedKeeps
<1>2. \A n \in DOMAIN jobs : jobs[n].pgid \in Pids
  BY JobFields DEF IInv
<1>3. \A n : /\ InForeground(n) => InForeground(n)'
             /\ InForeground(n)' => InForeground(n)
             /\ InResume(n) => InResume(n)'
             /\ InResume(n)' => InResume(n)
             /\ InForeground(n) \/ InResume(n) => UNCHANGED main
  BY DEF InForeground, InResume, Elsewhere, Foreground, Resuming, Tracing
<1>4. OnlyMember'
  BY <1>1, <1>2, <1>3 DEF IInv, OnlyMember, SameTable, SameJob, Moved, Gone, Suspended
<1>5. AliveListed'
  BY <1>1, <1>2, <1>3 DEF IInv, AliveListed, SameTable, SameJob, Moved, Alive
<1>6. ListedAlive'
  BY <1>1, <1>2, <1>3 DEF IInv, ListedAlive, SameTable, SameJob, Moved, Gone, Suspended
<1>7. LeftCounts'
  BY <1>1, <1>2, <1>3 DEF IInv, LeftCounts, SameTable, SameJob, Moved, Gone
<1> QED
  BY <1>4, <1>5, <1>6, <1>7

-----------------------------------------------------------------------------
(* Between two commands.                                                   *)

(* At the prompt, and between two segments of a line, the terminal is the    *)
(* shell's and nothing is queued.                                            *)
LEMMA AtRest ==
  ASSUME IInv, main.pc \in {"prompt", "next"}
  PROVE  Elsewhere /\ tty = Shell /\ fg_running = FALSE /\ pending = {}
<1>1. fg_running \in BOOLEAN
  BY DEF IInv, Shapes
<1> QED
  BY <1>1 DEF IInv, Signals, Elsewhere, Foreground, Resuming

(* The segment at hand has a stage. *)
LEMMA SegmentStages ==
  ASSUME NEW m \in MainType, m.segments # <<>>
  PROVE  Len(Head(m.segments).stages) \in Nat \ {0}
<1>1. m.segments \in Seq(SegmentType)
  BY DEF MainType, Segs
<1> QED
  BY <1>1, StagesOfRest

(* A step of the shell alone, that waits for nothing and leads to the next   *)
(* segment or to the fork of one.                                            *)
LEMMA RestKeeps ==
  ASSUME IInv, UNCHANGED <<proc, jobs, pending, said, tty, sigchld>>, Shapes', Room',
         main.pc \in {"prompt", "next"},
         \/ main'.pc \in {"prompt", "exited", "next"}
         \/ main'.pc = "fork" /\ main'.pids = <<>> /\ main'.segments # <<>>,
         fg_running' => main'.pc = "fork" /\ Segment'.term # "&"
  PROVE  IInv'
<1>1. \A p \in Pids : Moved(p)
  BY DEF Moved
<1>2. SameTable
  BY DEF SameTable, SameJob
<1>3. InTurn' /\ NewPid' = NewPid /\ Leaders' /\ StillListed' /\ ThenTold' /\ ToldOnce'
  BY <1>1, <1>2, MovedKeeps
<1>4. Elsewhere /\ Elsewhere'
  BY DEF Elsewhere
<1>5. OnlyMember' /\ AliveListed' /\ ListedAlive' /\ LeftCounts'
  BY <1>1, <1>2, <1>4, MovedTable
<1>6. Locals'
  <2>1. main'.pc \notin {"prompt", "exited", "next"} => main'.segments # <<>>
    OBVIOUS
  <2>2. NewPid' >= 1
    BY <1>3, InTurnUsed DEF IInv
  <2>3. main' \in MainType
    BY DEF Shapes
  <2>4. main'.segments # <<>> => Len(Segment'.stages) \in Nat
    BY <2>3, SegmentStages DEF Segment
  <2>5. main'.pc = "fork" => Len(main'.pids) = 0 /\ 1..Len(main'.pids) = {}
    BY EmptySeq
  <2>6. main'.pc \in {"fork"} \cup Foreground \cup Tracing => main'.pc = "fork"
    BY DEF Foreground, Tracing
  <2>7. main'.pc = "fork" => Len(main'.pids) <= Len(Segment'.stages) /\ Len(main'.pids) < NewPid'
    <3>2. NewPid' \in Nat
      BY <1>3, InTurnUsed DEF IInv
    <3> QED
      BY <2>2, <2>4, <2>5, <3>2
  <2>8. main'.pc \notin {"wait", "rwait"} \cup Foreground \cup Resuming \cup {"rterminal"}
    BY DEF Foreground, Resuming
  <2> QED
    BY <2>1, <2>5, <2>6, <2>7, <2>8 DEF Locals
<1>7. Groups'
  BY DEF IInv, Groups, Tracing
<1>8. Pipeline'
  BY DEF Pipeline
<1>9. Awaited'
  BY DEF Awaited, Foreground, Resuming
<1>10. Signals'
  <2>1. pending = {} /\ tty = Shell
    BY AtRest
  <2>2. Zombies' = Zombies
    BY DEF Zombies
  <2> QED
    BY <2>1, <2>2 DEF IInv, Signals
<1> QED
  BY <1>3, <1>5, <1>6, <1>7, <1>8, <1>9, <1>10 DEF IInv

(* The next segment of the line, when one is dropped unforked: there are     *)
(* numbers for what is left.                                                 *)
LEMMA DropRoom ==
  ASSUME IInv, main.pc = "next", main.segments # <<>>, NewPid' = NewPid,
         main' = Drop("next")
  PROVE  Room'
<1>1. /\ main'.pc = "next" /\ main'.segments = Tail(main.segments)
      /\ Stages(main.segments) = Len(Segment.stages) + Stages(Tail(main.segments))
      /\ Stages(Tail(main.segments)) \in Nat /\ Len(Segment.stages) \in Nat \ {0}
  BY DropFields DEF IInv, Pcs
<1>2. NewPid + Stages(main.segments) <= MaxPids + 1 + 0
  BY DEF IInv, Room, Forked, Foreground, Tracing
<1>3. NewPid \in Nat /\ MaxPids \in Nat
  BY InTurnUsed, ConstantsAssumption DEF IInv
<1>4. NewPid' + Stages(main'.segments) <= MaxPids + 1 + 0
  BY <1>1, <1>2, <1>3
<1>5. Forked' = 0
  BY <1>1 DEF Forked, Foreground, Tracing
<1> QED
  BY <1>4, <1>5 DEF Room

(* main() reads a line. *)
LEMMA ReadLineKeeps ==
  ASSUME IInv, NEW line \in Typed, ReadLine(line)
  PROVE  IInv'
<1> DEFINE segs == Segments(MakeToken(line).tokens)
<1>1. /\ main.pc = "prompt" /\ lines < MaxLines /\ lines' = lines + 1 /\ eof_warned' = FALSE
      /\ NewPid + Stages(segs) <= MaxPids + 1
      /\ main' = IF Accepted(line) THEN [Prompt EXCEPT !.pc = "next", !.segments = segs] ELSE Prompt
      /\ UNCHANGED <<proc, sigchld, tty, jobs, fg_running, pending, said>>
  BY DEF ReadLine
<1>2. Accepted(line) => segs \in Segs
  BY TypedAssumption DEF Segs
<1>3. 0 \in 0..MaxPids /\ <<>> \in Segs /\ <<>> \in PidSeqs
  BY ConstantsAssumption DEF Segs, PidSeqs
<1>4. main' \in MainType /\ main'.pc \in {"prompt", "next"}
      /\ (main'.pc = "next" => main'.segments = segs)
  <2> HIDE DEF Segs, PidSeqs, segs
  <2>1. CASE Accepted(line)
    BY <1>1, <1>2, <1>3, <2>1 DEF MainType, Prompt, Pcs
  <2>2. CASE ~ Accepted(line)
    BY <1>1, <1>3, <2>2 DEF MainType, Prompt, Pcs
  <2> QED
    BY <2>1, <2>2
<1>5. lines' \in 0..MaxLines
  BY <1>1, ConstantsAssumption DEF IInv, Shapes
<1>6. Shapes'
  BY <1>1, <1>4, <1>5 DEF IInv, Shapes
<1>7. Room'
  <2>1. NewPid' = NewPid
    BY <1>1 DEF NewPid
  <2>2. NewPid' + Stages(segs) <= MaxPids + 1 + 0
    BY <1>1, <2>1, ConstantsAssumption
  <2>3. Forked' = 0
    BY <1>4 DEF Forked, Foreground, Tracing
  <2> HIDE DEF segs
  <2> QED
    BY <1>4, <2>2, <2>3 DEF Room
<1>8. fg_running' = FALSE
  BY <1>1, AtRest
<1> QED
  BY <1>1, <1>4, <1>6, <1>7, <1>8, RestKeeps

(* Ctrl-D at the prompt, and exit. *)
LEMMA ExitKeeps ==
  ASSUME IInv, EndOfFile \/ ExitShell
  PROVE  IInv'
<1>1. /\ main.pc \in {"prompt", "next"} /\ eof_warned' \in BOOLEAN /\ lines' \in 0..MaxLines
      /\ UNCHANGED main \/ Goto("exited")
      /\ UNCHANGED <<proc, sigchld, tty, jobs, fg_running, pending, said>>
      /\ UNCHANGED main => main.pc = "prompt"
  <2>1. CASE EndOfFile
    <3>1. lines \in 0..MaxLines /\ eof_warned \in BOOLEAN
      BY DEF IInv, Shapes
    <3>2. lines < MaxLines /\ lines' = lines + 1 /\ main.pc = "prompt"
      BY <2>1 DEF EndOfFile
    <3>3. lines' \in 0..MaxLines
      BY <3>1, <3>2, ConstantsAssumption
    <3> QED
      BY <2>1, <3>1, <3>2, <3>3 DEF EndOfFile
  <2>2. CASE ExitShell
    <3>1. lines \in 0..MaxLines /\ eof_warned \in BOOLEAN
      BY DEF IInv, Shapes
    <3>2. main.pc = "next" /\ Goto("exited")
      BY <2>2 DEF ExitShell, AtBuiltin
    <3>3. main'.pc = "exited"
      BY <3>2, GotoFields DEF IInv, Pcs
    <3> QED
      BY <2>2, <3>1, <3>2, <3>3 DEF ExitShell
  <2> QED
    BY <2>1, <2>2
<1>2. main' \in MainType /\ main'.pc \in {"prompt", "exited"}
  <2>1. CASE UNCHANGED main
    BY <1>1, <2>1 DEF IInv, Shapes
  <2>2. CASE Goto("exited")
    BY <2>2, GotoFields DEF IInv, Pcs
  <2> QED
    BY <1>1, <2>1, <2>2
<1>3. Shapes'
  BY <1>1, <1>2 DEF IInv, Shapes
<1>4. Room'
  BY <1>2 DEF Room
<1>5. fg_running' = FALSE
  BY <1>1, AtRest
<1> QED
  BY <1>1, <1>2, <1>3, <1>4, <1>5, RestKeeps

(* The end of the line: nothing is queued. *)
LEMMA RunCmdEndKeeps ==
  ASSUME IInv, RunCmdEnd
  PROVE  IInv'
<1>1. /\ main.pc = "next" /\ main' = Prompt /\ FlushPending
      /\ UNCHANGED <<proc, sigchld, tty, jobs, fg_running, lines, eof_warned>>
  BY DEF RunCmdEnd
<1>2. pending = {} /\ fg_running = FALSE
  BY <1>1, AtRest
<1>3. UNCHANGED <<pending, said>>
  <2>1. pending' = {} /\ said' = [p \in Pids |-> said[p]]
    BY <1>1, <1>2 DEF FlushPending
  <2> QED
    BY <1>2, <2>1 DEF IInv, Shapes
<1>4. main' \in MainType /\ main'.pc = "prompt"
  <2>1. 0 \in 0..MaxPids /\ <<>> \in Segs /\ <<>> \in PidSeqs
    BY ConstantsAssumption DEF Segs, PidSeqs
  <2> HIDE DEF Segs, PidSeqs
  <2> QED
    BY <1>1, <2>1 DEF MainType, Prompt, Pcs
<1>5. Shapes'
  BY <1>1, <1>3, <1>4 DEF IInv, Shapes
<1>6. Room'
  BY <1>4 DEF Room
<1> QED
  BY <1>1, <1>2, <1>3, <1>4, <1>5, <1>6, RestKeeps

(* A segment that does not start, and a resume that is refused. *)
LEMMA SkipKeeps ==
  ASSUME IInv, CannotStart \/ ResumeRefused
  PROVE  IInv'
<1>1. /\ main.pc = "next" /\ main.segments # <<>>
      /\ main' = Drop("next") \/ main' = [main EXCEPT !.segments = <<>>]
      /\ UNCHANGED <<proc, sigchld, tty, jobs, fg_running, pending, lines, eof_warned, said>>
  BY DEF CannotStart, ResumeRefused, AtBuiltin
<1>2. NewPid' = NewPid
  BY <1>1 DEF NewPid
<1>3. main' \in MainType /\ main'.pc = "next" /\ Room'
  <2>1. CASE main' = Drop("next")
    BY <1>1, <1>2, <2>1, DropFields, DropRoom DEF IInv, Pcs
  <2>2. CASE main' = [main EXCEPT !.segments = <<>>]
    <3>1. <<>> \in Seq(SegmentType)
      OBVIOUS
    <3>2. <<>> \in Segs /\ main \in MainType
      BY <3>1 DEF IInv, Shapes, Segs
    <3>3. main' \in MainType /\ main'.pc = "next" /\ main'.segments = <<>>
      <4> HIDE DEF Pcs, Segs, PidSeqs
      <4> QED
        BY <1>1, <2>2, <3>2 DEF MainType
    <3>4. Stages(<<>>) = 0
      <4>1. UNION {{i} \X DOMAIN (<<>>)[i].stages : i \in DOMAIN <<>>} = {}
        OBVIOUS
      <4> QED
        BY <4>1, FS_EmptySet DEF Stages
    <3>5. NewPid' + 0 <= MaxPids + 1 + 0
      BY <1>2, InTurnUsed, ConstantsAssumption DEF IInv
    <3>6. Forked' = 0
      BY <3>3 DEF Forked, Foreground, Tracing
    <3> QED
      BY <3>3, <3>4, <3>5, <3>6 DEF Room
  <2> QED
    BY <1>1, <2>1, <2>2
<1>4. Shapes'
  BY <1>1, <1>3 DEF IInv, Shapes
<1>5. fg_running' = FALSE
  BY <1>1, AtRest
<1> QED
  BY <1>1, <1>3, <1>4, <1>5, RestKeeps

(* run_pipeline() begins. *)
LEMMA StartKeeps ==
  ASSUME IInv, Start
  PROVE  IInv'
<1>1. /\ main.pc = "next" /\ main.segments # <<>>
      /\ fg_running' = (fg_running \/ Segment.term # "&")
      /\ main' = [main EXCEPT !.pc = "fork", !.pids = <<>>]
      /\ UNCHANGED <<proc, sigchld, tty, jobs, pending, lines, eof_warned, said>>
  BY DEF Start
<1>2. fg_running = FALSE
  BY <1>1, AtRest
<1>3. /\ main' \in MainType /\ main'.pc = "fork" /\ main'.pids = <<>>
      /\ main'.segments = main.segments
  <2>1. <<>> \in PidSeqs /\ main \in MainType
    BY DEF IInv, Shapes, PidSeqs
  <2> HIDE DEF Segs, PidSeqs
  <2> QED
    BY <1>1, <2>1 DEF MainType, Pcs
<1>4. Segment' = Segment
  BY <1>3 DEF Segment
<1>5. NewPid' = NewPid
  BY <1>1 DEF NewPid
<1>6. Room'
  <2>1. NewPid + Stages(main.segments) <= MaxPids + 1 + 0
    BY <1>1 DEF IInv, Room, Forked, Foreground, Tracing
  <2>2. Forked' = 0
    BY <1>3, EmptySeq DEF Forked
  <2> QED
    BY <1>3, <1>5, <2>1, <2>2 DEF Room
<1>7. Shapes'
  BY <1>1, <1>2, <1>3 DEF IInv, Shapes
<1> QED
  BY <1>1, <1>2, <1>3, <1>4, <1>6, <1>7, RestKeeps

-----------------------------------------------------------------------------
(* Children that exit, stop or go on.                                      *)

(* A step that only signals processes. *)
LEMMA SignalKeeps ==
  ASSUME IInv, \A p \in Pids : Moved(p),
         UNCHANGED <<jobs, tty, fg_running, pending, said, lines, eof_warned>>,
         proc' \in [Pids -> ProcType], sigchld' \in BOOLEAN, sigchld => sigchld',
         \A p \in Pids : /\ proc'[p].gated = proc[p].gated
                         /\ main.pc = "fork" /\ proc[p].gated /\ Alive(p)
                              => proc'[p].state \in {"run", "stopped"}
                         /\ proc'[p].state = "zombie" /\ proc[p].state # "zombie" => sigchld',
         \/ UNCHANGED main
         \/ main.pc = "next" /\ main.segments # <<>> /\ main' = Drop("next"),
         main.pc = "trace_go" => proc'[main.pids[1]].state = "stopped"
  PROVE  IInv'
<1>1. SameTable
  BY DEF SameTable, SameJob
<1>2. InTurn' /\ NewPid' = NewPid /\ Leaders' /\ StillListed' /\ ThenTold' /\ ToldOnce'
  BY <1>1, MovedKeeps
<1>3. main' # main => Elsewhere /\ main'.pc = "next" /\ main' \in MainType
  BY DropFields DEF IInv, Elsewhere, Pcs
<1>4. Elsewhere /\ main' # main => Elsewhere'
  BY <1>3 DEF Elsewhere
<1>5. OnlyMember' /\ AliveListed' /\ ListedAlive' /\ LeftCounts'
  BY <1>1, <1>3, <1>4, MovedTable
<1>6. Shapes'
  BY <1>3 DEF IInv, Shapes
<1>7. Room'
  <2>1. CASE UNCHANGED main
    <3>1. Forked' = Forked
      BY <2>1 DEF Forked
    <3> QED
      BY <1>2, <2>1, <3>1 DEF IInv, Room
  <2>2. CASE main' # main
    BY <1>2, <2>2, DropRoom
  <2> QED
    BY <2>1, <2>2
<1>8. Locals'
  <2>1. CASE UNCHANGED main
    <3>1. Segment' = Segment
      BY <2>1 DEF Segment
    <3> QED
      BY <1>2, <2>1, <3>1 DEF IInv, Locals
  <2>2. CASE main' # main
    BY <1>3, <2>2 DEF Locals, Foreground, Resuming, Tracing
  <2> QED
    BY <2>1, <2>2
<1>9. main.pids \in Seq(Pids)
  BY MainFields DEF IInv, PidSeqs
<1>10. ASSUME UNCHANGED main, main.pc \in {"fork"} \cup Tracing, main.pids # <<>>
       PROVE  main.pids[1] \in Pids /\ \A i \in 1..Len(main.pids) : main.pids[i] \in Pids
  BY <1>9, <1>10, EmptySeq, LenProperties, ElementOfSeq
<1>11. Groups'
  <2>1. CASE UNCHANGED main
    <3>1. \A p \in Pids : proc'[p].state = "none" => proc'[p].group = Shell
      BY DEF IInv, Groups, Moved
    <3>2. main.pc \in Tracing => Len(main.pids) > 0
      BY DEF IInv, Locals, Tracing
    <3>3. main.pc \in Tracing => main.pids[1] \in Pids
      BY <1>9, <3>2, ElementOfSeq, LenProperties
    <3> QED
      BY <2>1, <3>1, <3>3 DEF IInv, Groups, Moved, Tracing
  <2>2. CASE main' # main
    BY <1>3, <2>2 DEF IInv, Groups, Tracing, Moved
  <2> QED
    BY <2>1, <2>2
<1>12. Pipeline'
  <2>1. CASE UNCHANGED main
    <3>1. Segment' = Segment
      BY <2>1 DEF Segment
    <3> QED
      BY <1>10, <2>1, <3>1 DEF IInv, Pipeline, Moved, Gone, Alive
  <2>2. CASE main' # main
    BY <1>3, <2>2 DEF Pipeline
  <2> QED
    BY <2>1, <2>2
<1>13. Awaited'
  <2>1. CASE UNCHANGED main
    BY <2>1 DEF IInv, Awaited
  <2>2. CASE main' # main
    BY <1>3, <2>2 DEF Awaited, Foreground, Resuming
  <2> QED
    BY <2>1, <2>2
<1>14. Signals'
  <2>1. Zombies' # {} => sigchld'
    BY DEF IInv, Signals, Zombies
  <2>2. CASE UNCHANGED main
    <3>1. Segment' = Segment
      BY <2>2 DEF Segment
    <3> QED
      BY <2>1, <2>2, <3>1 DEF IInv, Signals
  <2>3. CASE main' # main
    <3>1. tty = Shell /\ fg_running = FALSE /\ pending = {}
      BY <2>3, AtRest
    <3> QED
      BY <1>3, <2>1, <2>3, <3>1 DEF Signals
  <2> QED
    BY <2>2, <2>3
<1> QED
  BY <1>2, <1>5, <1>6, <1>7, <1>8, <1>11, <1>12, <1>13, <1>14 DEF IInv

(* A child exits. *)
LEMMA ExitChildKeeps ==
  ASSUME IInv, NEW p \in Pids, Exit(p)
  PROVE  IInv'
<1>1. /\ proc[p].state = "run" /\ ~ proc[p].gated
      /\ proc' = [proc EXCEPT ![p].state = "zombie"] /\ sigchld' = TRUE
      /\ UNCHANGED <<tty, jobs, fg_running, pending, main, lines, eof_warned, said>>
  BY DEF Exit
<1>2. proc \in [Pids -> ProcType]
  BY DEF IInv, Shapes
<1>3. proc' \in [Pids -> ProcType]
  BY <1>1, <1>2 DEF ProcType
<1>4. \A q \in Pids : /\ proc'[q].state = IF q = p THEN "zombie" ELSE proc[q].state
                      /\ proc'[q].group = proc[q].group /\ proc'[q].gated = proc[q].gated
  BY <1>1, <1>2 DEF ProcType
<1>5. \A q \in Pids : Moved(q)
  BY <1>1, <1>4 DEF Moved
<1>6. main.pc = "trace_go" => proc'[main.pids[1]].state = "stopped"
  <2>1. SUFFICES ASSUME main.pc = "trace_go" PROVE proc'[main.pids[1]].state = "stopped"
    OBVIOUS
  <2>2. main.pids \in Seq(Pids) /\ Len(main.pids) > 0
    BY <2>1, MainFields DEF IInv, PidSeqs, Locals, Tracing
  <2>3. main.pids[1] \in Pids
    BY <2>2, ElementOfSeq, LenProperties
  <2>4. proc[main.pids[1]].state = "stopped"
    BY <2>1 DEF IInv, Groups, Tracing
  <2> QED
    BY <1>1, <1>4, <2>3, <2>4
<1>7. \A q \in Pids : proc[q].gated /\ Alive(q) => proc'[q].state \in {"run", "stopped"}
  BY <1>1, <1>4 DEF Alive
<1> QED
  BY <1>1, <1>3, <1>4, <1>5, <1>6, <1>7, SignalKeeps

(* The child that snoop traces. *)
LEMMA Tracee ==
  ASSUME IInv, main.pc \in Tracing
  PROVE  /\ main.pids[1] \in Pids /\ proc[main.pids[1]].group = Shell
         /\ main.pc = "trace_go" => proc[main.pids[1]].state = "stopped"
<1>1. main.pids \in Seq(Pids) /\ Len(main.pids) > 0
  BY MainFields DEF IInv, PidSeqs, Locals, Tracing
<1>2. main.pids[1] \in Pids
  BY <1>1, ElementOfSeq, LenProperties
<1> QED
  BY <1>2 DEF IInv, Groups

(* A group stops, or the child that is traced. *)
LEMMA StopKeeps ==
  ASSUME IInv, NEW S \in SUBSET Pids,
         proc' = [p \in Pids |-> IF p \in S /\ proc[p].state = "run"
                                 THEN [proc[p] EXCEPT !.state = "stopped", !.news = TRUE]
                                 ELSE proc[p]],
         sigchld' = TRUE,
         UNCHANGED <<tty, jobs, fg_running, pending, main, lines, eof_warned, said>>
  PROVE  IInv'
<1>1. proc \in [Pids -> ProcType]
  BY DEF IInv, Shapes
<1>2. \A q \in Pids : proc'[q] \in ProcType
  <2> TAKE q \in Pids
  <2>1. proc[q] \in ProcType
    BY <1>1
  <2> QED
    BY <2>1 DEF ProcType
<1>3. proc' \in [Pids -> ProcType]
  BY <1>2
<1>4. \A q \in Pids :
        /\ proc'[q].state = IF q \in S /\ proc[q].state = "run" THEN "stopped" ELSE proc[q].state
        /\ proc'[q].group = proc[q].group /\ proc'[q].gated = proc[q].gated
  <2> TAKE q \in Pids
  <2>1. proc[q] \in ProcType
    BY <1>1
  <2> QED
    BY <2>1 DEF ProcType
<1>5. \A q \in Pids : Moved(q)
  <2> TAKE q \in Pids
  <2>1. CASE q \in S /\ proc[q].state = "run"
    <3>1. proc'[q].state = "stopped" /\ proc'[q].group = proc[q].group /\ proc[q].state = "run"
      BY <1>4, <2>1
    <3> QED
      BY ONLY <3>1 DEF Moved
  <2>2. CASE ~ (q \in S /\ proc[q].state = "run")
    BY <1>4, <2>2 DEF Moved
  <2> QED
    BY <2>1, <2>2
<1>6. main.pc = "trace_go" => proc'[main.pids[1]].state = "stopped"
  BY <1>4, Tracee DEF Tracing
<1>7. \A q \in Pids : proc[q].gated /\ Alive(q) => proc'[q].state \in {"run", "stopped"}
  BY <1>4 DEF Alive
<1>8. \A q \in Pids : proc'[q].state = "zombie" /\ proc[q].state # "zombie" => sigchld'
  BY <1>4
<1> QED
  BY <1>3, <1>4, <1>5, <1>6, <1>7, <1>8, SignalKeeps

(* Ctrl-Z, a background read of the terminal, and a stop for the tracer. *)
LEMMA StopsKeep ==
  ASSUME IInv, CtrlZ \/ \E p \in Pids : ReadTerminal(p) \/ TraceStop(p)
  PROVE  IInv'
<1>1. CASE CtrlZ
  BY <1>1, StopKeeps DEF CtrlZ, Stopped, Group
<1>2. ASSUME NEW p \in Pids, ReadTerminal(p) PROVE IInv'
  BY <1>2, StopKeeps DEF ReadTerminal, Stopped, Group
<1>3. ASSUME NEW p \in Pids, TraceStop(p) PROVE IInv'
  <2>1. /\ proc[p].state = "run" /\ sigchld' = TRUE
        /\ proc' = [proc EXCEPT ![p].state = "stopped", ![p].news = TRUE]
        /\ UNCHANGED <<tty, jobs, fg_running, pending, main, lines, eof_warned, said>>
    BY <1>3 DEF TraceStop
  <2>2. proc \in [Pids -> ProcType]
    BY DEF IInv, Shapes
  <2>3. proc' = [q \in Pids |-> IF q \in {p} /\ proc[q].state = "run"
                                THEN [proc[q] EXCEPT !.state = "stopped", !.news = TRUE]
                                ELSE proc[q]]
    BY <2>1, <2>2
  <2>4. {p} \in SUBSET Pids
    OBVIOUS
  <2> QED
    BY <2>1, <2>3, <2>4, StopKeeps
<1> QED
  BY <1>1, <1>2, <1>3

(* ping *)
LEMMA PingKeeps ==
  ASSUME IInv, Ping
  PROVE  IInv'
<1> DEFINE T == PingTarget  sig == Args[2]
<1>1. /\ main.pc = "next" /\ main.segments # <<>>
      /\ proc' = Signalled(T, sig)
      /\ sigchld' = (sigchld \/ proc' # proc)
      /\ main' = Drop("next")
      /\ UNCHANGED <<tty, jobs, fg_running, pending, lines, eof_warned, said>>
  BY DEF Ping, AtBuiltin
<1> DEFINE F(q) == CASE q \notin T                                -> proc[q]
                     [] sig = <<"9">> /\ Alive(q)                 -> [proc[q] EXCEPT !.state = "zombie"]
                     [] sig = <<"19">> /\ proc[q].state = "run"   -> [proc[q] EXCEPT !.state = "stopped", !.news = TRUE]
                     [] sig = <<"18">> /\ proc[q].state = "stopped" -> [proc[q] EXCEPT !.state = "run", !.news = FALSE]
                     [] OTHER                                     -> proc[q]
<1>a. proc' = [q \in Pids |-> F(q)]
  BY <1>1 DEF Signalled
<1> HIDE DEF T, sig, F
<1>2. proc \in [Pids -> ProcType] /\ sigchld \in BOOLEAN
  BY DEF IInv, Shapes
<1>3. \A q \in Pids :
        /\ proc'[q] \in ProcType
        /\ \/ proc'[q].state = proc[q].state
           \/ Alive(q) /\ proc'[q].state \in {"run", "stopped", "zombie"}
        /\ proc'[q].group = proc[q].group /\ proc'[q].gated = proc[q].gated
  <2> TAKE q \in Pids
  <2>1. proc[q] \in ProcType
    BY <1>2
  <2>a. proc'[q] = F(q)
    BY <1>a
  <2>2. \/ proc'[q] = proc[q]
        \/ Alive(q) /\ proc'[q] = [proc[q] EXCEPT !.state = "zombie"]
        \/ proc[q].state = "run" /\ proc'[q] = [proc[q] EXCEPT !.state = "stopped", !.news = TRUE]
        \/ proc[q].state = "stopped" /\ proc'[q] = [proc[q] EXCEPT !.state = "run", !.news = FALSE]
    BY <2>a DEF F
  <2> QED
    BY <2>1, <2>2 DEF ProcType, Alive
<1>4. \A q \in Pids : Moved(q)
  BY <1>3 DEF Moved, Alive
<1>5. proc' \in [Pids -> ProcType]
  BY <1>3, <1>a
<1>6. \A q \in Pids : proc'[q].state = "zombie" /\ proc[q].state # "zombie" => sigchld'
  BY <1>1
<1> QED
  BY <1>1, <1>2, <1>3, <1>4, <1>5, <1>6, SignalKeeps

-----------------------------------------------------------------------------
(* reap_finished().                                                        *)

ToTell == {p \in Zombies : \E n \in FindJobContaining(p) : jobs[n].background}

(* What it does to a process. *)
LEMMA ReapedProc ==
  ASSUME IInv, ReapFinished
  PROVE  /\ proc' \in [Pids -> ProcType]
         /\ \A p \in Pids :
              /\ proc'[p].state = IF proc[p].state = "zombie" THEN "gone" ELSE proc[p].state
              /\ proc'[p].group = proc[p].group /\ proc'[p].gated = proc[p].gated
         /\ Zombies' = {}
<1>1. proc' = [p \in Pids |-> IF Traced(p) THEN [Taken(Zombies)[p] EXCEPT !.news = FALSE]
                              ELSE Taken(Zombies)[p]]
  BY DEF ReapFinished
<1>2. ASSUME NEW p \in Pids
      PROVE  /\ proc'[p] \in ProcType
             /\ proc'[p].state = IF proc[p].state = "zombie" THEN "gone" ELSE proc[p].state
             /\ proc'[p].group = proc[p].group /\ proc'[p].gated = proc[p].gated
  <2>1. proc[p] \in ProcType
    BY DEF IInv, Shapes
  <2>2. Taken(Zombies)[p] = IF proc[p].state = "zombie" THEN [proc[p] EXCEPT !.state = "gone"]
                            ELSE proc[p]
    BY DEF Taken, Zombies
  <2>3. /\ Taken(Zombies)[p] \in ProcType
        /\ Taken(Zombies)[p].state = IF proc[p].state = "zombie" THEN "gone" ELSE proc[p].state
        /\ Taken(Zombies)[p].group = proc[p].group
        /\ Taken(Zombies)[p].gated = proc[p].gated
    <3>1. CASE proc[p].state = "zombie"
      BY <2>1, <2>2, <3>1 DEF ProcType
    <3>2. CASE proc[p].state # "zombie"
      BY <2>1, <2>2, <3>2
    <3> QED
      BY <3>1, <3>2
  <2>4. \/ proc'[p] = Taken(Zombies)[p]
        \/ proc'[p] = [Taken(Zombies)[p] EXCEPT !.news = FALSE]
    BY <1>1
  <2> QED
    BY <2>3, <2>4 DEF ProcType
<1>3. proc' \in [Pids -> ProcType]
  BY <1>1, <1>2
<1>4. Zombies' = {}
  BY <1>2 DEF Zombies
<1> QED
  BY <1>2, <1>3, <1>4

(* What it does to the table. *)
LEMMA ReapedJobs ==
  ASSUME IInv, ReapFinished
  PROVE  /\ jobs' \in Seq(JobType) /\ DOMAIN jobs' = DOMAIN jobs
         /\ \A n \in DOMAIN jobs :
              /\ jobs'[n].pgid = jobs[n].pgid
              /\ jobs'[n].background = jobs[n].background
              /\ jobs'[n].resumed = jobs[n].resumed
              /\ ~ jobs[n].active => ~ jobs'[n].active /\ jobs'[n].pids = jobs[n].pids
              /\ jobs[n].active => /\ jobs'[n].pids = jobs[n].pids \ Zombies
                                   /\ jobs'[n].active = (jobs[n].pids \ Zombies # {})
<1>1. jobs' = RemovePids(Zombies)
  BY DEF ReapFinished
<1>2. jobs \in Seq(JobType) /\ DOMAIN jobs = 1..Len(jobs) /\ Len(jobs) \in Nat
  BY LenProperties DEF IInv, Shapes
<1>3. ASSUME NEW n \in DOMAIN jobs
      PROVE  /\ jobs'[n] \in JobType
             /\ jobs'[n].pgid = jobs[n].pgid
             /\ jobs'[n].background = jobs[n].background
             /\ jobs'[n].resumed = jobs[n].resumed
             /\ ~ jobs[n].active => ~ jobs'[n].active /\ jobs'[n].pids = jobs[n].pids
             /\ jobs[n].active => /\ jobs'[n].pids = jobs[n].pids \ Zombies
                                  /\ jobs'[n].active = (jobs[n].pids \ Zombies # {})
  <2>1. jobs[n] \in JobType
    BY <1>2, ElementOfSeq
  <2>2. jobs'[n] = IF ~ jobs[n].active THEN jobs[n]
                   ELSE [jobs[n] EXCEPT !.pids = @ \ Zombies,
                                        !.active = jobs[n].pids \ Zombies # {}]
    BY <1>1 DEF RemovePids
  <2>3. CASE ~ jobs[n].active
    BY <2>1, <2>2, <2>3
  <2>4. CASE jobs[n].active
    <3>1. jobs[n].pids \ Zombies \in SUBSET Pids
      BY <2>1 DEF JobType
    <3>2. (jobs[n].pids \ Zombies # {}) \in BOOLEAN
      OBVIOUS
    <3> DEFINE rest == jobs[n].pids \ Zombies  left == rest # {}
    <3>3. jobs'[n] = [jobs[n] EXCEPT !.pids = rest, !.active = left]
      BY <2>2, <2>4
    <3>4. rest \in SUBSET Pids /\ left \in BOOLEAN
      BY <3>1, <3>2
    <3>5. jobs[n].pids \ Zombies = rest /\ (jobs[n].pids \ Zombies # {}) = left
      OBVIOUS
    <3> HIDE DEF Zombies, rest, left
    <3>6. /\ jobs'[n] \in JobType /\ jobs'[n].pids = rest /\ jobs'[n].active = left
          /\ jobs'[n].pgid = jobs[n].pgid /\ jobs'[n].background = jobs[n].background
          /\ jobs'[n].resumed = jobs[n].resumed
      BY <2>1, <3>3, <3>4 DEF JobType
    <3> QED
      BY <2>4, <3>5, <3>6
  <2> QED
    BY <2>3, <2>4
<1>4. jobs' = [n \in 1..Len(jobs) |-> jobs'[n]]
  BY <1>1, <1>2 DEF RemovePids
<1>5. jobs' \in Seq(JobType)
  <2>1. \A n \in 1..Len(jobs) : jobs'[n] \in JobType
    BY <1>2, <1>3
  <2> DEFINE f == [n \in 1..Len(jobs) |-> jobs'[n]]
  <2>2. f \in Seq(JobType)
    BY <1>2, <2>1, IsASeq
  <2> QED
    BY <1>4, <2>2
<1> QED
  BY <1>1, <1>3, <1>5 DEF RemovePids

(* What it says. *)
LEMMA ReapedNews ==
  ASSUME IInv, ReapFinished
  PROVE  /\ pending' \subseteq Pids /\ Cardinality(pending') <= MaxPending
         /\ said' \in [Pids -> SaidType]
         /\ pending' # {} => pending # {} \/ fg_running
         /\ \A p \in Pids : Told(p)' <=> Told(p) \/ p \in ToTell
         /\ ToldOnce'
<1>1. \A p \in ToTell : p \in Pids /\ proc[p].state = "zombie"
  BY DEF ToTell, Zombies
<1>2. \A p \in ToTell : p \notin pending /\ said[p].lost = FALSE /\ said[p].times = 0
  <2> TAKE p \in ToTell
  <2>1. ~ Told(p)
    BY <1>1 DEF IInv, ToldOnce, Gone
  <2>2. said[p] \in SaidType
    BY <1>1 DEF IInv, Shapes
  <2> QED
    BY <2>1, <2>2 DEF Told, SaidType
<1>3. \A p \in Pids : said[p] \in SaidType
  BY DEF IInv, Shapes
<1>4. \A p \in Pids : Told(p)' => proc'[p].state = "gone" \/ ~ (Told(p) \/ p \in ToTell)
  BY <1>1, ReapedProc DEF IInv, ToldOnce, Gone
<1>5. CASE fg_running
  <2>1. PICK S \in SUBSET ToTell :
          /\ \/ S = ToTell /\ Cardinality(pending \cup S) <= MaxPending
             \/ Cardinality(pending \cup S) = MaxPending
          /\ pending' = pending \cup S
          /\ said' = [p \in Pids |-> IF p \in ToTell \ S
                                     THEN [said[p] EXCEPT !.lost = TRUE] ELSE said[p]]
    BY <1>5 DEF ReapFinished, ToTell
  <2>2. pending' \subseteq Pids /\ Cardinality(pending') <= MaxPending
    BY <1>1, <2>1, ConstantsAssumption DEF IInv, Shapes
  <2>3. \A p \in Pids : /\ said'[p] \in SaidType
                        /\ said'[p].times = said[p].times
                        /\ said'[p].lost = (said[p].lost \/ p \in ToTell \ S)
    <3> TAKE p \in Pids
    <3>1. said[p] \in SaidType
      BY <1>3
    <3>2. CASE p \in ToTell \ S
      BY <2>1, <3>1, <3>2 DEF SaidType
    <3>3. CASE p \notin ToTell \ S
      BY <2>1, <3>1, <3>3 DEF SaidType
    <3> QED
      BY <3>2, <3>3
  <2>4. said' \in [Pids -> SaidType]
    BY <2>1, <2>3
  <2>5. \A p \in Pids : Told(p)' <=> Told(p) \/ p \in ToTell
    BY <2>1, <2>3 DEF Told
  <2>6. ToldOnce'
    <3>1. \A p \in Pids : Told(p)' => Gone(p)'
      BY <1>4, <2>5 DEF Gone
    <3>2. \A p \in Pids : p \in pending' \/ said'[p].lost => said'[p].times = 0
      BY <1>2, <2>1, <2>3 DEF IInv, ToldOnce
    <3>3. \A p \in Pids : ~ (p \in pending' /\ said'[p].lost)
      BY <1>2, <2>1, <2>3 DEF IInv, ToldOnce
    <3> QED
      BY <3>1, <3>2, <3>3 DEF ToldOnce
  <2> QED
    BY <1>5, <2>2, <2>4, <2>5, <2>6
<1>6. CASE ~ fg_running
  <2>1. /\ pending' = pending
        /\ said' = [p \in Pids |-> IF p \in ToTell
                                   THEN [said[p] EXCEPT !.times = @ + 1] ELSE said[p]]
    BY <1>6 DEF ReapFinished, ToTell
  <2>2. pending' \subseteq Pids /\ Cardinality(pending') <= MaxPending
    BY <2>1 DEF IInv, Shapes
  <2>3. \A p \in Pids : /\ said'[p] \in SaidType
                        /\ said'[p].times = IF p \in ToTell THEN 1 ELSE said[p].times
                        /\ said'[p].lost = said[p].lost
    <3> TAKE p \in Pids
    <3>1. said[p] \in SaidType
      BY <1>3
    <3>2. CASE p \in ToTell
      BY <1>2, <2>1, <3>1, <3>2 DEF SaidType
    <3>3. CASE p \notin ToTell
      BY <2>1, <3>1, <3>3 DEF SaidType
    <3> QED
      BY <3>2, <3>3
  <2>4. said' \in [Pids -> SaidType]
    BY <2>1, <2>3
  <2>5. \A p \in Pids : Told(p)' <=> Told(p) \/ p \in ToTell
    BY <2>1, <2>3 DEF Told
  <2>6. ToldOnce'
    <3>1. \A p \in Pids : Told(p)' => Gone(p)'
      BY <1>4, <2>5 DEF Gone
    <3>2. \A p \in Pids : p \in pending' \/ said'[p].lost => said'[p].times = 0
      BY <1>2, <2>1, <2>3 DEF IInv, ToldOnce
    <3>3. \A p \in Pids : ~ (p \in pending' /\ said'[p].lost)
      BY <1>2, <2>1, <2>3 DEF IInv, ToldOnce
    <3> QED
      BY <3>1, <3>2, <3>3 DEF ToldOnce
  <2> QED
    BY <2>1, <2>2, <2>4, <2>5, <2>6
<1> QED
  BY <1>5, <1>6

(* Whenever it runs, in the handler or for activities. *)
LEMMA ReapKeeps ==
  ASSUME IInv, ReapFinished, sigchld' \in BOOLEAN,
         UNCHANGED <<tty, fg_running, lines, eof_warned>>,
         \/ UNCHANGED main
         \/ main.pc = "next" /\ main.segments # <<>> /\ main' = Drop("next")
  PROVE  IInv'
<1>1. /\ proc' \in [Pids -> ProcType]
      /\ \A p \in Pids :
           /\ proc'[p].state = IF proc[p].state = "zombie" THEN "gone" ELSE proc[p].state
           /\ proc'[p].group = proc[p].group /\ proc'[p].gated = proc[p].gated
      /\ Zombies' = {}
  BY ReapedProc
<1>2. /\ jobs' \in Seq(JobType) /\ DOMAIN jobs' = DOMAIN jobs
      /\ \A n \in DOMAIN jobs :
           /\ jobs'[n].pgid = jobs[n].pgid
           /\ jobs'[n].background = jobs[n].background
           /\ jobs'[n].resumed = jobs[n].resumed
           /\ ~ jobs[n].active => ~ jobs'[n].active /\ jobs'[n].pids = jobs[n].pids
           /\ jobs[n].active => /\ jobs'[n].pids = jobs[n].pids \ Zombies
                                /\ jobs'[n].active = (jobs[n].pids \ Zombies # {})
  BY ReapedJobs
<1>3. /\ pending' \subseteq Pids /\ Cardinality(pending') <= MaxPending
      /\ said' \in [Pids -> SaidType]
      /\ pending' # {} => pending # {} \/ fg_running
      /\ \A p \in Pids : Told(p)' <=> Told(p) \/ p \in ToTell
      /\ ToldOnce'
  BY ReapedNews
<1>4. main' # main => Elsewhere /\ main'.pc = "next" /\ main' \in MainType
  BY DropFields DEF IInv, Elsewhere, Pcs
<1>5. main' # main => Elsewhere'
  BY <1>4 DEF Elsewhere
<1>6. \A n \in DOMAIN jobs : jobs[n].pgid \in Pids
  BY JobFields DEF IInv
<1>7. InTurn' /\ NewPid' = NewPid
  <2>1. \A p \in Pids : proc'[p].state # "none" <=> proc[p].state # "none"
    BY <1>1
  <2> QED
    BY <2>1, SameInTurn DEF IInv
<1>8. \A n \in DOMAIN jobs : /\ OneProcess(n)' <=> OneProcess(n)
                             /\ PlainJob(n)' <=> PlainJob(n)
  BY <1>1, <1>2 DEF OneProcess, PlainJob, Group
<1>9. \A n : /\ InForeground(n) => InForeground(n)'
             /\ InForeground(n)' => InForeground(n)
             /\ InResume(n) => InResume(n)'
             /\ InResume(n)' => InResume(n)
             /\ InForeground(n) \/ InResume(n) => UNCHANGED main
  BY <1>4, <1>5 DEF InForeground, InResume, Elsewhere, Foreground, Resuming, Tracing
<1>10. Shapes'
  BY <1>1, <1>2, <1>3, <1>4 DEF IInv, Shapes
<1>11. Room'
  <2>1. CASE UNCHANGED main
    <3>1. Forked' = Forked
      BY <2>1 DEF Forked
    <3> QED
      BY <1>7, <2>1, <3>1 DEF IInv, Room
  <2>2. CASE main' # main
    BY <1>7, <2>2, DropRoom
  <2> QED
    BY <2>1, <2>2
<1>12. Locals'
  <2>1. CASE UNCHANGED main
    <3>1. Segment' = Segment
      BY <2>1 DEF Segment
    <3> QED
      BY <1>2, <1>7, <2>1, <3>1 DEF IInv, Locals
  <2>2. CASE main' # main
    BY <1>4, <2>2 DEF Locals, Foreground, Resuming, Tracing
  <2> QED
    BY <2>1, <2>2
<1>13. Groups'
  <2>1. \A p \in Pids : proc'[p].state = "none" => proc'[p].group = Shell
    BY <1>1 DEF IInv, Groups
  <2>2. CASE UNCHANGED main
    <3>1. main.pc \in Tracing =>
            /\ main.pids[1] \in Pids /\ proc[main.pids[1]].group = Shell
            /\ main.pc = "trace_go" => proc[main.pids[1]].state = "stopped"
      BY Tracee
    <3> QED
      BY <1>1, <2>1, <2>2, <3>1 DEF Groups
  <2>3. CASE main' # main
    BY <1>4, <2>1, <2>3 DEF Groups, Tracing
  <2> QED
    BY <2>2, <2>3
<1>14. Pipeline'
  <2>1. CASE UNCHANGED main
    <3>1. Segment' = Segment
      BY <2>1 DEF Segment
    <3>2. main.pids \in Seq(Pids)
      BY MainFields DEF IInv, PidSeqs
    <3>3. main.pids # <<>> => /\ main.pids[1] \in Pids
                              /\ \A i \in 1..Len(main.pids) : main.pids[i] \in Pids
      BY <3>2, EmptySeq, LenProperties, ElementOfSeq
    <3> QED
      BY <1>1, <1>2, <2>1, <3>1, <3>3 DEF IInv, Pipeline, Gone, Alive
  <2>2. CASE main' # main
    BY <1>4, <2>2 DEF Pipeline
  <2> QED
    BY <2>1, <2>2
<1>15. Leaders'
  <2>1. \A n \in DOMAIN jobs : jobs[n].pgid < NewPid /\ proc[jobs[n].pgid].group = jobs[n].pgid
    BY DEF IInv, Leaders
  <2>2. \A n, m \in DOMAIN jobs : jobs[n].pgid = jobs[m].pgid => n = m
    BY DEF IInv, Leaders
  <2>3. \A n \in DOMAIN jobs : jobs'[n].active => jobs'[n].pids # {}
    BY <1>2
  <2>4. \A n \in DOMAIN jobs : jobs'[n].pgid < NewPid' /\ proc'[jobs'[n].pgid].group = jobs'[n].pgid
    BY <1>1, <1>2, <1>6, <1>7, <2>1
  <2>5. \A n, m \in DOMAIN jobs' : jobs'[n].pgid = jobs'[m].pgid => n = m
    BY <1>2, <2>2
  <2> QED
    BY <1>2, <2>3, <2>4, <2>5 DEF Leaders
<1>16. Awaited'
  <2>1. CASE UNCHANGED main
    BY <1>2, <2>1 DEF IInv, Awaited, Locals
  <2>2. CASE main' # main
    BY <1>4, <2>2 DEF Awaited, Foreground, Resuming
  <2> QED
    BY <2>1, <2>2
<1>17. Signals'
  <2>1. CASE UNCHANGED main
    <3>1. Segment' = Segment
      BY <2>1 DEF Segment
    <3> QED
      BY <1>1, <1>3, <2>1, <3>1 DEF IInv, Signals
  <2>2. CASE main' # main
    <3>1. tty = Shell /\ fg_running = FALSE /\ pending = {}
      BY <2>2, AtRest
    <3> QED
      BY <1>1, <1>3, <1>4, <2>2, <3>1 DEF Signals
  <2> QED
    BY <2>1, <2>2
<1>18. \A p \in Pids : p \in Zombies <=> proc[p].state = "zombie"
  BY DEF Zombies
<1>19. OnlyMember'
  <2>1. SUFFICES ASSUME NEW n \in DOMAIN jobs, OneProcess(n), jobs'[n].active
                 PROVE  \/ jobs'[n].pids = {jobs'[n].pgid}
                        \/ Gone(jobs[n].pgid)' /\ InForeground(n)' /\ ~ Suspended'
    BY <1>2, <1>8 DEF OnlyMember, Gone
  <2>2. jobs[n].active /\ jobs'[n].pids = jobs[n].pids \ Zombies /\ jobs[n].pids \ Zombies # {}
    BY <1>2, <2>1
  <2>3. CASE jobs[n].pids = {jobs[n].pgid}
    BY <1>2, <2>2, <2>3
  <2>4. CASE Gone(jobs[n].pgid) /\ InForeground(n) /\ ~ Suspended
    BY <1>1, <1>2, <1>6, <1>9, <2>4 DEF Gone, Suspended
  <2> QED
    BY <2>1, <2>2, <2>3, <2>4 DEF IInv, OnlyMember
<1>20. ASSUME NEW n \in DOMAIN jobs, OneProcess(n), jobs[n].active, ~ Gone(jobs[n].pgid)
       PROVE  jobs[n].pids = {jobs[n].pgid}
  BY <1>20 DEF IInv, OnlyMember
<1>21. AliveListed'
  <2>1. SUFFICES ASSUME NEW n \in DOMAIN jobs, PlainJob(n),
                        proc'[jobs[n].pgid].state \in {"run", "stopped"}
                 PROVE  jobs'[n].active /\ (InForeground(n)' /\ main'.pc = "done" => main'.stopped)
    BY <1>2, <1>8 DEF AliveListed, Alive
  <2>2. proc[jobs[n].pgid].state \in {"run", "stopped"}
    BY <1>1, <1>6, <2>1
  <2>3. jobs[n].active /\ (InForeground(n) /\ main.pc = "done" => main.stopped)
    BY <2>1, <2>2 DEF IInv, AliveListed, Alive
  <2>4. jobs[n].pids = {jobs[n].pgid}
    BY <1>20, <2>1, <2>2, <2>3 DEF PlainJob, Gone
  <2>5. jobs'[n].active
    BY <1>2, <1>6, <1>18, <2>2, <2>3, <2>4
  <2> QED
    BY <1>9, <2>3, <2>5
<1>22. ASSUME NEW n \in DOMAIN jobs, PlainJob(n), jobs'[n].active,
              proc'[jobs[n].pgid].state = "gone"
       PROVE  Gone(jobs[n].pgid) /\ jobs[n].active
  <2>1. jobs[n].active /\ jobs[n].pids \ Zombies # {}
    BY <1>2, <1>22
  <2>2. SUFFICES ASSUME ~ Gone(jobs[n].pgid) PROVE FALSE
    BY <2>1
  <2>3. jobs[n].pids = {jobs[n].pgid}
    BY <1>20, <1>22, <2>1, <2>2 DEF PlainJob
  <2>4. proc[jobs[n].pgid].state = "zombie"
    BY <1>1, <1>6, <1>22, <2>2 DEF Gone
  <2> QED
    BY <1>6, <1>18, <2>1, <2>3, <2>4
<1>23. ListedAlive'
  <2>1. SUFFICES ASSUME NEW n \in DOMAIN jobs, PlainJob(n), jobs'[n].active,
                        proc'[jobs[n].pgid].state = "gone"
                 PROVE  \/ InForeground(n)' /\ ~ Suspended'
                        \/ InResume(n)' /\ main'.left = 0
    BY <1>2, <1>8 DEF ListedAlive, Gone
  <2>2. \/ InForeground(n) /\ ~ Suspended
        \/ InResume(n) /\ main.left = 0
    BY <1>22, <2>1 DEF IInv, ListedAlive
  <2> QED
    BY <1>9, <2>2 DEF Suspended
<1>24. LeftCounts'
  <2>1. SUFFICES ASSUME NEW n \in DOMAIN jobs, PlainJob(n), jobs'[n].active,
                        InResume(n)'
                 PROVE  main'.left <= 1 /\ (main'.left = 0 => proc'[jobs[n].pgid].state = "gone")
    BY <1>2, <1>8 DEF LeftCounts, Gone
  <2>2. jobs[n].active /\ InResume(n) /\ UNCHANGED main
    BY <1>2, <1>9, <2>1
  <2> QED
    BY <1>1, <1>6, <2>1, <2>2 DEF IInv, LeftCounts, Gone
<1>25. StillListed'
  <2>1. SUFFICES ASSUME NEW n \in DOMAIN jobs, Unresumed(n),
                        proc'[jobs[n].pgid].state # "gone"
                 PROVE  jobs'[n].active /\ jobs[n].pgid \in jobs'[n].pids
    BY <1>2 DEF StillListed, Gone, Unresumed
  <2>2. proc[jobs[n].pgid].state \notin {"gone", "zombie"}
    BY <1>1, <1>6, <2>1
  <2>3. jobs[n].active /\ jobs[n].pgid \in jobs[n].pids
    BY <2>1, <2>2 DEF IInv, StillListed, Gone
  <2> QED
    BY <1>2, <1>6, <1>18, <2>2, <2>3
<1>26. ThenTold'
  <2>1. SUFFICES ASSUME NEW n \in DOMAIN jobs, Unresumed(n),
                        proc'[jobs[n].pgid].state = "gone"
                 PROVE  Told(jobs[n].pgid) \/ jobs[n].pgid \in ToTell
    BY <1>2, <1>3, <1>6 DEF ThenTold, Gone, Unresumed, Told
  <2>2. CASE Gone(jobs[n].pgid)
    BY <2>1, <2>2 DEF IInv, ThenTold
  <2>3. CASE ~ Gone(jobs[n].pgid)
    <3>1. proc[jobs[n].pgid].state = "zombie"
      BY <1>1, <1>6, <2>1, <2>3 DEF Gone
    <3>2. jobs[n].active /\ jobs[n].pgid \in jobs[n].pids /\ jobs[n].background
      BY <2>1, <2>3 DEF IInv, StillListed, Unresumed
    <3> QED
      BY <1>6, <1>18, <3>1, <3>2 DEF ToTell, FindJobContaining, ActiveJobs
  <2> QED
    BY <2>2, <2>3
<1> QED
  BY <1>3, <1>7, <1>10, <1>11, <1>12, <1>13, <1>14, <1>15, <1>16, <1>17, <1>19, <1>21,
     <1>23, <1>24, <1>25, <1>26 DEF IInv

(* The handler between two steps, and activities. *)
LEMMA HandlerKeeps ==
  ASSUME IInv, Handler \/ Activities
  PROVE  IInv'
<1>1. CASE Handler
  BY <1>1, ReapKeeps DEF Handler
<1>2. CASE Activities
  BY <1>2, ReapKeeps DEF Activities, AtBuiltin, IInv, Shapes
<1> QED
  BY <1>1, <1>2

-----------------------------------------------------------------------------
(* fork().                                                                 *)

(* A new child takes the next number. *)
LEMMA NewChild ==
  ASSUME IInv, NewPid \in Pids, NEW r \in ProcType, r.state = "run",
         \A n \in DOMAIN jobs : r.group # jobs[n].pgid,
         proc' = [proc EXCEPT ![NewPid] = r],
         UNCHANGED <<jobs, pending, said>>, Elsewhere, Elsewhere'
  PROVE  /\ proc' \in [Pids -> ProcType] /\ proc[NewPid].state = "none"
         /\ proc'[NewPid] = r /\ \A p \in Pids \ {NewPid} : proc'[p] = proc[p]
         /\ InTurn' /\ NewPid' = NewPid + 1 /\ Leaders' /\ Zombies' = Zombies
         /\ OnlyMember' /\ AliveListed' /\ ListedAlive' /\ LeftCounts'
         /\ StillListed' /\ ThenTold' /\ ToldOnce'
<1> DEFINE m == NewPid
<1>1. proc \in [Pids -> ProcType]
  BY DEF IInv, Shapes
<1>2. proc' \in [Pids -> ProcType] /\ proc'[m] = r /\ \A p \in Pids \ {m} : proc'[p] = proc[p]
  BY <1>1
<1>3. /\ m \in 1..(MaxPids + 1) /\ MaxPids \in Nat /\ m \in 1..MaxPids
      /\ \A p \in Pids : proc[p].state # "none" <=> p < m
  BY InTurnUsed, ConstantsAssumption DEF IInv, Pids
<1>4. proc[m].state = "none"
  BY <1>3
<1> HIDE DEF m
<1>5. InTurn' /\ NewPid' = m + 1
  <2>1. Used' = 1..m
    <3>1. ASSUME NEW p \in Pids PROVE proc'[p].state # "none" <=> p <= m
      <4>1. CASE p = m
        BY <1>2, <1>3, <4>1
      <4>2. CASE p # m
        BY <1>2, <1>3, <3>1, <4>2 DEF Pids
      <4> QED
        BY <4>1, <4>2
    <3>2. 1..m \subseteq Pids /\ \A p \in Pids : p <= m <=> p \in 1..m
      BY <1>3 DEF Pids
    <3> QED
      BY <3>1, <3>2 DEF Used
  <2>2. Cardinality(Used') = m
    BY <1>3, <2>1, FS_Interval
  <2>3. NewPid' = 1 + Cardinality(Used')
    BY DEF NewPid, Used
  <2> QED
    BY <1>3, <2>1, <2>2, <2>3 DEF InTurn
<1>6. \A n \in DOMAIN jobs : jobs[n].pgid \in Pids \ {m} /\ jobs[n].pgid < m
  <2>1. \A n \in DOMAIN jobs : jobs[n].pgid < m
    BY DEF IInv, Leaders, m
  <2> QED
    BY <1>3, <2>1, JobFields DEF IInv, Pids
<1>7. \A n \in DOMAIN jobs : Group(jobs[n].pgid)' = Group(jobs[n].pgid)
  <2> TAKE n \in DOMAIN jobs
  <2>1. proc[m].group = Shell
    BY <1>3, <1>4 DEF IInv, Groups, Pids
  <2>2. jobs[n].pgid # Shell /\ jobs[n].pgid # r.group
    BY <1>3, <1>6 DEF Pids, Shell
  <2>3. \A p \in Pids : proc'[p].group = jobs[n].pgid <=> proc[p].group = jobs[n].pgid
    BY <1>2, <2>1, <2>2
  <2> QED
    BY <2>3 DEF Group
<1>8. \A n \in DOMAIN jobs : /\ OneProcess(n)' <=> OneProcess(n)
                             /\ PlainJob(n)' <=> PlainJob(n)
  BY <1>7 DEF OneProcess, PlainJob
<1>9. \A n \in DOMAIN jobs : proc'[jobs[n].pgid] = proc[jobs[n].pgid]
  BY <1>2, <1>6
<1>10. \A n : ~ InForeground(n)' /\ ~ InResume(n)' /\ ~ InForeground(n) /\ ~ InResume(n)
  BY DEF InForeground, InResume, Elsewhere, Foreground, Resuming, Tracing
<1>11. Leaders'
  <2>1. \A n \in DOMAIN jobs : proc[jobs[n].pgid].group = jobs[n].pgid
                              /\ (jobs[n].active => jobs[n].pids # {})
    BY DEF IInv, Leaders
  <2>2. \A n, l \in DOMAIN jobs : jobs[n].pgid = jobs[l].pgid => n = l
    BY DEF IInv, Leaders
  <2>3. \A n \in DOMAIN jobs : jobs[n].pgid < NewPid'
    BY <1>3, <1>5, <1>6 DEF Pids
  <2>4. \A n \in DOMAIN jobs : proc'[jobs[n].pgid].group = jobs[n].pgid
    <3> TAKE n \in DOMAIN jobs
    <3>1. proc'[jobs[n].pgid] = proc[jobs[n].pgid]
      BY <1>9
    <3>2. proc[jobs[n].pgid].group = jobs[n].pgid
      BY <2>1
    <3> QED
      BY <3>1, <3>2
  <2> QED
    BY <2>1, <2>2, <2>3, <2>4 DEF Leaders
<1>12. OnlyMember' /\ AliveListed'
  <2>1. OnlyMember'
    BY <1>8, <1>9, <1>10 DEF IInv, OnlyMember, Gone
  <2>2. AliveListed'
    BY <1>8, <1>9, <1>10 DEF IInv, AliveListed, Alive
  <2> QED
    BY <2>1, <2>2
<1>13. ListedAlive' /\ LeftCounts'
  <2>1. ListedAlive'
    BY <1>8, <1>9, <1>10 DEF IInv, ListedAlive, Gone
  <2>2. LeftCounts'
    BY <1>10 DEF LeftCounts
  <2> QED
    BY <2>1, <2>2
<1>14. StillListed' /\ ThenTold'
  <2>1. StillListed'
    BY <1>9 DEF IInv, StillListed, Gone, Unresumed
  <2>2. ThenTold'
    BY <1>9 DEF IInv, ThenTold, Gone, Unresumed, Told
  <2> QED
    BY <2>1, <2>2
<1>15. ToldOnce'
  <2>1. ~ Told(m)
    BY <1>3, <1>4 DEF IInv, ToldOnce, Gone, Pids
  <2>2. \A p \in Pids : Told(p)' => Gone(p)'
    BY <1>2, <2>1 DEF IInv, ToldOnce, Gone, Told
  <2> QED
    BY <2>2 DEF IInv, ToldOnce
<1>16. Zombies' = Zombies
  BY <1>2, <1>4 DEF Zombies
<1> QED
  BY <1>2, <1>4, <1>5, <1>11, <1>12, <1>13, <1>14, <1>15, <1>16 DEF m

(* The numbers suffice for the stages of the line. *)
LEMMA RoomToFork ==
  ASSUME IInv, main.segments # <<>>, Forked < Len(Segment.stages),
         main.pc \in {"next", "fork"}
  PROVE  NewPid \in Pids /\ Len(main.pids) \in Nat /\ Forked \in Nat
<1>1. main.segments \in Seq(SegmentType) /\ main.pids \in Seq(Pids)
  BY MainFields DEF IInv, Segs, PidSeqs
<1>2. /\ Stages(main.segments) = Len(Segment.stages) + Stages(Tail(main.segments))
      /\ Len(Segment.stages) \in Nat /\ Stages(Tail(main.segments)) \in Nat
  BY <1>1, StagesOfRest DEF Segment
<1>3. NewPid + Stages(main.segments) <= MaxPids + 1 + Forked
  BY DEF IInv, Room
<1>4. Len(main.pids) \in Nat /\ Forked \in Nat
  BY <1>1, LenProperties DEF Forked
<1>5. NewPid \in 1..(MaxPids + 1) /\ MaxPids \in Nat
  BY InTurnUsed, ConstantsAssumption DEF IInv
<1>6. NewPid <= MaxPids
  BY <1>2, <1>3, <1>4, <1>5
<1> QED
  BY <1>4, <1>5, <1>6 DEF Pids

(* The next stage of a pipeline. *)
LEMMA ForkKeeps ==
  ASSUME IInv, Fork
  PROVE  IInv'
<1> DEFINE m == NewPid
           r == [state |-> "run", group |-> ChildGroup, gated |-> Gated, news |-> FALSE]
           k == Len(main.pids)
<1>1. /\ main.pc = "fork" /\ k < Len(Segment.stages)
      /\ proc' = [proc EXCEPT ![m] = r]
      /\ main' = [main EXCEPT !.pids = Append(@, m)]
      /\ UNCHANGED <<sigchld, tty, jobs, fg_running, pending, lines, eof_warned, said>>
  BY DEF Fork
<1>2. main.segments # <<>>
  BY <1>1 DEF IInv, Locals
<1>3. m \in Pids /\ k \in Nat /\ main.pids \in Seq(Pids) /\ DOMAIN main.pids = 1..k
  <2>1. Forked = k
    BY <1>1 DEF Forked
  <2>2. main.pids \in Seq(Pids)
    BY MainFields DEF IInv, PidSeqs
  <2> QED
    BY <1>1, <1>2, <2>1, <2>2, RoomToFork, LenProperties
<1>4. Append(main.pids, m) \in PidSeqs
  BY <1>3 DEF PidSeqs
<1>5. /\ main' \in MainType /\ main'.pc = "fork" /\ main'.segments = main.segments
      /\ main'.pids = Append(main.pids, m)
  <2>1. main \in MainType
    BY DEF IInv, Shapes
  <2> HIDE DEF Segs, PidSeqs, Pcs, m
  <2> QED
    BY <1>1, <1>4, <2>1 DEF MainType
<1> HIDE DEF m, k
<1>6. /\ Len(main'.pids) = k + 1
      /\ \A i \in 1..k : main'.pids[i] = main.pids[i]
      /\ main'.pids[k + 1] = m /\ main'.pids # <<>>
  BY <1>3, <1>5, AppendProperties, EmptySeq DEF k
<1>7. /\ m \in 1..MaxPids /\ MaxPids \in Nat
      /\ \A p \in Pids : proc[p].state # "none" <=> p < m
  BY <1>3, InTurnUsed, ConstantsAssumption DEF IInv, Pids, m
<1>8. ASSUME k # 0
      PROVE  /\ main.pids[1] \in Pids /\ main.pids[1] < m
             /\ proc[main.pids[1]].group = main.pids[1]
             /\ \A n \in DOMAIN jobs : jobs[n].pgid # main.pids[1]
             /\ \A i \in 1..k : /\ main.pids[i] \in Pids /\ main.pids[i] < m
                                /\ proc[main.pids[i]].group = main.pids[1] \/ Gone(main.pids[1])
             /\ Segment.term = "&" => Alive(main.pids[1]) /\ proc[main.pids[1]].gated
  <2>2. main.pids # <<>> /\ 1 \in 1..k
    BY <1>3, <1>8, EmptySeq DEF k
  <2>3. \A i \in 1..k : main.pids[i] \in Pids
    BY <1>3, ElementOfSeq DEF k
  <2>4. \A i \in 1..k : main.pids[i] < m
    BY <1>1 DEF IInv, Locals, k, m
  <2> QED
    BY <1>1, <2>2, <2>3, <2>4 DEF IInv, Pipeline, k
<1>9. ChildGroup \in {m, Shell} \cup (IF k = 0 THEN {} ELSE {main.pids[1]})
      /\ (k = 0 => ChildGroup = m)
      /\ (k # 0 /\ ChildGroup # main.pids[1] => Gone(main.pids[1]))
  <2>1. CASE k = 0
    <3>1. main.pids = <<>>
      BY <1>3, <2>1, EmptySeq DEF k
    <3> QED
      BY <2>1, <3>1 DEF ChildGroup, m
  <2>2. CASE k # 0
    <3>1. main.pids # <<>>
      BY <1>3, <2>2, EmptySeq DEF k
    <3>2. ~ Gone(main.pids[1]) => main.pids[1] \in Unreaped(main.pids[1])
      BY <1>7, <1>8, <2>2 DEF Gone, Unreaped, Group
    <3> QED
      BY <2>2, <3>1, <3>2 DEF ChildGroup
  <2> QED
    BY <2>1, <2>2
<1>10. r \in ProcType /\ r.state = "run" /\ r.group = ChildGroup /\ r.gated = Gated
  <2>1. ChildGroup \in Pids \cup {Shell}
    BY <1>3, <1>8, <1>9
  <2>2. Gated \in BOOLEAN
    BY DEF Gated
  <2> QED
    BY <2>1, <2>2 DEF ProcType
<1> HIDE DEF r
<1>11. \A n \in DOMAIN jobs : r.group # jobs[n].pgid
  <2> TAKE n \in DOMAIN jobs
  <2>1. jobs[n].pgid \in Pids /\ jobs[n].pgid < m
    BY JobFields DEF IInv, Leaders, m
  <2>2. jobs[n].pgid # m /\ jobs[n].pgid # Shell
    BY <1>7, <2>1 DEF Pids, Shell
  <2> QED
    BY <1>8, <1>9, <1>10, <2>2
<1>12. Elsewhere /\ Elsewhere'
  BY <1>1, <1>5 DEF Elsewhere
<1>13. /\ proc' \in [Pids -> ProcType] /\ proc[m].state = "none"
       /\ proc'[m] = r /\ \A p \in Pids \ {m} : proc'[p] = proc[p]
       /\ InTurn' /\ NewPid' = m + 1 /\ Leaders' /\ Zombies' = Zombies
       /\ OnlyMember' /\ AliveListed' /\ ListedAlive' /\ LeftCounts'
       /\ StillListed' /\ ThenTold' /\ ToldOnce'
  BY <1>1, <1>3, <1>10, <1>11, <1>12, NewChild DEF m
<1>14. Segment' = Segment
  BY <1>5 DEF Segment
<1>15. Shapes'
  BY <1>1, <1>5, <1>13 DEF IInv, Shapes
<1>16. Room'
  <2>1. Forked = k /\ Forked' = k + 1
    BY <1>1, <1>5, <1>6 DEF Forked, k
  <2>2. Stages(main.segments) \in Nat
    BY MainFields, StagesOfRest DEF IInv, Segs
  <2>3. m + Stages(main.segments) <= MaxPids + 1 + k
    BY <1>1, <2>1 DEF IInv, Room, m
  <2>4. m + 1 + Stages(main.segments) <= MaxPids + 1 + (k + 1)
    BY <1>3, <1>7, <2>2, <2>3
  <2> QED
    BY <1>5, <1>13, <2>1, <2>4 DEF Room
<1>17. Locals'
  <2>1. k < m
    BY <1>1 DEF IInv, Locals, k, m
  <2>2. Len(Segment.stages) \in Nat
    BY <1>2, SegmentStages DEF Segment, IInv, Shapes
  <2>3. k + 1 <= Len(Segment.stages) /\ k + 1 < m + 1
    BY <1>1, <1>3, <1>7, <2>1, <2>2 DEF k
  <2>4. \A i \in 1..(k + 1) : main'.pids[i] < m + 1
    <3> TAKE i \in 1..(k + 1)
    <3>1. CASE i = k + 1
      BY <1>6, <1>7, <3>1
    <3>2. CASE i # k + 1
      <4>1. i \in 1..k /\ k # 0
        BY <1>3, <3>2
      <4>2. main'.pids[i] < m /\ main'.pids[i] \in Pids
        BY <1>6, <1>8, <4>1
      <4> QED
        BY <1>7, <4>2 DEF Pids
    <3> QED
      BY <3>1, <3>2
  <2>5. main'.pc \notin {"wait", "rwait"} \cup Foreground \cup Resuming \cup {"rterminal"}
    BY <1>5 DEF Foreground, Resuming
  <2> QED
    BY <1>2, <1>5, <1>6, <1>13, <1>14, <2>3, <2>4, <2>5 DEF Locals
<1>18. Groups'
  <2>1. \A p \in Pids : proc'[p].state = "none" => proc'[p].group = Shell
    BY <1>10, <1>13 DEF IInv, Groups
  <2> QED
    BY <1>5, <2>1 DEF Groups, Tracing
<1>19. Pipeline'
  <2>1. CASE k = 0
    <3>1. main'.pids[1] = m /\ Len(main'.pids) = 1 /\ r.group = m
      BY <1>6, <1>9, <1>10, <2>1
    <3>2. Segment.term = "&" => r.gated
      <4>1. main.pids = <<>>
        BY <1>3, <2>1, EmptySeq DEF k
      <4> QED
        BY <1>10, <4>1 DEF Gated
    <3>3. \A n \in DOMAIN jobs' : jobs'[n].pgid # m
      BY <1>1, <1>10, <1>11, <3>1
    <3>4. \A i \in 1..1 : main'.pids[i] = m
      BY <3>1
    <3> QED
      BY <1>3, <1>10, <1>13, <1>14, <3>1, <3>2, <3>3, <3>4 DEF Pipeline, Alive
  <2>2. CASE k # 0
    <3> DEFINE g == main.pids[1]
    <3>1. main'.pids[1] = g /\ g \in Pids \ {m} /\ proc'[g] = proc[g]
      <4>1. 1 \in 1..k
        BY <1>3, <2>2
      <4>2. main'.pids[1] = g
        BY <1>6, <4>1
      <4>3. g \in Pids /\ g # m
        BY <1>7, <1>8, <2>2
      <4> QED
        BY <1>13, <4>2, <4>3
    <3>2. ASSUME NEW i \in 1..(k + 1)
          PROVE  proc'[main'.pids[i]].group = g \/ proc'[g].state = "gone"
      <4>1. CASE i = k + 1
        BY <1>6, <1>9, <1>10, <1>13, <2>2, <3>1, <4>1 DEF Gone
      <4>2. CASE i # k + 1
        <5>1. i \in 1..k
          BY <1>3, <4>2
        <5>2. main'.pids[i] = main.pids[i] /\ main.pids[i] \in Pids \ {m}
          BY <1>6, <1>7, <1>8, <2>2, <5>1
        <5> QED
          BY <1>8, <1>13, <2>2, <3>1, <5>1, <5>2 DEF Gone
      <4> QED
        BY <4>1, <4>2
    <3> HIDE DEF g
    <3>3. proc'[g].group = g /\ (Segment.term = "&" => proc'[g].state \in {"run", "stopped"} /\ proc'[g].gated)
          /\ \A n \in DOMAIN jobs' : jobs'[n].pgid # g
      BY <1>1, <1>8, <2>2, <3>1 DEF Alive, g
    <3> QED
      BY <1>6, <1>14, <3>1, <3>2, <3>3 DEF Pipeline, Gone, Alive
  <2> QED
    BY <2>1, <2>2
<1>20. Awaited'
  BY <1>5 DEF Awaited, Foreground, Resuming
<1>21. Signals'
  BY <1>1, <1>5, <1>13, <1>14 DEF IInv, Signals
<1> QED
  BY <1>13, <1>15, <1>16, <1>17, <1>18, <1>19, <1>20, <1>21 DEF IInv

(* snoop forks the child it traces. *)
LEMMA SnoopKeeps ==
  ASSUME IInv, Snoop
  PROVE  IInv'
<1> DEFINE m == NewPid
           r == [state |-> "run", group |-> Shell, gated |-> FALSE, news |-> FALSE]
<1>1. /\ main.pc = "next" /\ main.segments # <<>> /\ Len(Segment.stages) = 1
      /\ \/ main' = Drop("next") /\ UNCHANGED proc
         \/ /\ proc' = [proc EXCEPT ![m] = r]
            /\ main' = [main EXCEPT !.pc = "trace_wait", !.pids = <<m>>, !.left = 1]
      /\ UNCHANGED <<sigchld, tty, jobs, fg_running, pending, lines, eof_warned, said>>
  BY DEF Snoop, AtBuiltin, IsBuiltin
<1>2. CASE main' = Drop("next") /\ UNCHANGED proc
  <2>1. NewPid' = NewPid
    BY <1>2 DEF NewPid
  <2>2. main' \in MainType /\ main'.pc = "next" /\ Room'
    BY <1>1, <1>2, <2>1, DropFields, DropRoom DEF IInv, Pcs
  <2>3. Shapes'
    BY <1>1, <1>2, <2>2 DEF IInv, Shapes
  <2>4. fg_running' = FALSE
    BY <1>1, AtRest
  <2> QED
    BY <1>1, <1>2, <2>2, <2>3, <2>4, RestKeeps
<1>3. CASE /\ proc' = [proc EXCEPT ![m] = r]
           /\ main' = [main EXCEPT !.pc = "trace_wait", !.pids = <<m>>, !.left = 1]
  <2>1. m \in Pids
    <3>1. Forked = 0
      BY <1>1 DEF Forked, Foreground, Tracing
    <3> QED
      BY <1>1, <3>1, RoomToFork
  <2>2. m \in 1..MaxPids /\ MaxPids \in Nat
    BY <2>1, ConstantsAssumption DEF Pids
  <2>3. /\ main' \in MainType /\ main'.pc = "trace_wait" /\ main'.segments = main.segments
        /\ main'.pids = <<m>>
    <3>1. main \in MainType /\ <<m>> \in PidSeqs /\ 1 \in 0..MaxPids
      BY <2>1, <2>2 DEF IInv, Shapes, PidSeqs
    <3> HIDE DEF Segs, PidSeqs, m
    <3> QED
      BY <1>3, <3>1 DEF MainType, Pcs, Tracing
  <2> HIDE DEF m
  <2>4. r \in ProcType
    BY DEF ProcType
  <2>5. \A n \in DOMAIN jobs : r.group # jobs[n].pgid
    BY <2>2, JobFields DEF IInv, Pids, Shell
  <2>6. Elsewhere /\ Elsewhere'
    BY <1>1, <2>3 DEF Elsewhere, Tracing
  <2>7. /\ proc' \in [Pids -> ProcType] /\ proc[m].state = "none"
        /\ proc'[m] = r /\ \A p \in Pids \ {m} : proc'[p] = proc[p]
        /\ InTurn' /\ NewPid' = m + 1 /\ Leaders' /\ Zombies' = Zombies
        /\ OnlyMember' /\ AliveListed' /\ ListedAlive' /\ LeftCounts'
        /\ StillListed' /\ ThenTold' /\ ToldOnce'
    <3> HIDE DEF r
    <3>1. r.state = "run"
      BY DEF r
    <3> QED
      BY <1>1, <1>3, <2>1, <2>4, <2>5, <2>6, <3>1, NewChild DEF m
  <2>8. Segment' = Segment
    BY <2>3 DEF Segment
  <2>9. Shapes'
    BY <1>1, <2>3, <2>7 DEF IInv, Shapes
  <2>10. Len(main'.pids) = 1 /\ main'.pids[1] = m /\ \A i \in 1..1 : main'.pids[i] = m
    BY <2>3
  <2>11. Room'
    <3>1. Forked = 0 /\ Forked' = 1
      BY <1>1, <2>3, <2>10 DEF Forked, Foreground, Tracing
    <3>2. Stages(main.segments) \in Nat
      BY MainFields, StagesOfRest DEF IInv, Segs
    <3>3. m + Stages(main.segments) <= MaxPids + 1 + 0
      BY <1>1, <3>1 DEF IInv, Room, m
    <3>4. m + 1 + Stages(main.segments) <= MaxPids + 1 + 1
      BY <2>2, <3>2, <3>3
    <3> QED
      BY <2>3, <2>7, <3>1, <3>4 DEF Room
  <2>12. Locals'
    <3>1. 1 < m + 1 /\ m < m + 1
      BY <2>2
    <3>2. main'.pc \notin {"wait", "rwait", "rterminal"} \cup Foreground \cup Resuming
      BY <2>3 DEF Foreground, Resuming
    <3>3. 1 <= Len(Segment'.stages)
      <4>1. Len(Segment'.stages) = Len(Segment.stages)
        BY <2>8
      <4> QED
        BY <1>1, <4>1
    <3> QED
      BY <1>1, <2>3, <2>7, <2>10, <3>1, <3>2, <3>3 DEF Locals
  <2>13. Groups'
    BY <2>1, <2>3, <2>7, <2>10 DEF IInv, Groups
  <2>14. Pipeline'
    BY <2>3 DEF Pipeline
  <2>15. Awaited'
    BY <2>3 DEF Awaited, Foreground, Resuming
  <2>16. Signals'
    <3>1. tty = Shell /\ fg_running = FALSE /\ pending = {}
      BY <1>1, AtRest
    <3> QED
      BY <1>1, <2>7, <3>1 DEF IInv, Signals
  <2> QED
    BY <2>7, <2>9, <2>11, <2>12, <2>13, <2>14, <2>15, <2>16 DEF IInv
<1> QED
  BY <1>1, <1>2, <1>3

-----------------------------------------------------------------------------
(* register_job().                                                         *)

(* The row of a job that is registered. *)
LEMMA NewJob ==
  ASSUME IInv, main.pc = "fork", Len(main.pids) = Len(Segment.stages),
         jobs' = RegisterJob(main.pids[1], ToSet(main.pids), Segment.term = "&")
  PROVE  /\ jobs' \in Seq(JobType) /\ DOMAIN jobs' = 1..(Len(jobs) + 1)
         /\ Len(jobs) \in Nat /\ DOMAIN jobs = 1..Len(jobs)
         /\ \A n \in DOMAIN jobs : jobs'[n] = jobs[n]
         /\ LET j == jobs'[Len(jobs) + 1] IN
            /\ j.pgid = main.pids[1] /\ j.pids = {main.pids[i] : i \in 1..Len(main.pids)}
            /\ j.background = (Segment.term = "&") /\ j.active = TRUE /\ j.resumed = "never"
         /\ main.pids # <<>> /\ 1 \in 1..Len(main.pids)
         /\ \A i \in 1..Len(main.pids) : main.pids[i] \in Pids
<1> DEFINE row == [pgid |-> main.pids[1], pids |-> ToSet(main.pids), state |-> "Running",
                   background |-> Segment.term = "&", active |-> TRUE, resumed |-> "never"]
<1>1. jobs' = Append(jobs, row)
  BY DEF RegisterJob
<1>2. main.pids \in Seq(Pids) /\ DOMAIN main.pids = 1..Len(main.pids) /\ Len(main.pids) \in Nat
  BY MainFields, LenProperties DEF IInv, PidSeqs
<1>3. Len(main.pids) # 0
  <2>1. main \in MainType /\ main.segments # <<>>
    BY DEF IInv, Shapes, Locals
  <2> QED
    BY <2>1, SegmentStages DEF Segment
<1>4. main.pids # <<>> /\ 1 \in 1..Len(main.pids)
  BY <1>2, <1>3, EmptySeq
<1>5. \A i \in 1..Len(main.pids) : main.pids[i] \in Pids
  BY <1>2, ElementOfSeq
<1>6. ToSet(main.pids) = {main.pids[i] : i \in 1..Len(main.pids)}
  BY <1>2 DEF ToSet
<1>7. row \in JobType
  <2>1. main.pids[1] \in Pids /\ ToSet(main.pids) \in SUBSET Pids
    BY <1>4, <1>5, <1>6
  <2>2. (Segment.term = "&") \in BOOLEAN
    OBVIOUS
  <2> QED
    BY <2>1, <2>2 DEF JobType
<1>8. jobs \in Seq(JobType) /\ Len(jobs) \in Nat /\ DOMAIN jobs = 1..Len(jobs)
  BY LenProperties DEF IInv, Shapes
<1> HIDE DEF row
<1>9. /\ jobs' \in Seq(JobType) /\ Len(jobs') = Len(jobs) + 1
      /\ \A n \in 1..Len(jobs) : jobs'[n] = jobs[n]
      /\ jobs'[Len(jobs) + 1] = row
  BY <1>1, <1>7, <1>8, AppendProperties
<1>10. DOMAIN jobs' = 1..(Len(jobs) + 1)
  BY <1>9, LenProperties
<1>11. /\ row.pgid = main.pids[1] /\ row.pids = {main.pids[i] : i \in 1..Len(main.pids)}
       /\ row.background = (Segment.term = "&") /\ row.active = TRUE /\ row.resumed = "never"
  BY <1>6 DEF row
<1> QED
  BY <1>4, <1>5, <1>8, <1>9, <1>10, <1>11

(* Every stage is forked: the job is in the table. *)
LEMMA RegisterKeeps ==
  ASSUME IInv, Register
  PROVE  IInv'
<1> DEFINE g == main.pids[1]  bg == Segment.term = "&"  k == Len(main.pids)
<1>z. PICK z : z = Len(jobs) + 1
  OBVIOUS
<1>1. /\ main.pc = "fork" /\ k = Len(Segment.stages)
      /\ jobs' = RegisterJob(g, ToSet(main.pids), bg)
      /\ bg => proc' = OpenGate /\ main' = Drop("next")
      /\ ~ bg => UNCHANGED proc /\ main' = [main EXCEPT !.pc = "terminal", !.job = z]
      /\ UNCHANGED <<sigchld, tty, fg_running, pending, lines, eof_warned, said>>
  BY <1>z DEF Register
<1>2. /\ jobs' \in Seq(JobType) /\ DOMAIN jobs' = 1..z
      /\ Len(jobs) \in Nat /\ DOMAIN jobs = 1..Len(jobs)
      /\ \A n \in DOMAIN jobs : jobs'[n] = jobs[n]
      /\ jobs'[z].pgid = g /\ jobs'[z].pids = {main.pids[i] : i \in 1..k}
      /\ jobs'[z].background = bg /\ jobs'[z].active = TRUE /\ jobs'[z].resumed = "never"
      /\ main.pids # <<>> /\ 1 \in 1..k
      /\ \A i \in 1..k : main.pids[i] \in Pids
  BY <1>1, <1>z, NewJob
<1>3. z \in Nat /\ z \notin DOMAIN jobs /\ DOMAIN jobs' = DOMAIN jobs \cup {z}
      /\ \A n \in DOMAIN jobs : n # z
  BY <1>2, <1>z
<1>4. /\ proc[g].group = g /\ g \in Pids /\ g < NewPid
      /\ \A n \in DOMAIN jobs : jobs[n].pgid # g
      /\ \A i \in 1..k : proc[main.pids[i]].group = g \/ Gone(g)
      /\ bg => Alive(g) /\ proc[g].gated
  BY <1>1, <1>2 DEF IInv, Pipeline, Locals
<1>5. main.segments # <<>> /\ k < NewPid
  BY <1>1 DEF IInv, Locals
<1>6. /\ proc' \in [Pids -> ProcType]
      /\ \A p \in Pids : proc'[p].state = proc[p].state /\ proc'[p].group = proc[p].group
  <2>1. proc \in [Pids -> ProcType]
    BY DEF IInv, Shapes
  <2>2. CASE bg
    <3>1. \A p \in Pids : proc'[p] = IF p = g THEN [proc[p] EXCEPT !.gated = FALSE] ELSE proc[p]
      BY <1>1, <2>2 DEF OpenGate
    <3>2. \A p \in Pids : proc'[p] \in ProcType /\ proc'[p].state = proc[p].state
                                               /\ proc'[p].group = proc[p].group
      <4> TAKE p \in Pids
      <4>1. proc[p] \in ProcType
        BY <2>1
      <4>2. CASE p = g
        <5>1. proc'[p] = [proc[p] EXCEPT !.gated = FALSE]
          BY <3>1, <4>2
        <5> QED
          BY <4>1, <5>1 DEF ProcType
      <4>3. CASE p # g
        BY <3>1, <4>1, <4>3
      <4> QED
        BY <4>2, <4>3
    <3> QED
      BY <1>1, <2>2, <3>2 DEF OpenGate
  <2>3. CASE ~ bg
    BY <1>1, <2>1, <2>3
  <2> QED
    BY <2>2, <2>3
<1>7. /\ main' \in MainType /\ main'.pids = main.pids
      /\ bg => main'.pc = "next" /\ main'.segments = Tail(main.segments)
      /\ ~ bg => main'.pc = "terminal" /\ main'.segments = main.segments /\ main'.job = z
  <2>1. CASE bg
    BY <1>1, <1>5, <2>1, DropFields DEF IInv, Pcs
  <2>2. CASE ~ bg
    <3>1. main \in MainType
      BY DEF IInv, Shapes
    <3>2. main' = [main EXCEPT !.pc = "terminal", !.job = z]
      BY <1>1, <2>2
    <3> HIDE DEF Segs, PidSeqs, bg
    <3> QED
      BY <1>3, <2>2, <3>1, <3>2 DEF MainType, Pcs, Foreground
  <2> QED
    BY <2>1, <2>2
<1> HIDE DEF g, bg, k
<1>8. ~ bg => Segment' = Segment
  BY <1>7 DEF Segment
<1>9. \A p \in Pids : Moved(p)
  BY <1>6 DEF Moved
<1>10. InTurn' /\ NewPid' = NewPid /\ NewPid \in Nat /\ k \in Nat /\ MaxPids \in Nat
  <2>1. k \in Nat
    BY MainFields, LenProperties DEF IInv, PidSeqs, k
  <2> QED
    BY <1>9, <2>1, SameInTurn, InTurnUsed, ConstantsAssumption DEF IInv, Moved
<1>11. Shapes'
  BY <1>1, <1>2, <1>6, <1>7 DEF IInv, Shapes
<1>12. Room'
  <2>1. NewPid + Stages(main.segments) <= MaxPids + 1 + k
    BY <1>1 DEF IInv, Room, Forked, k
  <2>2. /\ Stages(main.segments) = k + Stages(Tail(main.segments))
        /\ Stages(Tail(main.segments)) \in Nat
    BY <1>1, <1>5, MainFields, StagesOfRest DEF IInv, Segment, Segs
  <2>3. CASE bg
    <3>1. NewPid' + Stages(main'.segments) <= MaxPids + 1 + 0
      BY <1>7, <1>10, <2>1, <2>2, <2>3
    <3>2. Forked' = 0
      BY <1>7, <2>3 DEF Forked, Foreground, Tracing
    <3> QED
      BY <3>1, <3>2 DEF Room
  <2>4. CASE ~ bg
    <3>1. Forked' = k
      BY <1>7, <2>4 DEF Forked, Foreground, k
    <3> QED
      BY <1>7, <1>10, <2>1, <2>4, <3>1 DEF Room
  <2> QED
    BY <2>3, <2>4
<1>13. Locals'
  <2>1. CASE bg
    BY <1>7, <2>1 DEF Locals, Foreground, Resuming, Tracing
  <2>2. CASE ~ bg
    <3>1. \A i \in 1..k : main.pids[i] < NewPid
      BY <1>1 DEF IInv, Locals, k
    <3>2. k > 0 /\ k <= k
      BY <1>2, <1>10
    <3>3. k = Len(Segment'.stages)
      BY <1>1, <1>8, <2>2
    <3>4. main'.job \in DOMAIN jobs'
      BY <1>3, <1>7, <2>2
    <3>5. k = Len(main'.pids) /\ main'.segments # <<>> /\ main'.pc = "terminal"
      BY <1>5, <1>7, <2>2 DEF k
    <3> QED
      BY <1>5, <1>7, <1>10, <3>1, <3>2, <3>3, <3>4, <3>5 DEF Locals
  <2> QED
    BY <2>1, <2>2
<1>14. Groups'
  <2>1. \A p \in Pids : proc'[p].state = "none" => proc'[p].group = Shell
    BY <1>6 DEF IInv, Groups
  <2> QED
    BY <1>7, <2>1 DEF Groups, Tracing
<1>15. Pipeline'
  BY <1>7 DEF Pipeline
<1>16. \A n \in DOMAIN jobs : jobs[n].pgid \in Pids
  BY JobFields DEF IInv
<1>17. Leaders'
  <2>1. \A n \in DOMAIN jobs : jobs[n].pgid < NewPid /\ proc[jobs[n].pgid].group = jobs[n].pgid
                              /\ (jobs[n].active => jobs[n].pids # {})
    BY DEF IInv, Leaders
  <2>2. \A n, l \in DOMAIN jobs : jobs[n].pgid = jobs[l].pgid => n = l
    BY DEF IInv, Leaders
  <2>3. ASSUME NEW n \in DOMAIN jobs'
        PROVE  /\ jobs'[n].pgid < NewPid' /\ proc'[jobs'[n].pgid].group = jobs'[n].pgid
               /\ jobs'[n].active => jobs'[n].pids # {}
    <3>1. CASE n = z
      <4>1. g < NewPid' /\ proc'[g].group = g
        BY <1>4, <1>6, <1>10
      <4>2. main.pids[1] \in {main.pids[i] : i \in 1..k}
        BY <1>2
      <4>3. jobs'[n].pids # {} /\ jobs'[n].pgid = g
        BY <1>2, <3>1, <4>2
      <4> QED
        BY <4>1, <4>3
    <3>2. CASE n # z
      <4>1. n \in DOMAIN jobs
        BY <1>3, <3>2
      <4> QED
        BY <1>2, <1>6, <1>10, <1>16, <2>1, <4>1
    <3> QED
      BY <3>1, <3>2
  <2>4. ASSUME NEW n \in DOMAIN jobs', NEW l \in DOMAIN jobs', jobs'[n].pgid = jobs'[l].pgid
        PROVE  n = l
    BY <1>2, <1>3, <1>4, <2>2, <2>4
  <2> QED
    BY <2>3, <2>4 DEF Leaders
<1>18. \A n \in DOMAIN jobs : /\ OneProcess(n)' <=> OneProcess(n)
                              /\ PlainJob(n)' <=> PlainJob(n)
  BY <1>2, <1>6 DEF OneProcess, PlainJob, Group
<1>19. /\ \A n : ~ InForeground(n) /\ ~ InResume(n) /\ ~ InResume(n)'
       /\ \A n \in DOMAIN jobs : ~ InForeground(n)'
       /\ ~ bg => InForeground(z)'
       /\ ~ Suspended' /\ main'.pc # "done"
  <2>1. main.pc \notin Foreground \cup Resuming /\ main'.pc \notin Resuming /\ main'.pc # "done"
    BY <1>1, <1>7 DEF Foreground, Resuming
  <2>2. bg => main'.pc \notin Foreground
    BY <1>7 DEF Foreground
  <2>3. ~ bg => main'.pc \in Foreground /\ main'.job = z
    BY <1>7 DEF Foreground
  <2>4. \A n \in DOMAIN jobs : ~ (main'.job = n /\ main'.pc \in Foreground)
    BY <1>3, <2>2, <2>3
  <2> QED
    BY <2>1, <2>3, <2>4 DEF InForeground, InResume, Suspended
<1>20. OneProcess(z)' => jobs'[z].pids = {g} \/ (Gone(g) /\ ~ bg)
  <2>1. SUFFICES ASSUME OneProcess(z)', ~ (Gone(g) /\ ~ bg) PROVE jobs'[z].pids = {g}
    OBVIOUS
  <2>2. ~ Gone(g)
    BY <1>4, <2>1 DEF Gone, Alive
  <2>a. {p \in Pids : proc'[p].group = jobs'[z].pgid} = {jobs'[z].pgid}
    BY <2>1 DEF OneProcess, Group
  <2>3. \A p \in Pids : proc'[p].group = g => p = g
    BY <1>2, <2>a
  <2>4. \A i \in 1..k : main.pids[i] = g
    BY <1>2, <1>4, <1>6, <2>2, <2>3
  <2> QED
    BY <1>2, <2>4
<1>21. OnlyMember'
  <2>1. SUFFICES ASSUME NEW n \in DOMAIN jobs', OneProcess(n)', jobs'[n].active
                 PROVE  \/ jobs'[n].pids = {jobs'[n].pgid}
                        \/ proc'[jobs'[n].pgid].state = "gone" /\ InForeground(n)' /\ ~ Suspended'
    BY DEF OnlyMember, Gone
  <2>2. CASE n = z
    <3>1. jobs'[n].pgid = g /\ proc'[g].state = proc[g].state
      BY <1>2, <1>4, <1>6, <2>2
    <3>2. jobs'[n].pids = {g} \/ (proc[g].state = "gone" /\ ~ bg)
      BY <1>20, <2>1, <2>2 DEF Gone
    <3> QED
      BY <1>19, <2>2, <3>1, <3>2
  <2>3. CASE n # z
    <3>1. n \in DOMAIN jobs
      BY <1>3, <2>3
    <3> QED
      BY <1>2, <1>18, <1>19, <2>1, <3>1 DEF IInv, OnlyMember
  <2> QED
    BY <2>2, <2>3
<1>22. AliveListed'
  <2>1. SUFFICES ASSUME NEW n \in DOMAIN jobs', PlainJob(n)',
                        proc'[jobs'[n].pgid].state \in {"run", "stopped"}
                 PROVE  jobs'[n].active
    BY <1>19 DEF AliveListed, Alive
  <2>2. CASE n = z
    BY <1>2, <2>2
  <2>3. CASE n # z
    <3>1. n \in DOMAIN jobs
      BY <1>3, <2>3
    <3> QED
      BY <1>2, <1>6, <1>16, <1>18, <2>1, <3>1 DEF IInv, AliveListed, Alive
  <2> QED
    BY <2>2, <2>3
<1>23. ListedAlive'
  <2>1. SUFFICES ASSUME NEW n \in DOMAIN jobs', PlainJob(n)', jobs'[n].active,
                        proc'[jobs'[n].pgid].state = "gone"
                 PROVE  InForeground(n)' /\ ~ Suspended'
    BY DEF ListedAlive, Gone
  <2>2. CASE n = z
    <3>1. jobs'[n].pgid = g /\ proc'[g].state = proc[g].state
      BY <1>2, <1>4, <1>6, <2>2
    <3>2. ~ bg
      BY <1>4, <2>1, <3>1 DEF Alive
    <3> QED
      BY <1>19, <2>2, <3>2
  <2>3. CASE n # z
    <3>1. n \in DOMAIN jobs
      BY <1>3, <2>3
    <3> QED
      BY <1>2, <1>6, <1>16, <1>18, <1>19, <2>1, <3>1 DEF IInv, ListedAlive, Gone
  <2> QED
    BY <2>2, <2>3
<1>24. LeftCounts'
  BY <1>19 DEF LeftCounts
<1>25. StillListed'
  <2>1. SUFFICES ASSUME NEW n \in DOMAIN jobs', Unresumed(n)',
                        proc'[jobs'[n].pgid].state # "gone"
                 PROVE  jobs'[n].active /\ jobs'[n].pgid \in jobs'[n].pids
    BY DEF StillListed, Gone
  <2>2. CASE n = z
    <3>1. g \in {main.pids[i] : i \in 1..k}
      BY <1>2 DEF g
    <3> QED
      BY <1>2, <2>2, <3>1
  <2>3. CASE n # z
    <3>1. n \in DOMAIN jobs
      BY <1>3, <2>3
    <3> QED
      BY <1>2, <1>6, <1>16, <2>1, <3>1 DEF IInv, StillListed, Gone, Unresumed
  <2> QED
    BY <2>2, <2>3
<1>26. ThenTold'
  <2>1. SUFFICES ASSUME NEW n \in DOMAIN jobs', Unresumed(n)',
                        proc'[jobs'[n].pgid].state = "gone"
                 PROVE  \/ jobs'[n].pgid \in pending' \/ said'[jobs'[n].pgid].lost
                        \/ said'[jobs'[n].pgid].times = 1
    BY DEF ThenTold, Gone, Told
  <2>2. CASE n = z
    <3>1. jobs'[n].pgid = g /\ proc'[g].state = proc[g].state /\ bg
      BY <1>2, <1>4, <1>6, <2>1, <2>2 DEF Unresumed
    <3> QED
      BY <1>4, <2>1, <3>1 DEF Alive
  <2>3. CASE n # z
    <3>1. n \in DOMAIN jobs
      BY <1>3, <2>3
    <3>2. jobs[n].background /\ jobs[n].resumed = "never" /\ proc[jobs[n].pgid].state = "gone"
      BY <1>2, <1>6, <1>16, <2>1, <3>1 DEF Unresumed
    <3>3. \/ jobs[n].pgid \in pending \/ said[jobs[n].pgid].lost
          \/ said[jobs[n].pgid].times = 1
      BY <3>1, <3>2 DEF IInv, ThenTold, Gone, Unresumed, Told
    <3> QED
      BY <1>1, <1>2, <3>1, <3>3
  <2> QED
    BY <2>2, <2>3
<1>27. ToldOnce'
  BY <1>1, <1>6 DEF IInv, ToldOnce, Gone, Told
<1>28. Awaited'
  BY <1>2, <1>7 DEF Awaited, Foreground, Resuming
<1>29. Signals'
  <2>1. Zombies' = Zombies
    BY <1>6 DEF Zombies
  <2>2. tty = Shell
    BY <1>1 DEF IInv, Signals, Resuming
  <2>3. bg => fg_running = FALSE
    BY <1>1 DEF IInv, Signals, Shapes, bg
  <2> QED
    BY <1>1, <1>7, <2>1, <2>2, <2>3 DEF IInv, Signals, Foreground
<1> QED
  BY <1>10, <1>11, <1>12, <1>13, <1>14, <1>15, <1>17, <1>21, <1>22, <1>23, <1>24, <1>25,
     <1>26, <1>27, <1>28, <1>29 DEF IInv

-----------------------------------------------------------------------------
(* Waiting for a job: run_foreground() and resume.                         *)

(* A step of the shell while it waits for job j: other jobs' processes only  *)
(* move, and what is known of the one process of j stays true.               *)
LEMMA WaitKeeps ==
  ASSUME IInv, NEW j, j = main.job,
         main.pc \in Foreground \cup Resuming \cup {"rterminal"},
         main' \in MainType, main'.segments = main.segments, main'.pids = main.pids,
         main'.job = j, main'.how = main.how,
         main.pc \in Foreground => main'.pc \in {"wait", "done"},
         main.pc \notin Foreground => main'.pc \in Resuming,
         main'.pc \in {"wait", "rwait"} => main'.left > 0,
         main'.pc = "wait" => ~ main'.stopped,
         main'.pc \in Resuming /\ main'.timer # "off" =>
           main.how = "timed" \/ (main.pc \in Resuming /\ main.timer # "off"),
         proc' \in [Pids -> ProcType],
         \A p \in Pids : /\ proc'[p].group = proc[p].group
                         /\ proc'[p].state = "none" <=> proc[p].state = "none"
                         /\ proc'[p].state = "zombie" => proc[p].state = "zombie"
                         /\ proc[p].state = "gone" => proc'[p].state = "gone"
                         /\ proc'[p].state \in {"run", "stopped"} => Alive(p),
         \A p \in Pids \ Group(jobs[j].pgid) : Moved(p),
         jobs' \in Seq(JobType), SameTable, tty' \in Pids \cup {Shell},
         UNCHANGED <<sigchld, fg_running, pending, lines, eof_warned, said>>,
         OneProcess(j) /\ proc'[jobs[j].pgid].state = "gone" /\ main'.pc = "done"
           => ~ main'.stopped,
         PlainJob(j) /\ proc'[jobs[j].pgid].state \in {"run", "stopped"} /\ main'.pc = "done"
           => main'.stopped,
         PlainJob(j) /\ jobs[j].active /\ main'.pc \in Resuming
           => main'.left <= 1 /\ (main'.left = 0 <=> proc'[jobs[j].pgid].state = "gone")
  PROVE  IInv'
<1>1. j \in DOMAIN jobs
  BY DEF IInv, Locals
<1>2. \A n \in DOMAIN jobs : jobs[n].pgid \in Pids
  BY JobFields DEF IInv
<1>3. /\ DOMAIN jobs' = DOMAIN jobs
      /\ \A n \in DOMAIN jobs :
           /\ jobs'[n].pgid = jobs[n].pgid /\ jobs'[n].pids = jobs[n].pids
           /\ jobs'[n].active = jobs[n].active /\ jobs'[n].background = jobs[n].background
           /\ jobs'[n].resumed = jobs[n].resumed
  BY DEF SameTable, SameJob
<1>4. InTurn' /\ NewPid' = NewPid
  BY SameInTurn DEF IInv
<1>5. \A n \in DOMAIN jobs : /\ OneProcess(n)' <=> OneProcess(n)
                             /\ PlainJob(n)' <=> PlainJob(n)
  BY <1>3 DEF OneProcess, PlainJob, Group
<1>6. \A n \in DOMAIN jobs : n # j =>
        /\ proc'[jobs[n].pgid].state = "gone" <=> proc[jobs[n].pgid].state = "gone"
        /\ ~ InForeground(n) /\ ~ InResume(n) /\ ~ InForeground(n)' /\ ~ InResume(n)'
  <2> SUFFICES ASSUME NEW n \in DOMAIN jobs, n # j
               PROVE  /\ proc'[jobs[n].pgid].state = "gone" <=> proc[jobs[n].pgid].state = "gone"
                      /\ ~ InForeground(n) /\ ~ InResume(n) /\ ~ InForeground(n)' /\ ~ InResume(n)'
    OBVIOUS
  <2>1. proc[jobs[n].pgid].group = jobs[n].pgid /\ jobs[n].pgid # jobs[j].pgid
    BY <1>1 DEF IInv, Leaders
  <2>2. jobs[n].pgid \in Pids \ Group(jobs[j].pgid)
    BY <1>2, <2>1 DEF Group
  <2>3. proc'[jobs[n].pgid].state = "gone" <=> proc[jobs[n].pgid].state = "gone"
    BY <2>2 DEF Moved
  <2> QED
    BY <2>3 DEF InForeground, InResume
<1>7. Shapes'
  BY DEF IInv, Shapes
<1>8. Segment' = Segment
  BY DEF Segment
<1>9. Room'
  <2>1. main.pc \in Foreground => main'.pc \in Foreground
    BY DEF Foreground
  <2>2. main'.pc \in {"fork"} \cup Foreground \cup Tracing <=>
        main.pc \in {"fork"} \cup Foreground \cup Tracing
    BY <2>1 DEF Foreground, Resuming, Tracing
  <2>3. Forked' = Forked
    BY <2>2 DEF Forked
  <2>4. main.pc \notin {"prompt", "exited"}
    BY DEF Foreground, Resuming
  <2> QED
    BY <1>4, <2>3, <2>4 DEF IInv, Room
<1>10. Locals'
  <2>1. main.segments # <<>>
    BY DEF IInv, Locals, Foreground, Resuming
  <2>2. main'.pc \in {"fork"} \cup Foreground \cup Tracing => main.pc \in Foreground
    BY DEF Foreground, Resuming, Tracing
  <2>3. main.pc \in Foreground =>
          /\ Len(main.pids) <= Len(Segment.stages) /\ Len(main.pids) < NewPid
          /\ \A i \in 1..Len(main.pids) : main.pids[i] < NewPid
          /\ Len(main.pids) > 0
    BY DEF IInv, Locals, Foreground
  <2>4. main'.job \in DOMAIN jobs'
    BY <1>1, <1>3
  <2> QED
    BY <1>4, <1>8, <2>1, <2>2, <2>3, <2>4 DEF Locals
<1>11. Groups'
  <2>1. main'.pc \notin Tracing
    BY DEF Resuming, Tracing
  <2> QED
    BY <2>1 DEF IInv, Groups
<1>12. Pipeline'
  <2>1. main'.pc # "fork"
    BY DEF Resuming
  <2> QED
    BY <2>1 DEF Pipeline
<1>13. Leaders'
  <2>1. \A n \in DOMAIN jobs : jobs[n].pgid < NewPid /\ proc[jobs[n].pgid].group = jobs[n].pgid
                              /\ (jobs[n].active => jobs[n].pids # {})
    BY DEF IInv, Leaders
  <2>2. \A n, l \in DOMAIN jobs : jobs[n].pgid = jobs[l].pgid => n = l
    BY DEF IInv, Leaders
  <2> QED
    BY <1>2, <1>3, <1>4, <2>1, <2>2 DEF Leaders
<1>14. Awaited'
  <2>1. CASE main.pc \in Foreground
    <3>1. ~ jobs[j].background /\ jobs[j].resumed = "never"
      BY <2>1 DEF IInv, Awaited
    <3>2. main'.pc \notin Resuming \cup {"rterminal"}
      BY <2>1 DEF Resuming
    <3> QED
      BY <1>1, <1>3, <3>1, <3>2 DEF Awaited
  <2>2. CASE main.pc \notin Foreground
    <3>1. /\ jobs[j].resumed # "never"
          /\ main.how = "timed" => jobs[j].resumed = "timed"
          /\ main.pc \in Resuming /\ main.timer # "off" => jobs[j].resumed = "timed"
      BY <2>2 DEF IInv, Awaited
    <3>2. main'.pc \notin Foreground
      BY <2>2 DEF Foreground, Resuming
    <3> QED
      BY <1>1, <1>3, <3>1, <3>2 DEF Awaited
  <2> QED
    BY <2>1, <2>2
<1>15. Signals'
  <2>1. Zombies' \subseteq Zombies
    BY DEF Zombies
  <2>2. CASE main.pc \in Foreground
    BY <2>1, <2>2 DEF IInv, Signals, Foreground
  <2>3. CASE main.pc \notin Foreground
    <3>1. main.pc \notin {"fork"} \cup Foreground
      BY <2>3 DEF Resuming
    <3>2. fg_running = FALSE
      BY <3>1 DEF IInv, Signals, Shapes
    <3> QED
      BY <2>1, <2>3, <3>2 DEF IInv, Signals
  <2> QED
    BY <2>2, <2>3
<1>16. ~ jobs[j].background \/ jobs[j].resumed # "never"
  BY DEF IInv, Awaited
<1>17. \A n \in DOMAIN jobs : Unresumed(n)' => /\ n # j /\ Unresumed(n)
                                               /\ jobs'[n].pgid = jobs[n].pgid
  BY <1>3, <1>16 DEF Unresumed
<1>18. StillListed'
  BY <1>3, <1>6, <1>17 DEF IInv, StillListed, Gone
<1>19. ThenTold'
  <2>1. SUFFICES ASSUME NEW n \in DOMAIN jobs', Unresumed(n)',
                        proc'[jobs'[n].pgid].state = "gone"
                 PROVE  \/ jobs'[n].pgid \in pending' \/ said'[jobs'[n].pgid].lost
                        \/ said'[jobs'[n].pgid].times = 1
    BY DEF ThenTold, Gone, Told
  <2>2. /\ n \in DOMAIN jobs /\ Unresumed(n) /\ proc[jobs[n].pgid].state = "gone"
        /\ jobs'[n].pgid = jobs[n].pgid
    BY <1>3, <1>6, <1>17, <2>1
  <2> QED
    BY <2>2 DEF IInv, ThenTold, Gone, Told
<1>20. ToldOnce'
  BY DEF IInv, ToldOnce, Gone, Told
<1>21. InForeground(j) <=> InForeground(j)'
  BY DEF InForeground, Foreground, Resuming
<1>22. main.pc \in Foreground => ~ InResume(j)'
  BY DEF InResume, Foreground, Resuming
<1>23. OnlyMember'
  <2>1. SUFFICES ASSUME NEW n \in DOMAIN jobs, OneProcess(n), jobs[n].active
                 PROVE  \/ jobs[n].pids = {jobs[n].pgid}
                        \/ proc'[jobs[n].pgid].state = "gone" /\ InForeground(n)' /\ ~ Suspended'
    BY <1>3, <1>5 DEF OnlyMember, Gone
  <2>2. \/ jobs[n].pids = {jobs[n].pgid}
        \/ proc[jobs[n].pgid].state = "gone" /\ InForeground(n)
    BY <2>1 DEF IInv, OnlyMember, Gone
  <2>3. SUFFICES ASSUME proc[jobs[n].pgid].state = "gone", InForeground(n)
                 PROVE  proc'[jobs[n].pgid].state = "gone" /\ InForeground(n)' /\ ~ Suspended'
    BY <2>2
  <2>4. n = j
    BY <1>6, <2>3
  <2>5. proc'[jobs[n].pgid].state = "gone" /\ InForeground(n)'
    BY <1>2, <1>21, <2>3, <2>4
  <2> QED
    BY <2>1, <2>4, <2>5 DEF Suspended
<1>24. AliveListed'
  <2>1. SUFFICES ASSUME NEW n \in DOMAIN jobs, PlainJob(n),
                        proc'[jobs[n].pgid].state \in {"run", "stopped"}
                 PROVE  jobs[n].active /\ (InForeground(n)' /\ main'.pc = "done" => main'.stopped)
    BY <1>3, <1>5 DEF AliveListed, Alive
  <2>2. jobs[n].active
    BY <1>2, <2>1 DEF IInv, AliveListed
  <2> QED
    BY <1>6, <2>1, <2>2
<1>25. ListedAlive'
  <2>1. SUFFICES ASSUME NEW n \in DOMAIN jobs, PlainJob(n), jobs[n].active,
                        proc'[jobs[n].pgid].state = "gone"
                 PROVE  \/ InForeground(n)' /\ ~ Suspended'
                        \/ InResume(n)' /\ main'.left = 0
    BY <1>3, <1>5 DEF ListedAlive, Gone
  <2>2. n = j
    BY <1>6, <2>1 DEF IInv, ListedAlive, Gone
  <2>3. CASE main.pc \in Foreground
    BY <2>1, <2>2, <2>3, <1>21 DEF InForeground, Suspended, PlainJob
  <2>4. CASE main.pc \notin Foreground
    BY <2>1, <2>2, <2>4 DEF InResume
  <2> QED
    BY <2>3, <2>4
<1>26. LeftCounts'
  <2>1. SUFFICES ASSUME NEW n \in DOMAIN jobs, PlainJob(n), jobs[n].active, InResume(n)'
                 PROVE  main'.left <= 1 /\ (main'.left = 0 => proc'[jobs[n].pgid].state = "gone")
    BY <1>3, <1>5 DEF LeftCounts, Gone
  <2>2. n = j /\ main'.pc \in Resuming
    BY <2>1 DEF InResume
  <2> QED
    BY <2>1, <2>2
<1> QED
  BY <1>4, <1>7, <1>9, <1>10, <1>11, <1>12, <1>13, <1>14, <1>15, <1>18, <1>19, <1>20,
     <1>23, <1>24, <1>25, <1>26 DEF IInv

(* The job the shell waits for has a leader of its own, that was forked; when *)
(* it is of one process, that is the leader.                                 *)
LEMMA AwaitedJob ==
  ASSUME IInv, main.pc \in Foreground \cup Resuming \cup {"rterminal"}
  PROVE  /\ main.job \in DOMAIN jobs /\ jobs[main.job].pgid \in Pids
         /\ jobs[main.job].pgid \in Group(jobs[main.job].pgid)
         /\ proc[jobs[main.job].pgid].state # "none"
         /\ OneProcess(main.job) =>
              \A p \in Group(jobs[main.job].pgid) : p = jobs[main.job].pgid
         /\ Unreaped(jobs[main.job].pgid) = {} => Gone(jobs[main.job].pgid)
         /\ PlainJob(main.job) /\ jobs[main.job].active /\ main.pc \in Resuming =>
              main.left <= 1 /\ (main.left = 0 <=> Gone(jobs[main.job].pgid))
<1>1. main.job \in DOMAIN jobs
  BY DEF IInv, Locals
<1>2. jobs[main.job].pgid \in Pids
  BY <1>1, JobFields DEF IInv
<1>3. proc[jobs[main.job].pgid].group = jobs[main.job].pgid /\ jobs[main.job].pgid < NewPid
  BY <1>1 DEF IInv, Leaders
<1>4. jobs[main.job].pgid \in Group(jobs[main.job].pgid)
  BY <1>2, <1>3 DEF Group
<1>5. proc[jobs[main.job].pgid].state # "none"
  BY <1>2, <1>3, InTurnUsed DEF IInv
<1>6. OneProcess(main.job) => \A p \in Group(jobs[main.job].pgid) : p = jobs[main.job].pgid
  BY DEF OneProcess
<1>7. Unreaped(jobs[main.job].pgid) = {} => Gone(jobs[main.job].pgid)
  BY <1>4, <1>5 DEF Unreaped, Gone
<1>8. PlainJob(main.job) /\ jobs[main.job].active /\ main.pc \in Resuming =>
        main.left <= 1 /\ (main.left = 0 <=> Gone(jobs[main.job].pgid))
  <2>1. main.pc \in Resuming => InResume(main.job) /\ ~ InForeground(main.job)
    BY DEF InResume, InForeground, Resuming, Foreground
  <2> QED
    BY <1>1, <2>1 DEF IInv, LeftCounts, ListedAlive
<1> QED
  BY <1>1, <1>2, <1>4, <1>5, <1>6, <1>7, <1>8

(* What a tcsetpgrp() gives. *)
LEMMA TerminalGroup ==
  ASSUME Shapes, NEW g \in Pids \cup {Shell}
  PROVE  TcSetPgrp(g) \in Pids \cup {Shell}
  BY DEF TcSetPgrp, Shapes

(* A step that moves no process and sets at most the printed state of a job. *)
LEMMA StillKeeps ==
  ASSUME IInv, UNCHANGED proc
  PROVE  /\ proc' \in [Pids -> ProcType] /\ \A p \in Pids : Moved(p)
         /\ \A p \in Pids : /\ proc'[p].group = proc[p].group
                            /\ proc'[p].state = "none" <=> proc[p].state = "none"
                            /\ proc'[p].state = "zombie" => proc[p].state = "zombie"
                            /\ proc[p].state = "gone" => proc'[p].state = "gone"
                            /\ proc'[p].state \in {"run", "stopped"} => Alive(p)
  BY DEF IInv, Shapes, Moved, Alive

(* The printed state of a job. *)
LEMMA StateOnly ==
  ASSUME IInv, NEW n \in DOMAIN jobs, NEW st \in {"Running", "Stopped"},
         jobs' = [jobs EXCEPT ![n].state = st]
  PROVE  jobs' \in Seq(JobType) /\ SameTable
<1>1. jobs \in Seq(JobType) /\ DOMAIN jobs = 1..Len(jobs)
  BY LenProperties DEF IInv, Shapes
<1>2. jobs[n] \in JobType
  BY <1>1, ElementOfSeq
<1>3. [jobs[n] EXCEPT !.state = st] \in JobType
  BY <1>2 DEF JobType
<1>4. jobs' = [jobs EXCEPT ![n] = [jobs[n] EXCEPT !.state = st]]
  OBVIOUS
<1>5. jobs' \in Seq(JobType)
  BY <1>1, <1>3, <1>4, ExceptSeq
<1>6. DOMAIN jobs' = DOMAIN jobs /\ jobs'[n] = [jobs[n] EXCEPT !.state = st]
      /\ \A l \in DOMAIN jobs \ {n} : jobs'[l] = jobs[l]
  BY <1>4
<1>7. SameJob(n)
  BY <1>2, <1>6 DEF JobType, SameJob
<1>8. \A l \in DOMAIN jobs \ {n} : SameJob(l)
  BY <1>6 DEF SameJob
<1> QED
  BY <1>5, <1>6, <1>7, <1>8 DEF SameTable

(* run_foreground() hands the terminal to the job. *)
LEMMA GiveTerminalKeeps ==
  ASSUME IInv, GiveTerminal
  PROVE  IInv'
<1>1. /\ main.pc = "terminal"
      /\ tty' = TcSetPgrp(jobs[main.job].pgid)
      /\ main' = [main EXCEPT !.pc = "wait", !.left = Len(main.pids), !.stopped = FALSE]
      /\ UNCHANGED <<proc, sigchld, jobs, fg_running, pending, lines, eof_warned, said>>
  BY DEF GiveTerminal
<1>2. main.pc \in Foreground
  BY <1>1 DEF Foreground
<1>3. tty' \in Pids \cup {Shell}
  BY <1>1, <1>2, AwaitedJob, TerminalGroup DEF IInv
<1>4. Len(main.pids) \in 0..MaxPids /\ Len(main.pids) > 0
  <2>1. Len(main.pids) > 0 /\ Len(main.pids) < NewPid
    BY <1>1, <1>2 DEF IInv, Locals
  <2>2. Len(main.pids) \in Nat
    BY MainFields, LenProperties DEF IInv, PidSeqs
  <2> QED
    BY <2>1, <2>2, InTurnUsed, ConstantsAssumption DEF IInv
<1>5. /\ main' \in MainType /\ main'.pc = "wait" /\ main'.left = Len(main.pids)
      /\ main'.stopped = FALSE /\ main'.segments = main.segments /\ main'.pids = main.pids
      /\ main'.job = main.job /\ main'.how = main.how
  <2>1. main \in MainType
    BY DEF IInv, Shapes
  <2> HIDE DEF Segs, PidSeqs
  <2> QED
    BY <1>1, <1>4, <2>1 DEF MainType, Pcs, Foreground
<1>6. SameTable /\ jobs' \in Seq(JobType)
  BY <1>1 DEF IInv, Shapes, SameTable, SameJob
<1>7. main'.pc \notin Resuming
  BY <1>5 DEF Resuming
<1> QED
  BY <1>1, <1>2, <1>3, <1>4, <1>5, <1>6, <1>7, StillKeeps, WaitKeeps

(* waitpid() takes the status of one process of the job. *)
LEMMA TakenOne ==
  ASSUME IInv, NEW g, NEW p \in Unreaped(g), proc[p].state = "zombie", proc' = Taken({p})
  PROVE  /\ p \in Pids /\ p \in Group(g) /\ proc' \in [Pids -> ProcType]
         /\ proc'[p].state = "gone"
         /\ \A q \in Pids : /\ proc'[q].group = proc[q].group
                            /\ proc'[q].state = "none" <=> proc[q].state = "none"
                            /\ proc'[q].state = "zombie" => proc[q].state = "zombie"
                            /\ proc[q].state = "gone" => proc'[q].state = "gone"
                            /\ proc'[q].state \in {"run", "stopped"} => Alive(q)
         /\ \A q \in Pids \ {p} : proc'[q] = proc[q] /\ Moved(q)
         /\ \A q \in Pids \ Group(g) : Moved(q)
<1>1. p \in Pids /\ p \in Group(g)
  BY DEF Unreaped, Group
<1>2. proc \in [Pids -> ProcType]
  BY DEF IInv, Shapes
<1>3. \A q \in Pids \ {p} : proc'[q] = proc[q]
  BY DEF Taken
<1>4. proc'[p] = [proc[p] EXCEPT !.state = "gone"]
  BY <1>1 DEF Taken
<1>5. proc'[p] \in ProcType /\ proc'[p].state = "gone" /\ proc'[p].group = proc[p].group
  <2>1. proc[p] \in ProcType
    BY <1>1, <1>2
  <2> QED
    BY <1>4, <2>1 DEF ProcType
<1>6. proc' \in [Pids -> ProcType]
  <2>1. \A q \in Pids : proc'[q] \in ProcType
    BY <1>2, <1>3, <1>5
  <2> QED
    BY <2>1 DEF Taken
<1>7. \A q \in Pids \ {p} : Moved(q)
  BY <1>3 DEF Moved
<1>8. \A q \in Pids : /\ proc'[q].group = proc[q].group
                      /\ proc'[q].state = "none" <=> proc[q].state = "none"
                      /\ proc'[q].state = "zombie" => proc[q].state = "zombie"
                      /\ proc[q].state = "gone" => proc'[q].state = "gone"
                      /\ proc'[q].state \in {"run", "stopped"} => Alive(q)
  BY <1>3, <1>5 DEF Alive
<1> QED
  BY <1>1, <1>3, <1>5, <1>6, <1>7, <1>8

(* waitpid() reports the stop of a process: nobody moves. *)
LEMMA StopTaken ==
  ASSUME IInv, NEW p \in Pids, proc' = [proc EXCEPT ![p].news = FALSE]
  PROVE  /\ proc' \in [Pids -> ProcType]
         /\ \A q \in Pids : /\ proc'[q].group = proc[q].group /\ Moved(q)
                            /\ proc'[q].state = proc[q].state
                            /\ proc'[q].state \in {"run", "stopped"} => Alive(q)
<1>1. proc \in [Pids -> ProcType]
  BY DEF IInv, Shapes
<1>2. proc' \in [Pids -> ProcType]
  BY <1>1 DEF ProcType
<1>3. \A q \in Pids : proc'[q].group = proc[q].group /\ proc'[q].state = proc[q].state
  <2> TAKE q \in Pids
  <2>1. proc[q] \in ProcType
    BY <1>1
  <2>2. CASE q = p
    BY <1>1, <2>1, <2>2 DEF ProcType
  <2>3. CASE q # p
    BY <1>1, <2>3
  <2> QED
    BY <2>2, <2>3
<1> QED
  BY <1>2, <1>3 DEF Moved, Alive

(* waitpid() in run_foreground() returns. *)
LEMMA WaitForegroundKeeps ==
  ASSUME IInv, WaitForeground
  PROVE  IInv'
<1>1. /\ main.pc = "wait"
      /\ WaitExit("done") \/ WaitStop("done") \/ WaitNone("done")
      /\ UNCHANGED <<sigchld, tty, fg_running, pending, lines, eof_warned, said>>
  BY DEF WaitForeground
<1>2. main.pc \in Foreground /\ main.pc \notin Resuming
  BY <1>1 DEF Foreground, Resuming
<1>3. /\ main \in MainType /\ main.left \in 0..MaxPids /\ main.left > 0 /\ main.stopped = FALSE
      /\ tty' \in Pids \cup {Shell} /\ MaxPids \in Nat /\ jobs \in Seq(JobType)
  BY <1>1, MainFields, ConstantsAssumption DEF IInv, Shapes, Locals
<1> DEFINE j == main.job  g == jobs[main.job].pgid
<1>4. /\ j \in DOMAIN jobs /\ g \in Pids /\ g \in Group(g)
      /\ OneProcess(j) => \A p \in Group(g) : p = g
      /\ Unreaped(g) = {} => proc[g].state = "gone"
  BY <1>2, AwaitedJob DEF Gone
<1>5. CASE WaitExit("done")
  <2>1. PICK p \in Unreaped(g) :
          /\ proc[p].state = "zombie"
          /\ proc' = Taken({p})
          /\ main' = [main EXCEPT !.left = @ - 1, !.pc = IF main.left = 1 THEN "done" ELSE @]
          /\ UNCHANGED jobs
    BY <1>5 DEF WaitExit
  <2>2. /\ main' \in MainType /\ main'.pc \in {"wait", "done"} /\ main'.left = main.left - 1
        /\ main'.pc = "wait" => main.left # 1
        /\ main'.stopped = FALSE /\ main'.segments = main.segments /\ main'.pids = main.pids
        /\ main'.job = main.job /\ main'.how = main.how
    <3>1. main.left - 1 \in 0..MaxPids
      BY <1>3
    <3> HIDE DEF Segs, PidSeqs
    <3>2. CASE main.left = 1
      BY <1>3, <2>1, <3>1, <3>2 DEF MainType, Pcs, Foreground
    <3>3. CASE main.left # 1
      BY <1>1, <1>3, <2>1, <3>1, <3>3 DEF MainType
    <3> QED
      BY <3>2, <3>3
  <2>3. main'.pc \notin Resuming
    BY <2>2 DEF Resuming
  <2>4. main'.pc \in {"wait", "rwait"} => main'.left > 0
    BY <1>3, <2>2
  <2>5. /\ p \in Pids /\ p \in Group(g) /\ proc' \in [Pids -> ProcType]
        /\ proc'[p].state = "gone"
        /\ \A q \in Pids : /\ proc'[q].group = proc[q].group
                           /\ proc'[q].state = "none" <=> proc[q].state = "none"
                           /\ proc'[q].state = "zombie" => proc[q].state = "zombie"
                           /\ proc[q].state = "gone" => proc'[q].state = "gone"
                           /\ proc'[q].state \in {"run", "stopped"} => Alive(q)
        /\ \A q \in Pids \ Group(g) : Moved(q)
    BY <2>1, TakenOne
  <2>6. PlainJob(j) => proc'[g].state = "gone"
    BY <1>4, <2>5 DEF PlainJob
  <2>7. SameTable /\ jobs' \in Seq(JobType)
    BY <1>3, <2>1 DEF SameTable, SameJob
  <2> QED
    BY <1>1, <1>2, <1>3, <2>2, <2>3, <2>4, <2>5, <2>6, <2>7, WaitKeeps
<1>6. CASE WaitStop("done")
  <2>1. PICK p \in Unreaped(g) :
          /\ proc[p].state = "stopped" /\ proc[p].news
          /\ proc' = [proc EXCEPT ![p].news = FALSE]
          /\ jobs' = [jobs EXCEPT ![main.job].state = "Stopped"]
          /\ main' = [main EXCEPT !.stopped = TRUE, !.pc = "done"]
    BY <1>6 DEF WaitStop
  <2>2. p \in Pids /\ p \in Group(g)
    BY DEF Unreaped, Group
  <2>3. /\ main' \in MainType /\ main'.pc = "done"
        /\ main'.stopped = TRUE /\ main'.segments = main.segments /\ main'.pids = main.pids
        /\ main'.job = main.job /\ main'.how = main.how
    <3> HIDE DEF Segs, PidSeqs
    <3> QED
      BY <1>3, <2>1 DEF MainType, Pcs, Foreground
  <2>4. main'.pc \notin Resuming
    BY <2>3 DEF Resuming
  <2>5. SameTable /\ jobs' \in Seq(JobType)
    BY <1>4, <2>1, StateOnly
  <2>6. /\ proc' \in [Pids -> ProcType]
        /\ \A q \in Pids : /\ proc'[q].group = proc[q].group /\ Moved(q)
                           /\ proc'[q].state = proc[q].state
                           /\ proc'[q].state \in {"run", "stopped"} => Alive(q)
    BY <2>1, <2>2, StopTaken
  <2>7. \A q \in Pids : /\ proc'[q].group = proc[q].group
                        /\ proc'[q].state = "none" <=> proc[q].state = "none"
                        /\ proc'[q].state = "zombie" => proc[q].state = "zombie"
                        /\ proc[q].state = "gone" => proc'[q].state = "gone"
                        /\ proc'[q].state \in {"run", "stopped"} => Alive(q)
    BY <2>6
  <2>8. OneProcess(j) => proc'[g].state # "gone"
    BY <1>4, <2>1, <2>2, <2>6
  <2> QED
    BY <1>1, <1>2, <1>3, <2>3, <2>4, <2>5, <2>6, <2>7, <2>8, WaitKeeps
<1>7. CASE WaitNone("done")
  <2>1. Unreaped(g) = {} /\ Goto("done") /\ UNCHANGED <<proc, jobs>>
    BY <1>7 DEF WaitNone, NoChild
  <2>2. /\ main' \in MainType /\ main'.pc = "done"
        /\ main'.stopped = FALSE /\ main'.segments = main.segments /\ main'.pids = main.pids
        /\ main'.job = main.job /\ main'.how = main.how
    BY <1>3, <2>1, GotoFields DEF IInv, Pcs, Foreground
  <2>3. main'.pc \notin Resuming
    BY <2>2 DEF Resuming
  <2>4. SameTable /\ jobs' \in Seq(JobType)
    BY <1>3, <2>1 DEF SameTable, SameJob
  <2>5. proc'[g].state = "gone"
    BY <1>4, <2>1
  <2> QED
    BY <1>1, <1>2, <1>3, <2>1, <2>2, <2>3, <2>4, <2>5, StillKeeps, WaitKeeps
<1> QED
  BY <1>1, <1>5, <1>6, <1>7

(* waitpid() in resume returns. *)
LEMMA ResumeWaitKeeps ==
  ASSUME IInv, ResumeWait
  PROVE  IInv'
<1>1. /\ main.pc = "rwait"
      /\ ResumeExit \/ WaitStop("rdone") \/ WaitNone("rdone")
      /\ UNCHANGED <<sigchld, tty, fg_running, pending, lines, eof_warned, said>>
  BY DEF ResumeWait
<1>2. main.pc \in Resuming /\ main.pc \notin Foreground
  BY <1>1 DEF Foreground, Resuming
<1>3. /\ main \in MainType /\ main.left \in 0..MaxPids /\ main.left > 0
      /\ tty' \in Pids \cup {Shell} /\ MaxPids \in Nat /\ jobs \in Seq(JobType)
  BY <1>1, MainFields, ConstantsAssumption DEF IInv, Shapes, Locals
<1> DEFINE j == main.job  g == jobs[main.job].pgid
<1>4. /\ j \in DOMAIN jobs /\ g \in Pids /\ g \in Group(g)
      /\ OneProcess(j) => \A p \in Group(g) : p = g
      /\ PlainJob(j) /\ jobs[j].active =>
           main.left <= 1 /\ (main.left = 0 <=> proc[g].state = "gone")
  BY <1>2, AwaitedJob DEF Gone
<1>5. CASE ResumeExit
  <2>1. PICK p \in Unreaped(g) :
          /\ proc[p].state = "zombie"
          /\ proc' = Taken({p})
          /\ main' = [main EXCEPT !.left = @ - 1, !.pc = "rcheck"]
          /\ UNCHANGED jobs
    BY <1>5 DEF ResumeExit
  <2>2. /\ main' \in MainType /\ main'.pc = "rcheck" /\ main'.left = main.left - 1
        /\ main'.segments = main.segments /\ main'.pids = main.pids
        /\ main'.job = main.job /\ main'.how = main.how /\ main'.timer = main.timer
    <3>1. main.left - 1 \in 0..MaxPids
      BY <1>3
    <3> HIDE DEF Segs, PidSeqs
    <3> QED
      BY <1>3, <2>1, <3>1 DEF MainType, Pcs, Resuming
  <2>3. main'.pc \in Resuming
    BY <2>2 DEF Resuming
  <2>5. /\ p \in Pids /\ p \in Group(g) /\ proc' \in [Pids -> ProcType]
        /\ proc'[p].state = "gone"
        /\ \A q \in Pids : /\ proc'[q].group = proc[q].group
                           /\ proc'[q].state = "none" <=> proc[q].state = "none"
                           /\ proc'[q].state = "zombie" => proc[q].state = "zombie"
                           /\ proc[q].state = "gone" => proc'[q].state = "gone"
                           /\ proc'[q].state \in {"run", "stopped"} => Alive(q)
        /\ \A q \in Pids \ Group(g) : Moved(q)
    BY <2>1, TakenOne
  <2>6. PlainJob(j) => proc'[g].state = "gone"
    BY <1>4, <2>5 DEF PlainJob
  <2>7. PlainJob(j) /\ jobs[j].active => main'.left = 0
    BY <1>3, <1>4, <2>2
  <2>8. SameTable /\ jobs' \in Seq(JobType)
    BY <1>3, <2>1 DEF SameTable, SameJob
  <2> QED
    BY <1>1, <1>2, <1>3, <2>2, <2>3, <2>5, <2>6, <2>7, <2>8, WaitKeeps
<1>6. CASE WaitStop("rdone")
  <2>1. PICK p \in Unreaped(g) :
          /\ proc[p].state = "stopped" /\ proc[p].news
          /\ proc' = [proc EXCEPT ![p].news = FALSE]
          /\ jobs' = [jobs EXCEPT ![main.job].state = "Stopped"]
          /\ main' = [main EXCEPT !.stopped = TRUE, !.pc = "rdone"]
    BY <1>6 DEF WaitStop
  <2>2. p \in Pids /\ p \in Group(g)
    BY DEF Unreaped, Group
  <2>3. /\ main' \in MainType /\ main'.pc = "rdone" /\ main'.left = main.left
        /\ main'.segments = main.segments /\ main'.pids = main.pids
        /\ main'.job = main.job /\ main'.how = main.how /\ main'.timer = main.timer
    <3> HIDE DEF Segs, PidSeqs
    <3> QED
      BY <1>3, <2>1 DEF MainType, Pcs, Resuming
  <2>4. main'.pc \in Resuming
    BY <2>3 DEF Resuming
  <2>5. SameTable /\ jobs' \in Seq(JobType)
    BY <1>4, <2>1, StateOnly
  <2>6. /\ proc' \in [Pids -> ProcType]
        /\ \A q \in Pids : /\ proc'[q].group = proc[q].group /\ Moved(q)
                           /\ proc'[q].state = proc[q].state
                           /\ proc'[q].state \in {"run", "stopped"} => Alive(q)
    BY <2>1, <2>2, StopTaken
  <2>7. \A q \in Pids : /\ proc'[q].group = proc[q].group
                        /\ proc'[q].state = "none" <=> proc[q].state = "none"
                        /\ proc'[q].state = "zombie" => proc[q].state = "zombie"
                        /\ proc[q].state = "gone" => proc'[q].state = "gone"
                        /\ proc'[q].state \in {"run", "stopped"} => Alive(q)
    BY <2>6
  <2>8. PlainJob(j) /\ jobs[j].active =>
          main'.left <= 1 /\ (main'.left = 0 <=> proc'[g].state = "gone")
    BY <1>4, <2>3, <2>6
  <2> QED
    BY <1>1, <1>2, <1>3, <2>3, <2>4, <2>5, <2>6, <2>7, <2>8, WaitKeeps
<1>7. CASE WaitNone("rdone")
  <2>1. Goto("rdone") /\ UNCHANGED <<proc, jobs>>
    BY <1>7 DEF WaitNone
  <2>2. /\ main' \in MainType /\ main'.pc = "rdone" /\ main'.left = main.left
        /\ main'.segments = main.segments /\ main'.pids = main.pids
        /\ main'.job = main.job /\ main'.how = main.how /\ main'.timer = main.timer
    BY <1>3, <2>1, GotoFields DEF IInv, Pcs, Resuming
  <2>3. main'.pc \in Resuming
    BY <2>2 DEF Resuming
  <2>4. SameTable /\ jobs' \in Seq(JobType)
    BY <1>3, <2>1 DEF SameTable, SameJob
  <2>5. PlainJob(j) /\ jobs[j].active =>
          main'.left <= 1 /\ (main'.left = 0 <=> proc'[g].state = "gone")
    BY <1>4, <2>1, <2>2
  <2> QED
    BY <1>1, <1>2, <1>3, <2>1, <2>2, <2>3, <2>4, <2>5, StillKeeps, WaitKeeps
<1> QED
  BY <1>1, <1>5, <1>6, <1>7

(* resume hands the terminal to the job, sets its alarm and counts what the  *)
(* handler has left of the job.                                              *)
LEMMA ResumeTerminalKeeps ==
  ASSUME IInv, ResumeTerminal
  PROVE  IInv'
<1> DEFINE j == main.job  g == jobs[main.job].pgid
<1>1. /\ main.pc = "rterminal"
      /\ tty' = TcSetPgrp(g)
      /\ jobs' = [jobs EXCEPT ![j].state = "Running"]
      /\ main' = [main EXCEPT !.pc = "rcheck", !.left = Cardinality(jobs[j].pids),
                              !.timer = IF main.how = "timed" THEN "set" ELSE "off"]
      /\ UNCHANGED <<proc, sigchld, fg_running, pending, lines, eof_warned, said>>
  BY DEF ResumeTerminal
<1>2. main.pc \notin Foreground \cup Resuming
  BY <1>1 DEF Foreground, Resuming
<1>3. j \in DOMAIN jobs /\ g \in Pids
  BY <1>1, AwaitedJob
<1>4. tty' \in Pids \cup {Shell}
  BY <1>1, <1>3, TerminalGroup DEF IInv
<1>5. Cardinality(jobs[j].pids) \in 0..MaxPids
  <2>1. IsFiniteSet(Pids) /\ Cardinality(Pids) = MaxPids
    BY ConstantsAssumption, FS_Interval DEF Pids
  <2>2. jobs[j].pids \subseteq Pids
    BY <1>3, JobFields DEF IInv
  <2>3. IsFiniteSet(jobs[j].pids) /\ Cardinality(jobs[j].pids) <= MaxPids
    BY <2>1, <2>2, FS_Subset
  <2>4. Cardinality(jobs[j].pids) \in Nat
    BY <2>3, FS_CardinalityType
  <2> QED
    BY <2>3, <2>4, ConstantsAssumption
<1>6. /\ main' \in MainType /\ main'.pc = "rcheck" /\ main'.left = Cardinality(jobs[j].pids)
      /\ main'.segments = main.segments /\ main'.pids = main.pids
      /\ main'.job = main.job /\ main'.how = main.how
      /\ main'.timer # "off" => main.how = "timed"
  <2>1. main \in MainType
    BY DEF IInv, Shapes
  <2> HIDE DEF Segs, PidSeqs
  <2> QED
    BY <1>1, <1>5, <2>1 DEF MainType, Pcs, Resuming
<1>7. main'.pc \in Resuming
  BY <1>6 DEF Resuming
<1>8. SameTable /\ jobs' \in Seq(JobType)
  BY <1>1, <1>3, StateOnly
<1>9. PlainJob(j) /\ jobs[j].active =>
        main'.left <= 1 /\ (main'.left = 0 <=> proc'[g].state = "gone")
  <2>1. SUFFICES ASSUME PlainJob(j), jobs[j].active
                 PROVE  main'.left = 1 /\ proc[g].state # "gone"
    BY <1>1
  <2>2. ~ InForeground(j) /\ ~ InResume(j)
    BY <1>2 DEF InForeground, InResume
  <2>3. proc[g].state # "gone"
    BY <1>3, <2>1, <2>2 DEF IInv, ListedAlive, Gone
  <2>4. jobs[j].pids = {g}
    BY <1>3, <2>1, <2>2 DEF IInv, OnlyMember, PlainJob
  <2>5. Cardinality({g}) = 1
    BY FS_Singleton
  <2> QED
    BY <1>6, <2>3, <2>4, <2>5
<1> QED
  BY <1>1, <1>2, <1>4, <1>6, <1>7, <1>8, <1>9, StillKeeps, WaitKeeps

(* The loop of resume, and the alarm. *)
LEMMA ResumeCheckKeeps ==
  ASSUME IInv, ResumeCheck \/ Alarm
  PROVE  IInv'
<1>1. /\ main.pc \in Resuming
      /\ UNCHANGED <<proc, sigchld, tty, jobs, fg_running, pending, lines, eof_warned, said>>
  BY DEF ResumeCheck, Alarm, Resuming
<1>2. main.pc \notin Foreground
  BY <1>1 DEF Foreground, Resuming
<1>3. main \in MainType
  BY DEF IInv, Shapes
<1>4. /\ main' \in MainType /\ main'.pc \in Resuming /\ main'.left = main.left
      /\ main'.pc = "rwait" => main.left > 0
      /\ main'.segments = main.segments /\ main'.pids = main.pids
      /\ main'.job = main.job /\ main'.how = main.how
      /\ main'.timer # "off" => main.timer # "off"
  <2>1. CASE ResumeCheck
    <3>1. CASE main.left > 0 /\ main.timer # "fired"
      <4>1. Goto("rwait")
        BY <2>1, <3>1 DEF ResumeCheck
      <4> QED
        BY <3>1, <4>1, GotoFields DEF IInv, Pcs, Resuming
    <3>2. CASE ~ (main.left > 0 /\ main.timer # "fired")
      <4>1. Goto("rdone")
        BY <2>1, <3>2 DEF ResumeCheck
      <4> QED
        BY <4>1, GotoFields DEF IInv, Pcs, Resuming
    <3> QED
      BY <3>1, <3>2
  <2>2. CASE Alarm
    <3>1. PICK pc \in {main.pc} \cup (IF main.pc = "rwait" THEN {"rcheck"} ELSE {}) :
            main' = [main EXCEPT !.timer = "fired", !.pc = pc]
      BY <2>2 DEF Alarm
    <3>2. main.timer = "set" /\ pc \in Resuming /\ (pc = "rwait" => main.pc = "rwait")
      BY <1>1, <2>2, <3>1 DEF Alarm, Resuming
    <3>3. pc \in Pcs
      BY <3>2 DEF Pcs
    <3>4. main.pc = "rwait" => main.left > 0
      BY DEF IInv, Locals
    <3> HIDE DEF Segs, PidSeqs, Pcs, Resuming
    <3>5. /\ main' \in MainType /\ main'.pc = pc /\ main'.left = main.left
          /\ main'.segments = main.segments /\ main'.pids = main.pids
          /\ main'.job = main.job /\ main'.how = main.how
      BY <1>3, <3>1, <3>3 DEF MainType
    <3> QED
      BY <3>2, <3>4, <3>5
  <2> QED
    BY <2>1, <2>2
<1>5. SameTable /\ jobs' \in Seq(JobType) /\ tty' \in Pids \cup {Shell}
  BY <1>1 DEF IInv, Shapes, SameTable, SameJob
<1>6. PlainJob(main.job) /\ jobs[main.job].active =>
        main'.left <= 1 /\ (main'.left = 0 <=> proc'[jobs[main.job].pgid].state = "gone")
  BY <1>1, <1>4, AwaitedJob DEF Gone
<1>7. main'.pc \in {"wait", "rwait"} => main'.pc = "rwait"
  BY <1>4 DEF Resuming
<1>8. main'.pc \notin {"wait", "done"}
  BY <1>4 DEF Resuming
<1> QED
  BY <1>1, <1>2, <1>4, <1>5, <1>6, <1>7, <1>8, StillKeeps, WaitKeeps

(* The shell leaves a segment whose children it forked or never had to: there *)
(* are numbers for what is left of the line.                                 *)
LEMMA LeaveRoom ==
  ASSUME IInv, main.pc \notin {"prompt", "exited"}, main.segments # <<>>, NewPid' = NewPid,
         main'.pc = "next", main'.segments = Tail(main.segments)
  PROVE  Room'
<1>1. /\ Stages(main.segments) = Len(Segment.stages) + Stages(Tail(main.segments))
      /\ Stages(Tail(main.segments)) \in Nat /\ Len(Segment.stages) \in Nat \ {0}
  BY MainFields, StagesOfRest DEF IInv, Segs, Segment
<1>2. NewPid + Stages(main.segments) <= MaxPids + 1 + Forked
  BY DEF IInv, Room
<1>3. Forked \in Nat /\ Forked <= Len(Segment.stages)
  <2>1. Len(main.pids) \in Nat
    BY MainFields, LenProperties DEF IInv, PidSeqs
  <2>2. CASE main.pc \in {"fork"} \cup Foreground \cup Tracing
    BY <2>1, <2>2 DEF IInv, Locals, Forked
  <2>3. CASE main.pc \notin {"fork"} \cup Foreground \cup Tracing
    BY <1>1, <2>3 DEF Forked
  <2> QED
    BY <2>2, <2>3
<1>4. NewPid \in Nat /\ MaxPids \in Nat
  BY InTurnUsed, ConstantsAssumption DEF IInv
<1>5. NewPid' + Stages(main'.segments) <= MaxPids + 1 + 0
  BY <1>1, <1>2, <1>3, <1>4
<1>6. Forked' = 0
  BY DEF Forked, Foreground, Tracing
<1> QED
  BY <1>5, <1>6 DEF Room

(* Whether a job is listed. *)
LEMMA ActiveOnly ==
  ASSUME IInv, NEW n \in DOMAIN jobs, NEW act \in BOOLEAN,
         jobs' = [jobs EXCEPT ![n].active = act]
  PROVE  /\ jobs' \in Seq(JobType) /\ DOMAIN jobs' = DOMAIN jobs
         /\ jobs'[n].active = act
         /\ \A l \in DOMAIN jobs :
              /\ jobs'[l].pgid = jobs[l].pgid /\ jobs'[l].pids = jobs[l].pids
              /\ jobs'[l].background = jobs[l].background
              /\ jobs'[l].resumed = jobs[l].resumed
              /\ l # n => jobs'[l].active = jobs[l].active
<1>1. jobs \in Seq(JobType) /\ DOMAIN jobs = 1..Len(jobs)
  BY LenProperties DEF IInv, Shapes
<1>2. jobs[n] \in JobType
  BY <1>1, ElementOfSeq
<1>3. [jobs[n] EXCEPT !.active = act] \in JobType
  BY <1>2 DEF JobType
<1>4. jobs' = [jobs EXCEPT ![n] = [jobs[n] EXCEPT !.active = act]]
  OBVIOUS
<1>5. jobs' \in Seq(JobType)
  BY <1>1, <1>3, <1>4, ExceptSeq
<1>6. DOMAIN jobs' = DOMAIN jobs /\ jobs'[n] = [jobs[n] EXCEPT !.active = act]
      /\ \A l \in DOMAIN jobs \ {n} : jobs'[l] = jobs[l]
  BY <1>4
<1>7. /\ jobs'[n].pgid = jobs[n].pgid /\ jobs'[n].pids = jobs[n].pids
      /\ jobs'[n].background = jobs[n].background
      /\ jobs'[n].resumed = jobs[n].resumed /\ jobs'[n].active = act
  BY <1>2, <1>6 DEF JobType
<1> QED
  BY <1>5, <1>6, <1>7

(* The shell has waited for a job: the job stays listed or not, as act says. *)
LEMMA LeaveKeeps ==
  ASSUME IInv, NEW j, j = main.job, main.pc \in {"done", "rdone"},
         main' \in MainType, main'.pc = "next", main'.segments = Tail(main.segments),
         UNCHANGED <<proc, sigchld, lines, eof_warned>>,
         tty' = Shell, fg_running' = FALSE, pending' = {}, said' \in [Pids -> SaidType],
         \A p \in Pids : Told(p) => said'[p].lost \/ said'[p].times = 1,
         ToldOnce',
         NEW act \in BOOLEAN, jobs' = [jobs EXCEPT ![j].active = act],
         act => jobs[j].active,
         PlainJob(j) /\ proc[jobs[j].pgid].state \in {"run", "stopped"} => act,
         PlainJob(j) /\ proc[jobs[j].pgid].state = "gone" => ~ act,
         OneProcess(j) /\ act => jobs[j].pids = {jobs[j].pgid}
  PROVE  IInv'
<1>1. j \in DOMAIN jobs /\ main.segments # <<>>
  BY DEF IInv, Locals, Foreground, Resuming
<1>2. \A n \in DOMAIN jobs : jobs[n].pgid \in Pids
  BY JobFields DEF IInv
<1>3. /\ jobs' \in Seq(JobType) /\ DOMAIN jobs' = DOMAIN jobs
      /\ jobs'[j].active = act
      /\ \A n \in DOMAIN jobs :
           /\ jobs'[n].pgid = jobs[n].pgid /\ jobs'[n].pids = jobs[n].pids
           /\ jobs'[n].background = jobs[n].background
           /\ jobs'[n].resumed = jobs[n].resumed
           /\ n # j => jobs'[n].active = jobs[n].active
  BY <1>1, ActiveOnly
<1>4. InTurn' /\ NewPid' = NewPid
  BY SameInTurn DEF IInv
<1>5. \A n \in DOMAIN jobs : /\ OneProcess(n)' <=> OneProcess(n)
                             /\ PlainJob(n)' <=> PlainJob(n)
  BY <1>3 DEF OneProcess, PlainJob, Group
<1>6. \A n \in DOMAIN jobs : n # j => ~ InForeground(n) /\ ~ InResume(n)
  BY DEF InForeground, InResume
<1>7. \A n : ~ InForeground(n)' /\ ~ InResume(n)'
  BY DEF InForeground, InResume, Foreground, Resuming
<1>8. Shapes'
  <2>1. Cardinality({}) <= MaxPending
    BY FS_EmptySet, ConstantsAssumption
  <2> QED
    BY <1>3, <2>1 DEF IInv, Shapes
<1>9. Room'
  BY <1>1, <1>4, LeaveRoom
<1>10. Locals' /\ Groups' /\ Pipeline' /\ Awaited'
  <2>1. Locals'
    BY DEF Locals, Foreground, Resuming, Tracing
  <2>2. Groups'
    BY DEF IInv, Groups, Tracing
  <2>3. Pipeline'
    BY DEF Pipeline
  <2>4. Awaited'
    BY DEF Awaited, Foreground, Resuming
  <2> QED
    BY <2>1, <2>2, <2>3, <2>4
<1>11. Leaders'
  <2>1. \A n \in DOMAIN jobs : jobs[n].pgid < NewPid /\ proc[jobs[n].pgid].group = jobs[n].pgid
                              /\ (jobs[n].active => jobs[n].pids # {})
    BY DEF IInv, Leaders
  <2>2. \A n, l \in DOMAIN jobs : jobs[n].pgid = jobs[l].pgid => n = l
    BY DEF IInv, Leaders
  <2>3. \A n \in DOMAIN jobs : jobs'[n].active => jobs[n].active
    BY <1>3
  <2> QED
    BY <1>3, <1>4, <2>1, <2>2, <2>3 DEF Leaders
<1>12. Signals'
  <2>1. Zombies' = Zombies
    BY DEF Zombies
  <2> QED
    BY <2>1 DEF IInv, Signals
<1>13. ~ jobs[j].background \/ jobs[j].resumed # "never"
  BY DEF IInv, Awaited, Foreground, Resuming
<1>14. \A n \in DOMAIN jobs : Unresumed(n)' => n # j /\ Unresumed(n)
  BY <1>3, <1>13 DEF Unresumed
<1>15. StillListed'
  BY <1>3, <1>14 DEF IInv, StillListed, Gone
<1>16. ThenTold'
  <2>1. SUFFICES ASSUME NEW n \in DOMAIN jobs', Unresumed(n)',
                        proc'[jobs'[n].pgid].state = "gone"
                 PROVE  \/ jobs'[n].pgid \in pending' \/ said'[jobs'[n].pgid].lost
                        \/ said'[jobs'[n].pgid].times = 1
    BY DEF ThenTold, Gone, Told
  <2>2. /\ n \in DOMAIN jobs /\ Unresumed(n) /\ proc[jobs[n].pgid].state = "gone"
        /\ jobs'[n].pgid = jobs[n].pgid
    BY <1>3, <1>14, <2>1
  <2>3. Told(jobs[n].pgid)
    BY <2>2 DEF IInv, ThenTold, Gone
  <2> QED
    BY <1>2, <2>2, <2>3
<1>17. OnlyMember'
  <2>1. SUFFICES ASSUME NEW n \in DOMAIN jobs, OneProcess(n), jobs'[n].active
                 PROVE  jobs[n].pids = {jobs[n].pgid}
    BY <1>3, <1>5 DEF OnlyMember
  <2>2. CASE n = j
    BY <1>3, <2>1, <2>2
  <2>3. CASE n # j
    BY <1>3, <1>6, <2>1, <2>3 DEF IInv, OnlyMember
  <2> QED
    BY <2>2, <2>3
<1>18. AliveListed'
  <2>1. SUFFICES ASSUME NEW n \in DOMAIN jobs, PlainJob(n),
                        proc[jobs[n].pgid].state \in {"run", "stopped"}
                 PROVE  jobs'[n].active
    BY <1>3, <1>5, <1>7 DEF AliveListed, Alive
  <2>2. CASE n = j
    BY <1>3, <2>1, <2>2
  <2>3. CASE n # j
    BY <1>3, <2>1, <2>3 DEF IInv, AliveListed, Alive
  <2> QED
    BY <2>2, <2>3
<1>19. ListedAlive'
  <2>1. SUFFICES ASSUME NEW n \in DOMAIN jobs, PlainJob(n), jobs'[n].active,
                        proc[jobs[n].pgid].state = "gone"
                 PROVE  FALSE
    BY <1>3, <1>5 DEF ListedAlive, Gone
  <2>2. CASE n = j
    BY <1>3, <2>1, <2>2
  <2>3. CASE n # j
    BY <1>3, <1>6, <2>1, <2>3 DEF IInv, ListedAlive, Gone
  <2> QED
    BY <2>2, <2>3
<1>20. LeftCounts'
  BY <1>7 DEF LeftCounts
<1> QED
  BY <1>4, <1>8, <1>9, <1>10, <1>11, <1>12, <1>15, <1>16, <1>17, <1>18, <1>19, <1>20 DEF IInv

(* run_foreground() returns. *)
LEMMA ForegroundDoneKeeps ==
  ASSUME IInv, ForegroundDone
  PROVE  IInv'
<1> DEFINE j == main.job  g == jobs[main.job].pgid
           act == jobs[main.job].active /\ main.stopped
<1>1. /\ main.pc = "done" /\ tty' = Shell
      /\ jobs' = [jobs EXCEPT ![j].active = @ /\ main.stopped]
      /\ fg_running' = FALSE /\ pending' = {} /\ main' = Drop("next")
      /\ said' = [p \in Pids |-> IF p \in pending THEN [said[p] EXCEPT !.times = @ + 1]
                                 ELSE said[p]]
      /\ UNCHANGED <<proc, sigchld, lines, eof_warned>>
  BY DEF ForegroundDone, FlushPending
<1>2. main.pc \in Foreground /\ main.pc \notin Resuming
  BY <1>1 DEF Foreground, Resuming
<1>3. j \in DOMAIN jobs /\ main.segments # <<>>
  BY <1>1, <1>2 DEF IInv, Locals
<1>4. main' \in MainType /\ main'.pc = "next" /\ main'.segments = Tail(main.segments)
  BY <1>1, <1>3, DropFields DEF IInv, Pcs
<1>5. \A p \in Pids : said[p] \in SaidType
  BY DEF IInv, Shapes
<1>6. \A p \in Pids : /\ said'[p] \in SaidType
                      /\ said'[p].lost = said[p].lost
                      /\ said'[p].times = IF p \in pending THEN 1 ELSE said[p].times
  <2> TAKE p \in Pids
  <2>1. said[p] \in SaidType
    BY <1>5
  <2>2. CASE p \in pending
    <3>1. said[p].times = 0
      BY <2>2 DEF IInv, ToldOnce
    <3> QED
      BY <1>1, <2>1, <2>2, <3>1 DEF SaidType
  <2>3. CASE p \notin pending
    BY <1>1, <2>1, <2>3 DEF SaidType
  <2> QED
    BY <2>2, <2>3
<1>7. said' \in [Pids -> SaidType]
  BY <1>1, <1>6
<1>8. \A p \in Pids : Told(p) => said'[p].lost \/ said'[p].times = 1
  BY <1>6 DEF Told
<1>9. ToldOnce'
  BY <1>1, <1>6 DEF IInv, ToldOnce, Told, Gone
<1>10. act \in BOOLEAN /\ (act => jobs[j].active) /\ (act => main.stopped)
       /\ jobs' = [jobs EXCEPT ![j].active = act]
  <2>1. jobs[j].active \in BOOLEAN /\ main.stopped \in BOOLEAN
    BY <1>3, JobFields, MainFields DEF IInv
  <2> QED
    BY <1>1, <2>1
<1>11. InForeground(j) /\ ~ InResume(j) /\ (act => Suspended)
  BY <1>1, <1>2 DEF InForeground, InResume, Suspended
<1>12. PlainJob(j) /\ proc[jobs[j].pgid].state \in {"run", "stopped"} => act
  BY <1>1, <1>3, <1>11 DEF IInv, AliveListed, Alive
<1>13. PlainJob(j) /\ proc[jobs[j].pgid].state = "gone" => ~ act
  BY <1>3, <1>10, <1>11 DEF IInv, ListedAlive, Gone
<1>14. OneProcess(j) /\ act => jobs[j].pids = {jobs[j].pgid}
  BY <1>3, <1>10, <1>11 DEF IInv, OnlyMember
<1> HIDE DEF act
<1> QED
  BY <1>1, <1>4, <1>7, <1>8, <1>9, <1>10, <1>12, <1>13, <1>14, LeaveKeeps

(* resume returns. *)
LEMMA ResumeDoneKeeps ==
  ASSUME IInv, ResumeDone
  PROVE  IInv'
<1> DEFINE j == main.job
           act == jobs[main.job].active /\ (CASE main.timer = "fired" -> FALSE
                                              [] main.timer = "set"   -> TRUE
                                              [] main.timer = "off"   -> main.left # 0)
<1>1. /\ main.pc = "rdone" /\ tty' = Shell
      /\ jobs' = [jobs EXCEPT ![j].active = act]
      /\ main' = [Drop("next") EXCEPT !.timer = "off"]
      /\ UNCHANGED <<proc, sigchld, fg_running, pending, lines, eof_warned, said>>
  BY DEF ResumeDone
<1>2. main.pc \in Resuming /\ main.pc \notin Foreground \cup {"fork"}
  BY <1>1 DEF Foreground, Resuming
<1>3. j \in DOMAIN jobs /\ main.segments # <<>>
  BY <1>1, <1>2 DEF IInv, Locals
<1>4. main' \in MainType /\ main'.pc = "next" /\ main'.segments = Tail(main.segments)
  <2>1. main \in MainType /\ Tail(main.segments) \in Segs
    BY <1>3, MainFields, StagesOfRest DEF IInv, Shapes, Segs
  <2> HIDE DEF Segs, PidSeqs
  <2> QED
    BY <1>1, <2>1 DEF MainType, Drop, Pcs
<1>5. fg_running = FALSE /\ pending = {}
  BY <1>2 DEF IInv, Signals, Shapes
<1>6. main.timer \in {"off", "set", "fired"} /\ jobs[j].active \in BOOLEAN
  BY <1>3, MainFields, JobFields DEF IInv
<1>7. act \in BOOLEAN /\ (act => jobs[j].active)
      /\ (main.timer = "off" => (act <=> jobs[j].active /\ main.left # 0))
  <2>1. CASE main.timer = "off"
    BY <1>6, <2>1
  <2>2. CASE main.timer = "set"
    BY <1>6, <2>2
  <2>3. CASE main.timer = "fired"
    BY <1>6, <2>3
  <2> QED
    BY <1>6, <2>1, <2>2, <2>3
<1> HIDE DEF act
<1>8. PlainJob(j) => main.timer = "off"
  BY <1>2 DEF IInv, Awaited, PlainJob
<1>9. ~ InForeground(j) /\ InResume(j)
  BY <1>2 DEF InForeground, InResume
<1>10. PlainJob(j) /\ jobs[j].active => (main.left = 0 <=> proc[jobs[j].pgid].state = "gone")
  BY <1>2, AwaitedJob DEF Gone
<1>11. PlainJob(j) /\ proc[jobs[j].pgid].state \in {"run", "stopped"} => act
  <2>1. PlainJob(j) /\ proc[jobs[j].pgid].state \in {"run", "stopped"} => jobs[j].active
    BY <1>3 DEF IInv, AliveListed, Alive
  <2> QED
    BY <1>7, <1>8, <1>10, <2>1
<1>12. PlainJob(j) /\ proc[jobs[j].pgid].state = "gone" => ~ act
  BY <1>7, <1>8, <1>10
<1>13. OneProcess(j) /\ act => jobs[j].pids = {jobs[j].pgid}
  BY <1>3, <1>7, <1>9 DEF IInv, OnlyMember
<1>14. ToldOnce'
  BY <1>1 DEF IInv, ToldOnce, Told, Gone
<1>15. \A p \in Pids : Told(p) => said'[p].lost \/ said'[p].times = 1
  BY <1>1, <1>5 DEF Told
<1>16. said' \in [Pids -> SaidType]
  BY <1>1 DEF IInv, Shapes
<1> QED
  BY <1>1, <1>4, <1>5, <1>7, <1>11, <1>12, <1>13, <1>14, <1>15, <1>16, LeaveKeeps

-----------------------------------------------------------------------------
(* The builtin resume, up to the terminal, and snoop.                      *)

(* What a user may ask of resume. *)
LEMMA ResumeHowType == ResumeHow \in {"bg", "fg", "timed", "invalid"}
  BY DEF ResumeHow

(* SIGCONT for a group. *)
LEMMA ContinuedKeeps ==
  ASSUME IInv, NEW g, proc' = Continued(g)
  PROVE  /\ proc' \in [Pids -> ProcType] /\ \A p \in Pids : Moved(p)
         /\ \A p \in Pids : proc'[p].group = proc[p].group
         /\ Zombies' = Zombies
<1>1. \A p \in Pids : proc[p] \in ProcType
  BY DEF IInv, Shapes
<1>2. \A p \in Pids :
        /\ proc'[p] \in ProcType /\ proc'[p].group = proc[p].group
        /\ \/ proc'[p].state = proc[p].state
           \/ proc'[p].state = "run" /\ proc[p].state = "stopped"
  <2> TAKE p \in Pids
  <2>1. proc[p] \in ProcType
    BY <1>1
  <2>2. \/ proc'[p] = proc[p]
        \/ proc[p].state = "stopped" /\ proc'[p] = [proc[p] EXCEPT !.state = "run", !.news = FALSE]
    BY DEF Continued
  <2> QED
    BY <2>1, <2>2 DEF ProcType
<1>3. proc' \in [Pids -> ProcType]
  BY <1>2 DEF Continued
<1>4. \A p \in Pids : Moved(p)
  BY <1>2 DEF Moved
<1>5. \A p \in Pids : proc'[p].state = "zombie" <=> proc[p].state = "zombie"
  BY <1>2
<1> QED
  BY <1>2, <1>3, <1>4, <1>5 DEF Zombies

(* The history of a job that is resumed. *)
LEMMA ResumedOnly ==
  ASSUME IInv, NEW n \in DOMAIN jobs, NEW how \in {"fg", "timed"},
         jobs' = [jobs EXCEPT ![n].resumed = how]
  PROVE  /\ jobs' \in Seq(JobType) /\ DOMAIN jobs' = DOMAIN jobs
         /\ jobs'[n].resumed = how
         /\ \A l \in DOMAIN jobs :
              /\ jobs'[l].pgid = jobs[l].pgid /\ jobs'[l].pids = jobs[l].pids
              /\ jobs'[l].background = jobs[l].background
              /\ jobs'[l].active = jobs[l].active
              /\ l # n => jobs'[l].resumed = jobs[l].resumed
<1>1. jobs \in Seq(JobType) /\ DOMAIN jobs = 1..Len(jobs)
  BY LenProperties DEF IInv, Shapes
<1>2. jobs[n] \in JobType
  BY <1>1, ElementOfSeq
<1>3. [jobs[n] EXCEPT !.resumed = how] \in JobType
  BY <1>2 DEF JobType
<1>4. jobs' = [jobs EXCEPT ![n] = [jobs[n] EXCEPT !.resumed = how]]
  OBVIOUS
<1>5. jobs' \in Seq(JobType)
  BY <1>1, <1>3, <1>4, ExceptSeq
<1>6. DOMAIN jobs' = DOMAIN jobs /\ jobs'[n] = [jobs[n] EXCEPT !.resumed = how]
      /\ \A l \in DOMAIN jobs \ {n} : jobs'[l] = jobs[l]
  BY <1>4
<1>7. /\ jobs'[n].pgid = jobs[n].pgid /\ jobs'[n].pids = jobs[n].pids
      /\ jobs'[n].background = jobs[n].background
      /\ jobs'[n].active = jobs[n].active /\ jobs'[n].resumed = how
  BY <1>2, <1>6 DEF JobType
<1> QED
  BY <1>5, <1>6, <1>7

(* resume sends SIGCONT; a job that comes to the foreground is no longer one *)
(* that was never resumed.                                                   *)
LEMMA ResumeKeeps ==
  ASSUME IInv, Resume
  PROVE  IInv'
<1>1. /\ main.pc = "next" /\ main.segments # <<>> /\ ResumeHow # "invalid"
      /\ UNCHANGED <<sigchld, tty, fg_running, pending, lines, eof_warned, said>>
  BY DEF Resume, AtBuiltin
<1>2. PICK n \in JobNamed(Args[1]) :
        /\ proc' = Continued(jobs[n].pgid)
        /\ IF ResumeHow = "bg"
           THEN /\ jobs' = [jobs EXCEPT ![n].state = "Running"]
                /\ main' = Drop("next")
           ELSE /\ main' = [main EXCEPT !.pc = "rterminal", !.job = n, !.how = ResumeHow]
                /\ jobs' = [jobs EXCEPT ![n].resumed = IF @ = "timed" THEN @ ELSE ResumeHow]
  BY DEF Resume
<1>3. n \in DOMAIN jobs
  BY DEF JobNamed, ActiveJobs
<1>4. /\ proc' \in [Pids -> ProcType] /\ \A p \in Pids : Moved(p)
      /\ \A p \in Pids : proc'[p].group = proc[p].group
      /\ Zombies' = Zombies
  BY <1>2, ContinuedKeeps
<1>5. main \in MainType /\ jobs \in Seq(JobType)
  BY DEF IInv, Shapes
<1>6. /\ main' \in MainType
      /\ \/ main'.pc = "next" /\ main'.segments = Tail(main.segments)
         \/ /\ main'.pc = "rterminal" /\ main'.segments = main.segments
            /\ main'.job = n /\ jobs'[n].resumed # "never"
            /\ main'.how = "timed" => jobs'[n].resumed = "timed"
      /\ jobs' \in Seq(JobType) /\ DOMAIN jobs' = DOMAIN jobs
      /\ \A l \in DOMAIN jobs :
           /\ jobs'[l].pgid = jobs[l].pgid /\ jobs'[l].pids = jobs[l].pids
           /\ jobs'[l].background = jobs[l].background /\ jobs'[l].active = jobs[l].active
           /\ \/ jobs'[l].resumed = jobs[l].resumed
              \/ jobs'[l].resumed # "never" /\ jobs[l].resumed # "timed"
  <2>1. CASE ResumeHow = "bg"
    <3>1. jobs' = [jobs EXCEPT ![n].state = "Running"] /\ main' = Drop("next")
      BY <1>2, <2>1
    <3>2. jobs' \in Seq(JobType) /\ SameTable
      BY <1>3, <3>1, StateOnly
    <3>3. main' \in MainType /\ main'.pc = "next" /\ main'.segments = Tail(main.segments)
      BY <1>1, <3>1, DropFields DEF IInv, Pcs
    <3> QED
      BY <3>2, <3>3 DEF SameTable, SameJob
  <2>2. CASE ResumeHow # "bg"
    <3> DEFINE how == IF jobs[n].resumed = "timed" THEN jobs[n].resumed ELSE ResumeHow
    <3>1. ResumeHow \in {"fg", "timed"}
      BY <1>1, <2>2, ResumeHowType
    <3>2. how \in {"fg", "timed"} /\ (ResumeHow = "timed" => how = "timed")
          /\ (jobs[n].resumed = "timed" => how = "timed")
      BY <3>1
    <3>3. /\ main' = [main EXCEPT !.pc = "rterminal", !.job = n, !.how = ResumeHow]
          /\ jobs' = [jobs EXCEPT ![n].resumed = how]
      BY <1>2, <2>2
    <3> HIDE DEF how
    <3>4. /\ jobs' \in Seq(JobType) /\ DOMAIN jobs' = DOMAIN jobs
          /\ jobs'[n].resumed = how
          /\ \A l \in DOMAIN jobs :
               /\ jobs'[l].pgid = jobs[l].pgid /\ jobs'[l].pids = jobs[l].pids
               /\ jobs'[l].background = jobs[l].background
               /\ jobs'[l].active = jobs[l].active
               /\ l # n => jobs'[l].resumed = jobs[l].resumed
      BY <1>3, <3>2, <3>3, ResumedOnly
    <3>5. /\ main' \in MainType /\ main'.pc = "rterminal" /\ main'.segments = main.segments
          /\ main'.job = n /\ main'.how = ResumeHow
      <4>1. n \in Nat
        BY <1>3, <1>5, LenProperties
      <4> HIDE DEF Segs, PidSeqs
      <4> QED
        BY <1>5, <3>1, <3>3, <4>1 DEF MainType, Pcs
    <3>6. \A l \in DOMAIN jobs : \/ jobs'[l].resumed = jobs[l].resumed
                                 \/ jobs'[l].resumed # "never" /\ jobs[l].resumed # "timed"
      BY <3>2, <3>4
    <3> QED
      BY <3>2, <3>4, <3>5, <3>6
  <2> QED
    BY <2>1, <2>2
<1>7. \A l \in DOMAIN jobs : jobs[l].pgid \in Pids
  BY JobFields DEF IInv
<1>8. InTurn' /\ NewPid' = NewPid
  BY <1>4, SameInTurn DEF IInv, Moved
<1>9. \A l \in DOMAIN jobs : /\ OneProcess(l)' <=> OneProcess(l)
                             /\ PlainJob(l)' => PlainJob(l)
                             /\ Unresumed(l)' => Unresumed(l)
  BY <1>4, <1>6 DEF OneProcess, PlainJob, Group, Unresumed
<1>10. \A l : ~ InForeground(l) /\ ~ InResume(l) /\ ~ InForeground(l)' /\ ~ InResume(l)'
  BY <1>1, <1>6 DEF InForeground, InResume, Foreground, Resuming
<1>11. Shapes'
  BY <1>1, <1>4, <1>6 DEF IInv, Shapes
<1>12. Room'
  <2>1. CASE main'.pc = "next"
    BY <1>1, <1>6, <1>8, <2>1, LeaveRoom
  <2>2. CASE main'.pc = "rterminal"
    <3>1. Forked = 0 /\ Forked' = 0
      BY <1>1, <2>2 DEF Forked, Foreground, Tracing
    <3> QED
      BY <1>1, <1>6, <1>8, <2>2, <3>1 DEF IInv, Room
  <2> QED
    BY <1>6, <2>1, <2>2
<1>13. Locals'
  BY <1>1, <1>3, <1>6 DEF Locals, Foreground, Resuming, Tracing
<1>14. Groups'
  <2>1. \A p \in Pids : proc'[p].state = "none" => proc'[p].group = Shell
    BY <1>4 DEF IInv, Groups, Moved
  <2> QED
    BY <1>6, <2>1 DEF Groups, Tracing
<1>15. Pipeline'
  BY <1>6 DEF Pipeline
<1>16. Awaited'
  BY <1>6 DEF Awaited, Foreground, Resuming
<1>17. Signals'
  BY <1>1, <1>4, AtRest DEF IInv, Signals
<1>18. Leaders'
  <2>1. \A l \in DOMAIN jobs : jobs[l].pgid < NewPid /\ proc[jobs[l].pgid].group = jobs[l].pgid
                              /\ (jobs[l].active => jobs[l].pids # {})
    BY DEF IInv, Leaders
  <2>2. \A l, k \in DOMAIN jobs : jobs[l].pgid = jobs[k].pgid => l = k
    BY DEF IInv, Leaders
  <2> QED
    BY <1>4, <1>6, <1>7, <1>8, <2>1, <2>2 DEF Leaders
<1>19. \A l \in DOMAIN jobs :
         /\ proc'[jobs[l].pgid].state = "gone" <=> proc[jobs[l].pgid].state = "gone"
         /\ proc'[jobs[l].pgid].state \in {"run", "stopped"} =>
              proc[jobs[l].pgid].state \in {"run", "stopped"}
  BY <1>4, <1>7 DEF Moved
<1>20. OnlyMember'
  BY <1>6, <1>9, <1>10 DEF IInv, OnlyMember
<1>21. AliveListed'
  BY <1>6, <1>9, <1>10, <1>19 DEF IInv, AliveListed, Alive
<1>22. ListedAlive'
  BY <1>6, <1>9, <1>10, <1>19 DEF IInv, ListedAlive, Gone
<1>23. LeftCounts'
  BY <1>10 DEF LeftCounts
<1>24. StillListed'
  BY <1>6, <1>9, <1>19 DEF IInv, StillListed, Gone
<1>25. ThenTold'
  <2>1. SUFFICES ASSUME NEW l \in DOMAIN jobs', Unresumed(l)',
                        proc'[jobs'[l].pgid].state = "gone"
                 PROVE  \/ jobs'[l].pgid \in pending' \/ said'[jobs'[l].pgid].lost
                        \/ said'[jobs'[l].pgid].times = 1
    BY DEF ThenTold, Gone, Told
  <2>2. /\ l \in DOMAIN jobs /\ Unresumed(l) /\ proc[jobs[l].pgid].state = "gone"
        /\ jobs'[l].pgid = jobs[l].pgid
    BY <1>6, <1>9, <1>19, <2>1
  <2> QED
    BY <1>1, <2>2 DEF IInv, ThenTold, Gone, Told
<1>26. ToldOnce'
  BY <1>1, <1>4 DEF IInv, ToldOnce, Gone, Told, Moved
<1> QED
  BY <1>8, <1>11, <1>12, <1>13, <1>14, <1>15, <1>16, <1>17, <1>18, <1>20, <1>21, <1>22,
     <1>23, <1>24, <1>25, <1>26 DEF IInv

(* The tracer waits for its child, or lets it go on. *)
LEMMA SnoopingKeeps ==
  ASSUME IInv, Snooping
  PROVE  IInv'
<1> DEFINE p == main.pids[1]
<1>1. /\ SnoopWait(p) \/ SnoopGo(p)
      /\ UNCHANGED <<sigchld, tty, jobs, fg_running, pending, lines, eof_warned, said>>
  BY DEF Snooping
<1>2. main.pc \in Tracing /\ main.pc \notin Foreground \cup Resuming \cup {"fork"}
  BY <1>1 DEF SnoopWait, SnoopGo, Tracing, Foreground, Resuming
<1>3. /\ p \in Pids /\ proc[p].group = Shell
      /\ main.pc = "trace_go" => proc[p].state = "stopped"
  BY <1>2, Tracee
<1>4. main.segments # <<>>
  BY <1>2 DEF IInv, Locals, Tracing
<1>5. main \in MainType /\ proc \in [Pids -> ProcType] /\ proc[p] \in ProcType
      /\ 0 \in 0..MaxPids
  BY <1>3, ConstantsAssumption DEF IInv, Shapes
<1> HIDE DEF p
<1> DEFINE Outcome ==
        /\ proc' \in [Pids -> ProcType] /\ \A q \in Pids \ {p} : proc'[q] = proc[q]
        /\ proc'[p].group = Shell
        /\ proc'[p].state = "none" <=> proc[p].state = "none"
        /\ proc'[p].state = "zombie" => proc[p].state = "zombie"
        /\ proc[p].state = "gone" => proc'[p].state = "gone"
        /\ main'.pc = "trace_go" => proc'[p].state = "stopped"
        /\ main' \in MainType
        /\ \/ main'.pc = "next" /\ main'.segments = Tail(main.segments)
           \/ main'.pc \in Tracing /\ main'.segments = main.segments /\ main'.pids = main.pids
<1>6. Outcome
  <2>1. CASE SnoopGo(p)
    <3>1. /\ proc' = [proc EXCEPT ![p].state = "run"] /\ main.pc = "trace_go"
          /\ main' = [main EXCEPT !.pc = "trace_wait", !.left = 0]
      BY <2>1 DEF SnoopGo
    <3>2. /\ proc' \in [Pids -> ProcType] /\ \A q \in Pids \ {p} : proc'[q] = proc[q]
          /\ proc'[p].group = proc[p].group /\ proc'[p].state = "run"
      BY <1>3, <1>5, <3>1 DEF ProcType
    <3>3. /\ main' \in MainType /\ main'.pc = "trace_wait" /\ main'.segments = main.segments
          /\ main'.pids = main.pids
      <4> HIDE DEF Segs, PidSeqs
      <4> QED
        BY <1>5, <3>1 DEF MainType, Pcs, Tracing
    <3> QED
      BY <1>3, <3>1, <3>2, <3>3 DEF Tracing
  <2>2. ASSUME main.pc = "trace_wait", proc[p].state = "stopped",
               proc' = [proc EXCEPT ![p].news = FALSE], Goto("trace_go")
        PROVE  Outcome
    <3>1. /\ proc' \in [Pids -> ProcType] /\ \A q \in Pids \ {p} : proc'[q] = proc[q]
          /\ proc'[p].group = proc[p].group /\ proc'[p].state = "stopped"
      BY <1>3, <1>5, <2>2 DEF ProcType
    <3>2. /\ main' \in MainType /\ main'.pc = "trace_go" /\ main'.segments = main.segments
          /\ main'.pids = main.pids
      BY <2>2, GotoFields DEF IInv, Pcs, Tracing
    <3> QED
      BY <1>3, <2>2, <3>1, <3>2 DEF Tracing
  <2>3. ASSUME main.pc = "trace_wait", proc[p].state = "zombie", proc' = Taken({p}),
               main' = IF main.left = 1 THEN [main EXCEPT !.left = 0] ELSE Drop("next")
        PROVE  Outcome
    <3>1. /\ proc' \in [Pids -> ProcType] /\ \A q \in Pids \ {p} : proc'[q] = proc[q]
          /\ proc'[p].group = proc[p].group /\ proc'[p].state = "gone"
      <4>1. proc'[p] = [proc[p] EXCEPT !.state = "gone"]
        BY <1>3, <2>3 DEF Taken
      <4>2. \A q \in Pids \ {p} : proc'[q] = proc[q]
        BY <2>3 DEF Taken
      <4>3. proc'[p] \in ProcType /\ proc'[p].group = proc[p].group /\ proc'[p].state = "gone"
        BY <1>5, <4>1 DEF ProcType
      <4>4. \A q \in Pids : proc'[q] \in ProcType
        BY <1>5, <4>2, <4>3
      <4> QED
        BY <2>3, <4>2, <4>3, <4>4 DEF Taken
    <3>2. CASE main.left = 1
      <4>1. /\ main' \in MainType /\ main'.pc = "trace_wait" /\ main'.segments = main.segments
            /\ main'.pids = main.pids
        <5> HIDE DEF Segs, PidSeqs
        <5> QED
          BY <1>5, <2>3, <3>2 DEF MainType
      <4> QED
        BY <1>3, <2>3, <3>1, <4>1 DEF Tracing
    <3>3. CASE main.left # 1
      <4>1. main' \in MainType /\ main'.pc = "next" /\ main'.segments = Tail(main.segments)
        BY <1>4, <2>3, <3>3, DropFields DEF IInv, Pcs
      <4> QED
        BY <1>3, <2>3, <3>1, <4>1
    <3> QED
      BY <3>2, <3>3
  <2>4. ASSUME main.pc = "trace_wait", proc[p].state = "gone",
               main' \in {main, Drop("next")}, UNCHANGED proc
        PROVE  Outcome
    <3>1. CASE main' = main
      BY <1>3, <1>5, <2>4, <3>1 DEF Tracing
    <3>2. CASE main' = Drop("next")
      <4>1. main' \in MainType /\ main'.pc = "next" /\ main'.segments = Tail(main.segments)
        BY <1>4, <3>2, DropFields DEF IInv, Pcs
      <4> QED
        BY <1>3, <1>5, <2>4, <4>1
    <3> QED
      BY <2>4, <3>1, <3>2
  <2> QED
    BY <1>1, <2>1, <2>2, <2>3, <2>4 DEF SnoopWait
<1>7. \A q \in Pids : /\ proc'[q].group = proc[q].group
                      /\ proc'[q].state = "none" <=> proc[q].state = "none"
                      /\ proc'[q].state = "zombie" => proc[q].state = "zombie"
                      /\ proc[q].state = "gone" => proc'[q].state = "gone"
  BY <1>3, <1>6
<1>8. \A n \in DOMAIN jobs : jobs[n].pgid \in Pids /\ proc'[jobs[n].pgid] = proc[jobs[n].pgid]
  <2> TAKE n \in DOMAIN jobs
  <2>1. jobs[n].pgid \in Pids
    BY JobFields DEF IInv
  <2>2. proc[jobs[n].pgid].group = jobs[n].pgid
    BY DEF IInv, Leaders
  <2>3. jobs[n].pgid # Shell
    BY <2>1, ConstantsAssumption DEF Pids, Shell
  <2> QED
    BY <1>3, <1>6, <2>1, <2>2, <2>3
<1>9. InTurn' /\ NewPid' = NewPid
  BY <1>7, SameInTurn DEF IInv
<1>10. \A n \in DOMAIN jobs : /\ OneProcess(n)' <=> OneProcess(n)
                              /\ PlainJob(n)' <=> PlainJob(n)
                              /\ Unresumed(n)' <=> Unresumed(n)
  BY <1>1, <1>7 DEF OneProcess, PlainJob, Group, Unresumed
<1>11. \A n : ~ InForeground(n) /\ ~ InResume(n) /\ ~ InForeground(n)' /\ ~ InResume(n)'
  BY <1>2, <1>6 DEF InForeground, InResume, Foreground, Resuming, Tracing
<1>12. Shapes'
  BY <1>1, <1>6 DEF IInv, Shapes
<1>13. Room'
  <2>1. CASE main'.pc = "next" /\ main'.segments = Tail(main.segments)
    BY <1>2, <1>4, <1>9, <2>1, LeaveRoom DEF Tracing
  <2>2. CASE main'.pc \in Tracing /\ main'.segments = main.segments /\ main'.pids = main.pids
    <3>1. Forked' = Forked
      BY <1>2, <2>2 DEF Forked
    <3>2. main.pc \notin {"prompt", "exited"}
      BY <1>2 DEF Tracing
    <3> QED
      BY <1>9, <2>2, <3>1, <3>2 DEF IInv, Room
  <2> QED
    BY <1>6, <2>1, <2>2
<1>14. Locals'
  <2>1. CASE main'.pc = "next"
    BY <2>1 DEF Locals, Foreground, Resuming, Tracing
  <2>2. CASE main'.pc \in Tracing /\ main'.segments = main.segments /\ main'.pids = main.pids
    <3>1. Segment' = Segment
      BY <2>2 DEF Segment
    <3>2. /\ Len(main.pids) <= Len(Segment.stages) /\ Len(main.pids) < NewPid
          /\ \A i \in 1..Len(main.pids) : main.pids[i] < NewPid
          /\ Len(main.pids) > 0
      BY <1>2 DEF IInv, Locals
    <3>3. main'.pc \notin {"wait", "rwait"} \cup Foreground \cup Resuming \cup {"rterminal"}
      BY <2>2 DEF Tracing, Foreground, Resuming
    <3> QED
      BY <1>4, <1>9, <2>2, <3>1, <3>2, <3>3 DEF Locals
  <2> QED
    BY <1>6, <2>1, <2>2
<1>15. Groups'
  <2>1. \A q \in Pids : proc'[q].state = "none" => proc'[q].group = Shell
    BY <1>7 DEF IInv, Groups
  <2>2. main'.pc \in Tracing => main'.pids[1] = p
    BY <1>6 DEF p, Tracing
  <2> QED
    BY <1>6, <2>1, <2>2 DEF Groups
<1>16. Pipeline'
  BY <1>6 DEF Pipeline, Tracing
<1>17. Awaited'
  BY <1>6 DEF Awaited, Foreground, Resuming, Tracing
<1>18. Signals'
  <2>1. Zombies' \subseteq Zombies
    BY <1>7 DEF Zombies
  <2>2. tty = Shell
    BY <1>2 DEF IInv, Signals, Foreground
  <2>3. fg_running = FALSE /\ pending = {}
    BY <1>2 DEF IInv, Signals, Shapes
  <2> QED
    BY <1>1, <2>1, <2>2, <2>3 DEF IInv, Signals
<1>19. Leaders'
  <2>1. \A n \in DOMAIN jobs : jobs[n].pgid < NewPid /\ proc[jobs[n].pgid].group = jobs[n].pgid
                              /\ (jobs[n].active => jobs[n].pids # {})
    BY DEF IInv, Leaders
  <2>2. \A n, l \in DOMAIN jobs : jobs[n].pgid = jobs[l].pgid => n = l
    BY DEF IInv, Leaders
  <2> QED
    BY <1>1, <1>8, <1>9, <2>1, <2>2 DEF Leaders
<1>20. OnlyMember'
  BY <1>1, <1>8, <1>10, <1>11 DEF IInv, OnlyMember
<1>21. AliveListed'
  BY <1>1, <1>8, <1>10, <1>11 DEF IInv, AliveListed, Alive
<1>22. ListedAlive'
  BY <1>1, <1>8, <1>10, <1>11 DEF IInv, ListedAlive, Gone
<1>23. LeftCounts'
  BY <1>11 DEF LeftCounts
<1>24. StillListed'
  BY <1>1, <1>8, <1>10 DEF IInv, StillListed, Gone
<1>25. ThenTold'
  BY <1>1, <1>8, <1>10 DEF IInv, ThenTold, Gone, Told
<1>26. ToldOnce'
  BY <1>1, <1>7 DEF IInv, ToldOnce, Gone, Told
<1> QED
  BY <1>9, <1>12, <1>13, <1>14, <1>15, <1>16, <1>17, <1>18, <1>19, <1>20, <1>21, <1>22,
     <1>23, <1>24, <1>25, <1>26 DEF IInv

-----------------------------------------------------------------------------
(* The theorems.                                                           *)

(* No child, an empty table, the prompt. *)
LEMMA InitGood ==
  ASSUME Init
  PROVE  IInv
<1>1. /\ proc = [p \in Pids |-> [state |-> "none", group |-> Shell, gated |-> FALSE, news |-> FALSE]]
      /\ sigchld = FALSE /\ tty = Shell
      /\ jobs = <<>> /\ fg_running = FALSE /\ pending = {}
      /\ main = Prompt /\ lines = 0 /\ eof_warned = FALSE
      /\ said = [p \in Pids |-> [times |-> 0, lost |-> FALSE]]
  BY DEF Init
<1>2. DOMAIN jobs = {} /\ jobs \in Seq(JobType)
  BY <1>1
<1>3. main \in MainType /\ main.pc = "prompt"
  <2>1. 0 \in 0..MaxPids /\ <<>> \in Segs /\ <<>> \in PidSeqs
    BY ConstantsAssumption DEF Segs, PidSeqs
  <2> HIDE DEF Segs, PidSeqs
  <2> QED
    BY <1>1, <2>1 DEF MainType, Prompt, Pcs
<1>4. Shapes
  <2>1. Cardinality({}) <= MaxPending
    BY FS_EmptySet, ConstantsAssumption
  <2>2. proc \in [Pids -> ProcType] /\ said \in [Pids -> SaidType]
    BY <1>1 DEF ProcType, SaidType
  <2>3. lines \in 0..MaxLines
    BY <1>1, ConstantsAssumption
  <2> QED
    BY <1>1, <1>2, <1>3, <2>1, <2>2, <2>3 DEF Shapes
<1>5. InTurn
  <2>1. Used = {} /\ 0 \in 0..MaxPids /\ 1..0 = {}
    BY <1>1, ConstantsAssumption DEF Used
  <2>2. NewPid = 0 + 1
    BY <2>1, Counted
  <2> QED
    BY <2>1, <2>2, ConstantsAssumption DEF InTurn
<1>6. Room /\ Locals /\ Pipeline /\ Awaited
  BY <1>3 DEF Room, Locals, Pipeline, Awaited, Foreground, Resuming, Tracing
<1>7. Groups
  BY <1>1, <1>3 DEF Groups, Tracing
<1>8. Signals
  BY <1>1, <1>3 DEF Signals, Zombies
<1>9. /\ Leaders /\ OnlyMember /\ AliveListed /\ ListedAlive /\ LeftCounts
      /\ StillListed /\ ThenTold
  BY <1>2 DEF Leaders, OnlyMember, AliveListed, ListedAlive, LeftCounts, StillListed, ThenTold
<1>10. ToldOnce
  BY <1>1 DEF ToldOnce, Told
<1> QED
  BY <1>4, <1>5, <1>6, <1>7, <1>8, <1>9, <1>10 DEF IInv

(* A step that changes nothing. *)
LEMMA StutterKeeps ==
  ASSUME IInv, UNCHANGED vars
  PROVE  IInv'
<1>1. UNCHANGED <<proc, sigchld, tty, jobs, fg_running, pending, main, lines, eof_warned, said>>
  BY DEF vars
<1>2. \A p \in Pids : Moved(p)
  BY <1>1 DEF Moved
<1>3. proc' \in [Pids -> ProcType] /\ sigchld' \in BOOLEAN
  BY <1>1 DEF IInv, Shapes
<1>4. main.pc = "trace_go" => proc'[main.pids[1]].state = "stopped"
  BY <1>1, Tracee DEF Tracing
<1>5. \A p \in Pids : /\ proc'[p].gated = proc[p].gated
                      /\ Alive(p) => proc'[p].state \in {"run", "stopped"}
                      /\ ~ (proc'[p].state = "zombie" /\ proc[p].state # "zombie")
  BY <1>1 DEF Alive
<1> QED
  BY <1>1, <1>2, <1>3, <1>4, <1>5, SignalKeeps

(* Every step keeps the invariant. *)
LEMMA StepKeeps ==
  ASSUME IInv, [Next]_vars
  PROVE  IInv'
<1>1. CASE ShellStep
  BY <1>1, RunCmdEndKeeps, SkipKeeps, StartKeeps, ForkKeeps, RegisterKeeps, GiveTerminalKeeps,
     WaitForegroundKeeps, ForegroundDoneKeeps, HandlerKeeps, ExitKeeps, ResumeKeeps,
     ResumeTerminalKeeps, ResumeCheckKeeps, ResumeWaitKeeps, ResumeDoneKeeps, PingKeeps,
     SnoopKeeps, SnoopingKeeps
  DEF ShellStep
<1>2. CASE Handler \/ Alarm
  BY <1>2, HandlerKeeps, ResumeCheckKeeps
<1>3. CASE User
  BY <1>3, ExitKeeps, StopsKeep, ReadLineKeeps DEF User
<1>4. CASE Children
  BY <1>4, ExitChildKeeps, StopsKeep DEF Children
<1>5. CASE UNCHANGED vars
  BY <1>5, StutterKeeps
<1> QED
  BY <1>1, <1>2, <1>3, <1>4, <1>5 DEF Next

(* The invariant holds whatever the handler and the children race with. *)
THEOREM Invariant == Spec => []IInv
<1>1. Init => IInv
  BY InitGood
<1>2. IInv /\ [Next]_vars => IInv'
  BY StepKeeps
<1> QED
  BY <1>1, <1>2, PTL DEF Spec

(* The table, the queue and the locals of the shell keep their types: a       *)
(* listed job has a process, the queue never overflows, the count of a wait   *)
(* never goes below zero, and no process is announced twice.                 *)
THEOREM TypesHold == Spec => []TypeOK
<1>1. IInv => TypeOK
  <2>1. SUFFICES ASSUME IInv PROVE TypeOK
    OBVIOUS
  <2>2. \A n \in DOMAIN jobs : /\ jobs[n].pgid \in Pids /\ jobs[n].pids \subseteq Pids
                               /\ jobs[n].active => jobs[n].pids # {}
    BY <2>1, JobFields DEF IInv, Leaders
  <2>3. main.left \in 0..MaxPids
    BY <2>1, MainFields DEF IInv
  <2>4. proc \in [Pids -> [state : {"none", "run", "stopped", "zombie", "gone"},
                           group : Pids \cup {Shell}, gated : BOOLEAN, news : BOOLEAN]]
    BY <2>1 DEF IInv, Shapes, ProcType
  <2>5. said \in [Pids -> [times : 0..1, lost : BOOLEAN]]
    BY <2>1 DEF IInv, Shapes, SaidType
  <2>6. /\ sigchld \in BOOLEAN /\ fg_running \in BOOLEAN /\ eof_warned \in BOOLEAN
        /\ tty \in Pids \cup {Shell}
        /\ pending \subseteq Pids /\ Cardinality(pending) <= MaxPending
        /\ lines \in 0..MaxLines
    BY <2>1 DEF IInv, Shapes
  <2> QED
    BY <2>2, <2>3, <2>4, <2>5, <2>6 DEF TypeOK
<1> QED
  BY <1>1, Invariant, PTL

(* At the prompt with no signal pending, the table of jobs of one process     *)
(* tells the truth: active exactly when the process is alive, no zombie is    *)
(* left, and the terminal and fg_running are the shell's again.              *)
THEOREM TableTrue == Spec => []PlainJobsTrue
<1>1. IInv => PlainJobsTrue
  <2>1. SUFFICES ASSUME IInv, main.pc = "prompt", ~ sigchld
                 PROVE  /\ Zombies = {} /\ tty = Shell /\ ~ fg_running
                        /\ \A n \in DOMAIN jobs :
                             OneProcess(n) /\ jobs[n].resumed # "timed"
                               => (jobs[n].active <=> Alive(jobs[n].pgid))
    BY DEF PlainJobsTrue, Quiet
  <2>2. Zombies = {}
    BY <2>1 DEF IInv, Signals
  <2>3. tty = Shell /\ ~ fg_running
    BY <2>1, AtRest
  <2>4. ASSUME NEW n \in DOMAIN jobs, OneProcess(n), jobs[n].resumed # "timed"
        PROVE  jobs[n].active <=> Alive(jobs[n].pgid)
    <3>1. jobs[n].pgid \in Pids /\ jobs[n].pgid < NewPid
      BY <2>1, JobFields DEF IInv, Leaders
    <3>2. proc[jobs[n].pgid].state \notin {"none", "zombie"}
      BY <2>1, <2>2, <3>1, InTurnUsed DEF IInv, Zombies
    <3>3. Alive(jobs[n].pgid) \/ Gone(jobs[n].pgid)
      BY <2>1, <3>1, <3>2, ProcFields DEF IInv, Alive, Gone
    <3>4. PlainJob(n)
      BY <2>4 DEF PlainJob
    <3>5. ~ InForeground(n) /\ ~ InResume(n)
      BY <2>1 DEF InForeground, InResume, Foreground, Resuming
    <3>6. Alive(jobs[n].pgid) => jobs[n].active
      BY <2>1, <3>4 DEF IInv, AliveListed
    <3>7. jobs[n].active => ~ Gone(jobs[n].pgid)
      BY <2>1, <3>4, <3>5 DEF IInv, ListedAlive
    <3> QED
      BY <3>3, <3>6, <3>7
  <2> QED
    BY <2>2, <2>3, <2>4
<1> QED
  BY <1>1, Invariant, PTL

(* The first process of a background job that was never resumed in the        *)
(* foreground is announced exactly once when it ends, unless the queue was    *)
(* full.                                                                     *)
THEOREM AnnouncedOnce == Spec => []Announced
<1>1. IInv => Announced
  <2>1. SUFFICES ASSUME IInv, main.pc = "prompt", ~ sigchld
                 PROVE  /\ pending = {}
                        /\ \A n \in DOMAIN jobs :
                             jobs[n].background /\ jobs[n].resumed = "never" =>
                               said[jobs[n].pgid].times =
                                 IF Alive(jobs[n].pgid) \/ said[jobs[n].pgid].lost THEN 0 ELSE 1
    BY DEF Announced, Quiet
  <2>2. Zombies = {}
    BY <2>1 DEF IInv, Signals
  <2>3. pending = {}
    BY <2>1, AtRest
  <2>4. ASSUME NEW n \in DOMAIN jobs, jobs[n].background, jobs[n].resumed = "never"
        PROVE  said[jobs[n].pgid].times =
                 IF Alive(jobs[n].pgid) \/ said[jobs[n].pgid].lost THEN 0 ELSE 1
    <3> DEFINE p == jobs[n].pgid
    <3>1. p \in Pids /\ p < NewPid
      BY <2>1, JobFields DEF IInv, Leaders
    <3>2. proc[p].state \notin {"none", "zombie"}
      BY <2>1, <2>2, <3>1, InTurnUsed DEF IInv, Zombies
    <3>3. Alive(p) \/ Gone(p)
      BY <2>1, <3>1, <3>2, ProcFields DEF IInv, Alive, Gone
    <3>4. Unresumed(n)
      BY <2>4 DEF Unresumed
    <3>5. Gone(p) => said[p].lost \/ said[p].times = 1
      BY <2>1, <2>3, <3>4 DEF IInv, ThenTold, Told
    <3>6. said[p].lost => said[p].times = 0
      BY <2>1, <3>1 DEF IInv, ToldOnce
    <3>7. Alive(p) => ~ Gone(p)
      BY DEF Alive, Gone
    <3>8. said[p].times = 1 => Gone(p)
      BY <2>1, <3>1 DEF IInv, ToldOnce, Told
    <3>9. said[p].times \in 0..1
      BY <2>1, <3>1, ProcFields DEF IInv
    <3>10. Alive(p) => said[p].times = 0
      BY <3>7, <3>8, <3>9
    <3> HIDE DEF p
    <3>11. said[p].times = IF Alive(p) \/ said[p].lost THEN 0 ELSE 1
      BY <3>3, <3>5, <3>6, <3>10
    <3> QED
      BY <3>11 DEF p
  <2> QED
    BY <2>3, <2>4
<1> QED
  BY <1>1, Invariant, PTL

=============================================================================
