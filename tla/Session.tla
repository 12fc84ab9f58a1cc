------------------------------- MODULE Session ------------------------------
(***************************************************************************)
(* A session on xv6: init, the shell and the programs it starts, over the  *)
(* memory (Vm), the console (Console), the parser (Sh), and one program,    *)
(* grep, in detail (Grep).                                                  *)
(*                                                                         *)
(* A process in user mode takes one step of its program, which may begin a *)
(* call; it goes on when the call has ended.  fork, exit and wait are in    *)
(* detail in Proc: here each takes effect at once, and what matters is the  *)
(* memory, the tree of processes and the pipes they keep open.  What runs   *)
(* through a pipe is in Pipe, files are in Fs; here opening one works or    *)
(* not.                                                                     *)
(***************************************************************************)
EXTENDS Vm, Console, Sh, Grep

CONSTANTS Boot,        \* the slot of init
          Calls,       \* name of an executable -> the calls it makes
          MORECORE,    \* what malloc() asks sbrk() for
          MAXLINE,     \* the shell's line buffer
          PipeIds,     \* names for pipes
          Scenes       \* [keys, frames, ahead]: what is typed, how much memory there is,
                       \* and whether the user types ahead of the shell

ASSUME SessionAssumption ==
  /\ Proc = Slot /\ Boot \in Slot /\ MORECORE \in Nat /\ MAXLINE \in Nat
  /\ DOMAIN Calls = DOMAIN Programs

VARIABLES pr,          \* slot -> process
          pipes,       \* pipes that are allocated
          scene, keys  \* the scene, and what is still to be typed

vars    == <<free, vm, call, panicked, cons, uart, con, killed, pr, pipes, scene, keys>>
outside == <<scene, keys>>

(* File descriptors 0, 1 and the others. *)
Fd(to, id, end) == [to |-> to, id |-> id, end |-> end]
Tty  == Fd("tty", 0, "")
File == Fd("file", 0, "")
Terminal == [in |-> Tty, out |-> Tty, other |-> {}]
NoFds    == [in |-> File, out |-> File, other |-> {}]

Unused  == [state |-> "unused", parent |-> Boot, pc |-> "", fd |-> NoFds, line |-> <<>>,
            cmd |-> Exec(<<>>), todo |-> <<>>, kid |-> Boot]
Live(p) == pr[p].state = "live"

(* A process is in user mode, or back from a call. *)
Quiet(p)    == Live(p) /\ call[p].kind \in {"none", "ok", "failed"} /\ con[p].pc \in {"none", "done"}
Runs(p, pc) == Quiet(p) /\ p \notin killed /\ pr[p].pc = pc
Ok_(p)      == call[p].kind = "ok"

Goes(p, pc) == pr' = [pr EXCEPT ![p].pc = pc]

----------------------------------------------------------------------------
(* A pipe's page is freed when no process has an end of it open.            *)
PipesIn(fd) == {f.id : f \in {g \in {fd.in, fd.out} \cup fd.other : g.to = "pipe"}}

SetFd(p, fd) ==
  LET open == UNION {PipesIn(IF q = p THEN fd ELSE pr[q].fd) : q \in Slot}
  IN pipes' = pipes \cap open /\ free' = free + Cardinality(pipes \ open)

(* kexit(). *)
Exit(p) ==
  /\ pr' = [q \in Slot |-> IF q = p THEN [Unused EXCEPT !.state = "zombie", !.parent = pr[p].parent]
                           ELSE IF pr[q].parent = p THEN [pr[q] EXCEPT !.parent = Boot] ELSE pr[q]]
  /\ SetFd(p, NoFds)
  /\ call' = [call EXCEPT ![p] = NoCall]
  /\ con' = [con EXCEPT ![p] = NoCon]
  /\ UNCHANGED <<vm, panicked, cons, uart, killed, outside>>

KilledExit(p) == Quiet(p) /\ p \in killed /\ Exit(p)
Exits(p)      == Runs(p, "exit") /\ Exit(p)

(* wait(): the first zombie child of the table. *)
Zombies(p) == {c \in Slot : pr[c].state = "zombie" /\ pr[c].parent = p}

Waited(p, c) ==
  CASE pr[p].pc = "initwait"  -> [pr[p] EXCEPT !.pc = IF c = pr[p].kid THEN "boot" ELSE "initwait"]
    [] pr[p].pc = "shwait"    -> [pr[p] EXCEPT !.pc = "prompt"]
    [] pr[p].pc = "listwait"  -> [pr[p] EXCEPT !.pc = "run", !.cmd = @.right]
    [] pr[p].pc = "pipewait"  -> [pr[p] EXCEPT !.pc = "pipewait2"]
    [] pr[p].pc = "pipewait2" -> [pr[p] EXCEPT !.pc = "exit"]

Wait(p) ==
  LET c == Min(Zombies(p)) IN
  /\ Quiet(p) /\ p \notin killed
  /\ pr[p].pc \in {"initwait", "shwait", "listwait", "pipewait", "pipewait2"}
  /\ Zombies(p) # {}
  /\ FreeProc(c)
  /\ pr' = [pr EXCEPT ![c] = Unused, ![p] = Waited(p, c)]
  /\ killed' = killed \ {c}
  /\ call' = call
  /\ UNCHANGED <<cons, uart, con, pipes, outside>>

(* fork() from the place pc, and what the child starts with. *)
Fork(p, pc) ==
  LET unused == {c \in Slot : vm[c] = NoVm} IN
  /\ IF unused = {} THEN call' = [call EXCEPT ![p] = Ended("failed")] /\ UNCHANGED <<free, vm, panicked>>
     ELSE ForkStart(p, Min(unused))
  /\ Goes(p, pc)
  /\ UNCHANGED <<console, pipes, outside>>

Child(p) ==
  LET c == [pr[p] EXCEPT !.parent = p] IN
  CASE pr[p].pc = "booted" -> [c EXCEPT !.pc = "execsh"]
    [] pr[p].pc = "shfork" -> [c EXCEPT !.pc = "malloc"]
    [] pr[p].pc = "list"   -> [c EXCEPT !.pc = "run", !.cmd = @.left]
    [] pr[p].pc = "left"   -> [c EXCEPT !.pc = "leftend"]
    [] pr[p].pc = "right"  -> [c EXCEPT !.pc = "rightend"]
    [] pr[p].pc = "back"   -> [c EXCEPT !.pc = "run", !.cmd = @.cmd]

ForkReturn(p) ==
  /\ CopyDone(p)
  /\ pr' = [pr EXCEPT ![call[p].child] = Child(p), ![p].kid = IF p = Boot THEN call[p].child ELSE @]
  /\ UNCHANGED <<console, pipes, outside>>

----------------------------------------------------------------------------
(* init: start a shell, wait for any child, start another when it was that.  *)
InitForks(p) == Runs(p, "boot") /\ Fork(p, "booted")
InitForked(p) ==
  /\ Runs(p, "booted")
  /\ IF Ok_(p) THEN Goes(p, "initwait") ELSE pr' = [pr EXCEPT ![p].state = "halted"]
  /\ UNCHANGED <<memory, console, pipes, outside>>
InitExec(p) ==
  /\ Runs(p, "execsh")
  /\ ExecStart(p, "sh", 1) /\ Goes(p, "started")
  /\ UNCHANGED <<console, pipes, outside>>
InitExeced(p) ==
  /\ Runs(p, "started")
  /\ Goes(p, IF Ok_(p) THEN "prompt" ELSE "complain")
  /\ UNCHANGED <<memory, console, pipes, outside>>

----------------------------------------------------------------------------
(* The shell's main(): prompt, gets(), fork, wait.                          *)
Prompt(p) ==
  /\ Runs(p, "prompt")
  /\ ConsoleWrite(p, 2, FALSE)
  /\ pr' = [pr EXCEPT ![p].pc = "gets", ![p].line = <<>>]
  /\ UNCHANGED <<memory, pipes, outside>>

Gets(p) ==
  /\ Runs(p, "gets")
  /\ ConsoleRead(p, 1, FALSE) /\ Goes(p, "got")
  /\ UNCHANGED <<memory, pipes, outside>>

Got(p) ==
  LET line == pr[p].line \o con[p].got
      more == con[p].got # <<>> /\ Last(line) # "nl" /\ Len(line) + 1 < MAXLINE
      pc   == CASE more -> "gets"
                [] line = <<>> -> "exit"
                [] Tokens(line) = <<>> /\ Last(line) = "nl" -> "prompt"
                [] OTHER -> "fork"
  IN /\ Runs(p, "got")
     /\ pr' = [pr EXCEPT ![p].pc = pc, ![p].line = line]
     /\ UNCHANGED <<memory, console, pipes, outside>>

ShForks(p) == Runs(p, "fork") /\ Fork(p, "shfork")
ShForked(p) ==
  /\ Runs(p, "shfork")
  /\ pr' = [pr EXCEPT ![p].pc = IF Ok_(p) THEN "shwait" ELSE "complain", ![p].line = <<>>]
  /\ UNCHANGED <<memory, console, pipes, outside>>

----------------------------------------------------------------------------
(* The child: parsecmd(), whose first malloc() grows the process, and        *)
(* runcmd().  memset() of a null pointer kills it.                          *)
Malloc(p) ==
  /\ Runs(p, "malloc")
  /\ SbrkStart(p, MORECORE, FALSE) /\ Goes(p, "parse")
  /\ UNCHANGED <<console, pipes, outside>>

RunParse(p) ==
  LET c == ParseCmd(Tokens(pr[p].line)) IN
  /\ Runs(p, "parse")
  /\ pr' = [pr EXCEPT ![p].pc = IF ~ Ok_(p) THEN "exit" ELSE IF c.ok THEN "run" ELSE "complain",
                      ![p].line = <<>>, ![p].cmd = c.cmd]
  /\ UNCHANGED <<memory, console, pipes, outside>>

Complain(p) ==
  /\ Runs(p, "complain")
  /\ ConsoleWrite(p, 1, FALSE) /\ Goes(p, "exit")
  /\ UNCHANGED <<memory, pipes, outside>>

RunExec(p) ==
  LET argv == pr[p].cmd.argv IN
  /\ Runs(p, "run") /\ pr[p].cmd.type = "EXEC"
  /\ IF argv = <<>> THEN Goes(p, "exit") /\ UNCHANGED memory
     ELSE ExecStart(p, Head(argv), Len(argv)) /\ Goes(p, "exec")
  /\ UNCHANGED <<console, pipes, outside>>

RunExeced(p) ==
  /\ Runs(p, "exec")
  /\ pr' = [pr EXCEPT ![p].pc = IF Ok_(p) THEN "user" ELSE "complain", ![p].cmd = Exec(<<>>),
                      ![p].todo = IF Ok_(p) THEN Calls[Head(pr[p].cmd.argv)] ELSE <<>>]
  /\ UNCHANGED <<memory, console, pipes, outside>>

(* close(fd), then open(): the file is there or not. *)
RunRedir(p) ==
  LET fd == IF pr[p].cmd.op = "<" THEN [pr[p].fd EXCEPT !.in = File] ELSE [pr[p].fd EXCEPT !.out = File]
  IN /\ Runs(p, "run") /\ pr[p].cmd.type = "REDIR"
     /\ SetFd(p, fd)
     /\ \E pc \in {"run", "complain"} :
          pr' = [pr EXCEPT ![p].pc = pc, ![p].fd = fd, ![p].cmd = @.cmd]
     /\ UNCHANGED <<vm, call, panicked, console, outside>>

RunList(p) == Runs(p, "run") /\ pr[p].cmd.type = "LIST" /\ Fork(p, "list")
RunBack(p) == Runs(p, "run") /\ pr[p].cmd.type = "BACK" /\ Fork(p, "back")

(* pipe(): a page. *)
RunPipe(p) ==
  LET id == Min(PipeIds \ pipes)
      ends == {Fd("pipe", id, "r"), Fd("pipe", id, "w")}
  IN /\ Runs(p, "run") /\ pr[p].cmd.type = "PIPE"
     /\ IF free = 0 THEN Goes(p, "complain") /\ UNCHANGED <<free, pipes>>
        ELSE /\ free' = free - 1
             /\ pipes' = pipes \cup {id}
             /\ pr' = [pr EXCEPT ![p].pc = "piped", ![p].fd.other = ends]
     /\ UNCHANGED <<vm, call, panicked, console, outside>>

ForkLeft(p)  == Runs(p, "piped") /\ Fork(p, "left")
ForkRight(p) == Runs(p, "left") /\ Ok_(p) /\ Fork(p, "right")

(* A child puts its end in the place of descriptor 0 or 1 and closes both;    *)
(* the parent closes both.                                                  *)
Of(p, end) == CHOOSE f \in pr[p].fd.other : f.end = end

LeftEnd(p) ==
  LET fd == [pr[p].fd EXCEPT !.out = Of(p, "w"), !.other = {}] IN
  /\ Runs(p, "leftend")
  /\ SetFd(p, fd)
  /\ pr' = [pr EXCEPT ![p].pc = "run", ![p].fd = fd, ![p].cmd = @.left]
  /\ UNCHANGED <<vm, call, panicked, console, outside>>

RightEnd(p) ==
  LET fd == [pr[p].fd EXCEPT !.in = Of(p, "r"), !.other = {}] IN
  /\ Runs(p, "rightend")
  /\ SetFd(p, fd)
  /\ pr' = [pr EXCEPT ![p].pc = "run", ![p].fd = fd, ![p].cmd = @.right]
  /\ UNCHANGED <<vm, call, panicked, console, outside>>

BothForked(p) ==
  LET fd == [pr[p].fd EXCEPT !.other = {}] IN
  /\ Runs(p, "right") /\ Ok_(p)
  /\ SetFd(p, fd)
  /\ pr' = [pr EXCEPT ![p].pc = "pipewait", ![p].fd = fd]
  /\ UNCHANGED <<vm, call, panicked, console, outside>>

(* fork1() panics; the list and the background command go on. *)
Forked(p) ==
  /\ \E pc \in {"list", "left", "right", "back"} : Runs(p, pc)
  /\ IF Ok_(p) THEN /\ pr[p].pc \in {"list", "back"}
                    /\ Goes(p, IF pr[p].pc = "list" THEN "listwait" ELSE "exit")
     ELSE Goes(p, "complain")
  /\ UNCHANGED <<memory, console, pipes, outside>>

----------------------------------------------------------------------------
(* A program: its calls, then exit.  A store to a page it may write does not *)
(* fault; a fault that gets no page kills it.                                *)
Writable(p, a) == {"W", "U"} \subseteq vm[p].pagetable.perm[a]

UserCall(p) ==
  LET u == Head(pr[p].todo) IN
  /\ Runs(p, "user") /\ pr[p].todo # <<>>
  /\ pr' = [pr EXCEPT ![p].todo = Tail(@),
                      ![p].pc = IF u.op = "touch" /\ ~ Writable(p, u.n) THEN "touched" ELSE @]
  /\ \/ u.op = "sbrk" /\ SbrkStart(p, u.n, u.opt) /\ UNCHANGED console
     \/ u.op = "touch" /\ Writable(p, u.n) /\ UNCHANGED <<memory, console>>
     \/ u.op = "touch" /\ ~ Writable(p, u.n) /\ Fault(p, u.n) /\ UNCHANGED console
     \/ u.op = "read" /\ pr[p].fd.in = Tty /\ ConsoleRead(p, u.n, u.opt) /\ UNCHANGED memory
     \/ u.op = "write" /\ pr[p].fd.out = Tty /\ ConsoleWrite(p, u.n, u.opt) /\ UNCHANGED memory
     \/ /\ u.op \in {"read", "write"} /\ pr[p].fd[IF u.op = "read" THEN "in" ELSE "out"] # Tty
        /\ UNCHANGED <<memory, console>>
     \/ u.op = "kill" /\ (\E q \in Slot \ {Boot} : Live(q) /\ Kill(q)) /\ UNCHANGED memory
  /\ UNCHANGED <<pipes, outside>>

Touched(p) ==
  /\ Runs(p, "touched")
  /\ Goes(p, IF Ok_(p) THEN "user" ELSE "exit")
  /\ UNCHANGED <<memory, console, pipes, outside>>

UserExit(p) == Runs(p, "user") /\ pr[p].todo = <<>> /\ Exit(p)

----------------------------------------------------------------------------
(* The first process, as exec of init leaves it, and an empty machine.       *)
Image(name) ==
  LET text == PGROUNDUP(Last(Programs[name]).end) IN
  [trapframe |-> 1,
   pagetable |-> [dirs |-> TablePages + DEPTH,
                  perm |-> [a \in UserPages |->
                    CASE a < text -> {"R", "U", "X"}
                      [] a = text -> {"R", "W"}
                      [] a > text /\ a <= text + USERSTACK -> {"R", "W", "U"}
                      [] OTHER -> {}]],
   sz |-> (text + 1 + USERSTACK) * PGSIZE]

Init ==
  /\ scene \in Scenes
  /\ keys = scene.keys
  /\ vm = [s \in Slot |-> IF s = Boot THEN Image("init") ELSE NoVm]
  /\ call = [s \in Slot |-> NoCall]
  /\ free = scene.frames - vm[Boot].trapframe - TableSize(vm[Boot].pagetable)
  /\ panicked = FALSE
  /\ ConInit
  /\ pr = [s \in Slot |-> IF s = Boot THEN [Unused EXCEPT !.state = "live", !.pc = "boot", !.fd = Terminal]
                          ELSE Unused]
  /\ pipes = {}

TypeKey ==
  /\ keys # <<>>
  /\ scene.ahead \/ \E p \in Slot : con[p].pc = "rchan"
  /\ Key(Head(keys))
  /\ keys' = Tail(keys)
  /\ UNCHANGED <<memory, pr, pipes, scene>>

Kernel(p) ==
  \/ ForkReturn(p)
  \/ MemStep(p) /\ UNCHANGED <<console, pr, pipes, outside>>
  \/ ConStep(p) /\ UNCHANGED <<memory, pr, pipes, outside>>

User(p) ==
  \/ KilledExit(p) \/ Exits(p) \/ Wait(p)
  \/ InitForks(p) \/ InitForked(p) \/ InitExec(p) \/ InitExeced(p)
  \/ Prompt(p) \/ Gets(p) \/ Got(p) \/ ShForks(p) \/ ShForked(p)
  \/ Malloc(p) \/ RunParse(p) \/ Complain(p) \/ RunExec(p) \/ RunExeced(p) \/ RunRedir(p)
  \/ RunList(p) \/ RunBack(p) \/ RunPipe(p) \/ ForkLeft(p) \/ ForkRight(p)
  \/ LeftEnd(p) \/ RightEnd(p) \/ BothForked(p) \/ Forked(p)
  \/ UserCall(p) \/ Touched(p) \/ UserExit(p)

Device == (TxDone \/ TxIntr) /\ UNCHANGED <<memory, pr, pipes, outside>>

(* After a panic nothing moves. *)
Next == /\ Live(Boot) /\ ~ panicked
        /\ \/ \E p \in Slot : Kernel(p) \/ User(p)
           \/ TypeKey
           \/ Device

Spec == Init /\ [][Next]_vars

----------------------------------------------------------------------------
(* Every page is on the free list, in one process, or a pipe: whatever        *)
(* allocation fails in the middle of a fork, an exec or an sbrk, no page is   *)
(* lost and none is freed twice (the error paths of vm.c:194-326 and          *)
(* exec.c:142-149, proc.c:196-212, pipe.c:58-74).                             *)
MemorySane ==
  /\ free + MapThenSumSet(Held, Slot) + Cardinality(pipes) = scene.frames
  /\ SizeCovers

(* What is a function of its input is tried once on all short inputs, before  *)
(* the shell starts.                                                         *)
Once == pr[Boot].pc = "boot" /\ scene.keys = <<>> /\ free + Held(Boot) = scene.frames

(* The trees runcmd() gets are those of the grammar (sh.c:271-499).          *)
CommandRight == Once => ParserRight

(* A program that reads line by line prints the lines that match, however     *)
(* read() cuts them, and match() means what its patterns mean (grep.c).      *)
GrepRight == Once => MatchRight /\ CutsRight
=============================================================================
