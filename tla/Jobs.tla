-------------------------------- MODULE Jobs --------------------------------
(* Job control of c-shell: main(), run_cmd(), run_foreground(),              *)
(* run_background(), activities, resume, ping and snoop, the SIGCHLD handler *)
(* that may run between any two steps, the children, and the terminal.       *)
EXTENDS Lines, Integers, FiniteSets

CONSTANTS
  MaxPids,      \* children one session forks
  MaxLines,     \* lines the user types
  MaxPending,   \* max_pending of jobs.c
  Typed,        \* the lines a user may type, each a sequence of characters
  InCwd,        \* names of executables in the current directory
  InPath,       \* names of executables in $PATH
  Files         \* files that exist and can be opened

ASSUME ConstantsAssumption ==
  MaxPids \in Nat /\ MaxLines \in Nat /\ MaxPending \in Nat

(* parsing() lets a line through only when every pipeline of it has a stage  *)
(* and every stage a command (CutRight tries every short line).              *)
StageType   == [argv : Seq(Seq(STRING)) \ {<<>>}, in_files : Seq(Seq(STRING)),
                out_files : Seq(Seq(STRING))]
SegmentType == [stages : Seq(StageType) \ {<<>>}, term : {"&", ";", "end"}]
Accepted(line) == LET lexed == MakeToken(line) IN lexed.ok /\ Parsing(lexed.tokens)

ASSUME TypedAssumption ==
  \A line \in Typed : Accepted(line) => Segments(MakeToken(line).tokens) \in Seq(SegmentType)

Pids  == 1..MaxPids
Shell == 0                      \* shell_pgid

VARIABLES
  \* the host kernel
  proc,        \* pid -> state, process group, at the gate, unreported stop
  sigchld,     \* SIGCHLD is pending for the shell
  tty,         \* foreground group of the terminal
  \* jobs.c
  jobs,        \* jobs[1..job_count]; the index is job_number
  fg_running,
  pending,     \* pids whose exit message waits in pending_msg
  \* main(), execute.c
  main,        \* where the shell is, and the locals of that function
  lines,       \* lines typed so far
  eof_warned,
  said         \* pid -> exit messages printed for it, and messages lost

vars == <<proc, sigchld, tty, jobs, fg_running, pending, main, lines, eof_warned, said>>

----------------------------------------------------------------------------
(* The kernel's view of the children.                                        *)

Alive(p)      == proc[p].state \in {"run", "stopped"}
Group(g)      == {p \in Pids : proc[p].group = g}
Unreaped(g)   == {p \in Group(g) : proc[p].state \notin {"none", "gone"}}
NewPid        == 1 + Cardinality({p \in Pids : proc[p].state # "none"})

(* waitpid() takes the status of the children in Z. *)
Taken(Z)      == [p \in Pids |-> IF p \in Z THEN [proc[p] EXCEPT !.state = "gone"] ELSE proc[p]]
(* SIGTSTP, SIGTTIN or SIGSTOP for a group: every member that runs stops. *)
Stopped(g)    == [p \in Pids |-> IF p \in Group(g) /\ proc[p].state = "run"
                                 THEN [proc[p] EXCEPT !.state = "stopped", !.news = TRUE]
                                 ELSE proc[p]]
Continued(g)  == [p \in Pids |-> IF p \in Group(g) /\ proc[p].state = "stopped"
                                 THEN [proc[p] EXCEPT !.state = "run", !.news = FALSE]
                                 ELSE proc[p]]
(* tcsetpgrp() fails when no process is left in the group. *)
TcSetPgrp(g)  == IF g = Shell \/ Unreaped(g) # {} THEN g ELSE tty

----------------------------------------------------------------------------
(* The job table.  resumed is a history of the job for the properties.       *)

ActiveJobs == {n \in DOMAIN jobs : jobs[n].active}
FindJobContaining(p) == {n \in ActiveJobs : p \in jobs[n].pids}

RegisterJob(pgid, pids, bg) ==
  Append(jobs, [pgid |-> pgid, pids |-> pids, state |-> "Running",
                background |-> bg, active |-> TRUE, resumed |-> "never"])

KeepActive(Z) == [n \in DOMAIN jobs |-> [jobs[n] EXCEPT !.pids = @ \ Z]]  \* mutant: never inactive

RemovePids(Z) ==
  [n \in DOMAIN jobs |->
     IF ~ jobs[n].active THEN jobs[n]
     ELSE [jobs[n] EXCEPT !.pids = @ \ Z, !.active = jobs[n].pids \ Z # {}]]

(* reap_finished(): the waitpid(-1, WNOHANG) loop takes every zombie; the    *)
(* background ones are announced, or their message is queued while fg_running *)
(* is set, or lost when the queue is full.  The loop also takes the stop of a *)
(* child that is traced, and drops it.                                       *)
Zombies == {p \in Pids : proc[p].state = "zombie"}

Traced(p) == main.pc \in {"trace_wait", "trace_go"} /\ p = main.pids[1]

ReapFinished ==
  LET news == {p \in Zombies : \E n \in FindJobContaining(p) : jobs[n].background} IN
  /\ proc' = [p \in Pids |-> IF Traced(p) THEN [Taken(Zombies)[p] EXCEPT !.news = FALSE]
                             ELSE Taken(Zombies)[p]]
  /\ jobs' = RemovePids(Zombies)
  /\ IF fg_running
     THEN \E S \in SUBSET news :
            /\ \/ S = news /\ Cardinality(pending \cup S) <= MaxPending
               \/ Cardinality(pending \cup S) = MaxPending
            /\ pending' = pending \cup S
            /\ said' = [p \in Pids |-> IF p \in news \ S
                                       THEN [said[p] EXCEPT !.lost = TRUE] ELSE said[p]]
     ELSE /\ said' = [p \in Pids |-> IF p \in news
                                     THEN [said[p] EXCEPT !.times = @ + 1] ELSE said[p]]
          /\ UNCHANGED pending

(* flush_pending_bg_msg() *)
DropPending == pending' = {} /\ UNCHANGED said       \* mutant: count reset, nothing printed
FlushPending ==
  /\ said' = [p \in Pids |-> IF p \in pending THEN [said[p] EXCEPT !.times = @ + 1]
                             ELSE said[p]]
  /\ pending' = {}

----------------------------------------------------------------------------
(* Children, terminal and signals.                                           *)

(* A child exits, or dies of a signal that its group was sent. *)
Exit(p) ==
  /\ proc[p].state = "run" /\ ~ proc[p].gated
  /\ proc' = [proc EXCEPT ![p].state = "zombie"]
  /\ sigchld' = TRUE
  /\ UNCHANGED <<tty, jobs, fg_running, pending, main, lines, eof_warned, said>>

(* Ctrl-Z stops the foreground group of the terminal; the shell's own handler *)
(* does nothing.                                                             *)
CtrlZ ==
  /\ tty # Shell
  /\ \E p \in Group(tty) : proc[p].state = "run"
  /\ proc' = Stopped(tty)
  /\ sigchld' = TRUE
  /\ UNCHANGED <<tty, jobs, fg_running, pending, main, lines, eof_warned, said>>

(* A child that reads the terminal while its group is not the foreground     *)
(* group gets SIGTTIN; also a foreground child before tcsetpgrp().           *)
ReadTerminal(p) ==
  /\ proc[p].state = "run" /\ ~ proc[p].gated
  /\ proc[p].group \notin {tty, Shell}
  /\ proc' = Stopped(proc[p].group)
  /\ sigchld' = TRUE
  /\ UNCHANGED <<tty, jobs, fg_running, pending, main, lines, eof_warned, said>>

(* A traced child stops after exec and at each of its system calls. *)
TraceStop(p) ==
  /\ Traced(p) /\ proc[p].state = "run"
  /\ proc' = [proc EXCEPT ![p].state = "stopped", ![p].news = TRUE]
  /\ sigchld' = TRUE
  /\ UNCHANGED <<tty, jobs, fg_running, pending, main, lines, eof_warned, said>>

(* sigchld_handler(), between any two steps of the shell. *)
Handler ==
  /\ sigchld /\ main.pc # "exited"
  /\ sigchld' = FALSE
  /\ ReapFinished
  /\ UNCHANGED <<tty, fg_running, main, lines, eof_warned>>

----------------------------------------------------------------------------
(* main(): prompt, fgets(), maketoken(), parsing(), run_cmd().               *)

Prompt == [pc |-> "prompt", segments |-> <<>>, pids |-> <<>>, job |-> 0, left |-> 0,
           stopped |-> FALSE, timer |-> "off", how |-> "none"]
Goto(pc) == main' = [main EXCEPT !.pc = pc]

(* Bound: a line is typed only while there are pids for all its stages. *)
Stages(segs) == Cardinality(UNION {{i} \X DOMAIN segs[i].stages : i \in DOMAIN segs})

ReadLine(line) ==
  LET lexed == MakeToken(line) IN
  /\ main.pc = "prompt" /\ lines < MaxLines
  /\ NewPid + Stages(Segments(lexed.tokens)) <= MaxPids + 1
  /\ lines' = lines + 1
  /\ eof_warned' = FALSE
  /\ main' = IF Accepted(line)
             THEN [Prompt EXCEPT !.pc = "next", !.segments = Segments(lexed.tokens)]
             ELSE Prompt
  /\ UNCHANGED <<proc, sigchld, tty, jobs, fg_running, pending, said>>

(* Ctrl-D: warn once when a job is stopped, else hang up all jobs and end. *)
EndOfFile ==
  /\ main.pc = "prompt" /\ lines < MaxLines
  /\ lines' = lines + 1
  /\ IF ~ eof_warned /\ \E n \in ActiveJobs : jobs[n].state = "Stopped"
     THEN eof_warned' = TRUE /\ UNCHANGED main
     ELSE Goto("exited") /\ UNCHANGED eof_warned
  /\ UNCHANGED <<proc, sigchld, tty, jobs, fg_running, pending, said>>

(* run_cmd(): the head of main.segments is the segment at hand. *)
Segment == Head(main.segments)
Argv(i) == Segment.stages[i].argv
Drop(pc) == [main EXCEPT !.pc = pc, !.segments = Tail(@)]

RunCmdEnd ==
  /\ main.pc = "next" /\ main.segments = <<>>
  /\ main' = Prompt
  /\ FlushPending
  /\ UNCHANGED <<proc, sigchld, tty, jobs, fg_running, lines, eof_warned>>

(* resolving(): a name with a percent sign in front is looked up in $PATH only. *)
Resolving(name) ==
  IF Head(name) = "%" THEN Tail(name) \in InPath ELSE name \in InCwd \cup InPath

ShellOnly == {<<"hop">>, <<"exit">>, <<"activities">>, <<"resume">>, <<"ping">>, <<"spy">>, <<"snoop">>}
Builtins  == ShellOnly \cup {<<"reveal">>, <<"peek">>, <<"locate">>}

(* presolve(): a missing command stops only a pipeline of one stage. *)
Presolve ==
  Len(Segment.stages) = 1 => Argv(1)[1] \in Builtins \/ Resolving(Argv(1)[1])

(* build_input_tmp() of the first stage and prepare_output() of the last. *)
RedirectsOpen ==
  /\ \A i \in DOMAIN Segment.stages[1].in_files : Segment.stages[1].in_files[i] \in Files
  /\ LET outs == Segment.stages[Len(Segment.stages)].out_files IN
     \A i \in DOMAIN outs : outs[i] \in Files

IsBuiltin ==
  /\ Segment.term # "&"
  /\ Len(Segment.stages) = 1
  /\ Segment.stages[1].in_files = <<>> /\ Segment.stages[1].out_files = <<>>
  /\ Argv(1)[1] \in ShellOnly

(* A foreground segment that cannot start ends the line, a background one is *)
(* skipped.                                                                  *)
CannotStart ==
  /\ main.pc = "next" /\ main.segments # <<>>
  /\ ~ IsBuiltin
  /\ ~ (Presolve /\ RedirectsOpen)
  /\ main' = IF Segment.term = "&" THEN Drop("next") ELSE [main EXCEPT !.segments = <<>>]
  /\ UNCHANGED <<proc, sigchld, tty, jobs, fg_running, pending, lines, eof_warned, said>>

Start ==
  /\ main.pc = "next" /\ main.segments # <<>>
  /\ ~ IsBuiltin /\ Presolve /\ RedirectsOpen
  /\ fg_running' = (fg_running \/ Segment.term # "&")
  /\ main' = [main EXCEPT !.pc = "fork", !.pids = <<>>]
  /\ UNCHANGED <<proc, sigchld, tty, jobs, pending, lines, eof_warned, said>>

(* The process group of the next child: its own for the first stage; the     *)
(* first child's, unless that group is gone, where setpgid() fails and the   *)
(* child stays in the group of the shell.                                    *)
ChildGroup ==
  IF main.pids = <<>> THEN NewPid
  ELSE IF Unreaped(main.pids[1]) # {} THEN main.pids[1]
  ELSE Shell

(* Only the first stage of a background pipeline waits at the gate. *)
NoGate == FALSE                                      \* mutant: no gate
Gated == Segment.term = "&" /\ main.pids = <<>>

Fork ==
  /\ main.pc = "fork" /\ Len(main.pids) < Len(Segment.stages)
  /\ proc' = [proc EXCEPT ![NewPid] = [state |-> "run", group |-> ChildGroup,
                                       gated |-> Gated, news |-> FALSE]]
  /\ main' = [main EXCEPT !.pids = Append(@, NewPid)]
  /\ UNCHANGED <<sigchld, tty, jobs, fg_running, pending, lines, eof_warned, said>>

(* register_job() once every stage is forked; for a background job the write *)
(* to the gate follows.                                                      *)
OpenGate == [p \in Pids |-> IF p = main.pids[1] THEN [proc[p] EXCEPT !.gated = FALSE] ELSE proc[p]]

Register ==
  /\ main.pc = "fork" /\ Len(main.pids) = Len(Segment.stages)
  /\ jobs' = RegisterJob(main.pids[1], ToSet(main.pids), Segment.term = "&")
  /\ IF Segment.term = "&"
     THEN proc' = OpenGate /\ main' = Drop("next")
     ELSE UNCHANGED proc /\ main' = [main EXCEPT !.pc = "terminal", !.job = Len(jobs) + 1]
  /\ UNCHANGED <<sigchld, tty, fg_running, pending, lines, eof_warned, said>>

----------------------------------------------------------------------------
(* run_foreground() after register_job().                                    *)

GiveTerminal ==
  /\ main.pc = "terminal"
  /\ tty' = TcSetPgrp(jobs[main.job].pgid)
  /\ main' = [main EXCEPT !.pc = "wait", !.left = Len(main.pids), !.stopped = FALSE]
  /\ UNCHANGED <<proc, sigchld, jobs, fg_running, pending, lines, eof_warned, said>>

(* One return of waitpid(-pgid, WUNTRACED).  The handler may have taken the  *)
(* status first: then there is no child left to wait for (ECHILD).           *)
NeverChild == Group(jobs[main.job].pgid) = {}         \* mutant: every error retried
NoChild == Unreaped(jobs[main.job].pgid) = {}

WaitExit(done) ==
  \E p \in Unreaped(jobs[main.job].pgid) :
    /\ proc[p].state = "zombie"
    /\ proc' = Taken({p})
    /\ main' = [main EXCEPT !.left = @ - 1, !.pc = IF main.left = 1 THEN done ELSE @]
    /\ UNCHANGED jobs

WaitStop(done) ==
  \E p \in Unreaped(jobs[main.job].pgid) :
    /\ proc[p].state = "stopped" /\ proc[p].news
    /\ proc' = [proc EXCEPT ![p].news = FALSE]
    /\ jobs' = [jobs EXCEPT ![main.job].state = "Stopped"]
    /\ main' = [main EXCEPT !.stopped = TRUE, !.pc = done]

WaitNone(done) ==
  /\ NoChild
  /\ Goto(done)
  /\ UNCHANGED <<proc, jobs>>

WaitForeground ==
  /\ main.pc = "wait"
  /\ WaitExit("done") \/ WaitStop("done") \/ WaitNone("done")
  /\ UNCHANGED <<sigchld, tty, fg_running, pending, lines, eof_warned, said>>

ForegroundDone ==
  /\ main.pc = "done"
  /\ tty' = Shell
  /\ jobs' = [jobs EXCEPT ![main.job].active = @ /\ main.stopped]
  /\ fg_running' = FALSE
  /\ FlushPending
  /\ main' = Drop("next")
  /\ UNCHANGED <<proc, sigchld, lines, eof_warned>>

----------------------------------------------------------------------------
(* Builtins the shell runs itself: activities, resume, ping, exit.           *)

Args    == Tail(Argv(1))
Command == Argv(1)[1]
AtBuiltin(name) ==
  main.pc = "next" /\ main.segments # <<>> /\ IsBuiltin /\ Command = <<name>>

Numbers == [x \in {"1", "2", "3", "4"} |-> CASE x = "1" -> 1 [] x = "2" -> 2
                                             [] x = "3" -> 3 [] x = "4" -> 4]
(* "%n" names an active job: strtol() and find_job_by_number(). *)
JobNamed(w) == IF Len(w) = 2 /\ w[1] = "%" /\ w[2] \in DOMAIN Numbers
               THEN {Numbers[w[2]]} \cap ActiveJobs ELSE {}

Activities ==
  /\ AtBuiltin("activities")
  /\ ReapFinished
  /\ main' = Drop("next")
  /\ UNCHANGED <<sigchld, tty, fg_running, lines, eof_warned>>

(* exit(0): no hangup for the jobs. *)
ExitShell ==
  /\ AtBuiltin("exit")
  /\ Goto("exited")
  /\ UNCHANGED <<proc, sigchld, tty, jobs, fg_running, pending, lines, eof_warned, said>>

(* A timeout without its number is no timeout. *)
ResumeHow ==
  LET IsArg(i, w) == Len(Args) >= i /\ Args[i] = <<w>>
      timeout     == IsArg(2, "fg") /\ IsArg(3, "--timeout")
  IN CASE Len(Args) = 2 /\ IsArg(2, "bg")                          -> "bg"
       [] IsArg(2, "fg") /\ Len(Args) = 2                          -> "fg"
       [] timeout /\ Len(Args) = 3                                 -> "fg"
       [] timeout /\ Len(Args) > 3 /\ Args[4][1] \in DOMAIN Numbers -> "timed"
       [] OTHER                                                    -> "invalid"

ResumeRefused ==
  /\ AtBuiltin("resume")
  /\ ResumeHow = "invalid" \/ JobNamed(Args[1]) = {}
  /\ main' = Drop("next")
  /\ UNCHANGED <<proc, sigchld, tty, jobs, fg_running, pending, lines, eof_warned, said>>

(* kill(-pgid, SIGCONT), then the two ways on. *)
Resume ==
  /\ AtBuiltin("resume") /\ ResumeHow # "invalid"
  /\ \E n \in JobNamed(Args[1]) :
       /\ proc' = Continued(jobs[n].pgid)
       /\ IF ResumeHow = "bg"
          THEN /\ jobs' = [jobs EXCEPT ![n].state = "Running"]
               /\ main' = Drop("next")
          ELSE /\ main' = [main EXCEPT !.pc = "rterminal", !.job = n, !.how = ResumeHow]
               /\ jobs' = [jobs EXCEPT ![n].resumed = IF @ = "timed" THEN @ ELSE ResumeHow]
  /\ UNCHANGED <<sigchld, tty, fg_running, pending, lines, eof_warned, said>>

(* tcsetpgrp(), alarm() and remaining = j->nproc, which counts what the      *)
(* handler has left of the job.                                              *)
ResumeTerminal ==
  /\ main.pc = "rterminal"
  /\ tty' = TcSetPgrp(jobs[main.job].pgid)
  /\ jobs' = [jobs EXCEPT ![main.job].state = "Running"]
  /\ main' = [main EXCEPT !.pc = "rcheck", !.left = Cardinality(jobs[main.job].pids),
                          !.timer = IF main.how = "timed" THEN "set" ELSE "off"]
  /\ UNCHANGED <<proc, sigchld, fg_running, pending, lines, eof_warned, said>>

(* The loop tests resume_timed_out, then waits: two steps. *)
ResumeCheck ==
  /\ main.pc = "rcheck"
  /\ Goto(IF main.left > 0 /\ main.timer # "fired" THEN "rwait" ELSE "rdone")
  /\ UNCHANGED <<proc, sigchld, tty, jobs, fg_running, pending, lines, eof_warned, said>>

ResumeExit ==
  \E p \in Unreaped(jobs[main.job].pgid) :
    /\ proc[p].state = "zombie"
    /\ proc' = Taken({p})
    /\ main' = [main EXCEPT !.left = @ - 1, !.pc = "rcheck"]
    /\ UNCHANGED jobs

ResumeWait ==
  /\ main.pc = "rwait"
  /\ ResumeExit \/ WaitStop("rdone") \/ WaitNone("rdone")
  /\ UNCHANGED <<sigchld, tty, fg_running, pending, lines, eof_warned, said>>

(* SIGALRM interrupts a waitpid() that has begun (EINTR); one that comes     *)
(* between the test and the call only sets the flag.                         *)
Alarm ==
  /\ main.timer = "set" /\ main.pc \in {"rcheck", "rwait", "rdone"}
  /\ \E pc \in {main.pc} \cup IF main.pc = "rwait" THEN {"rcheck"} ELSE {} :
       main' = [main EXCEPT !.timer = "fired", !.pc = pc]
  /\ UNCHANGED <<proc, sigchld, tty, jobs, fg_running, pending, lines, eof_warned, said>>

(* A job that timed out is sent SIGTERM (its members exit when they like) and *)
(* dropped; one that ended before its timeout stays in the table.            *)
ResumeDone ==
  /\ main.pc = "rdone"
  /\ jobs' = [jobs EXCEPT ![main.job].active =
                @ /\ CASE main.timer = "fired" -> FALSE
                       [] main.timer = "set"   -> TRUE
                       [] main.timer = "off"   -> main.left # 0]
  /\ tty' = Shell
  /\ main' = [Drop("next") EXCEPT !.timer = "off"]
  /\ UNCHANGED <<proc, sigchld, fg_running, pending, lines, eof_warned, said>>

(* ping: a job's group, or one process of a job. *)
PingTarget ==
  LET w == Args[1] IN
  IF Len(Args) # 2 THEN {}
  ELSE IF w[1] = "%" THEN UNION {Group(jobs[n].pgid) : n \in JobNamed(w)}
  ELSE {p \in Pids : w[1] \in DOMAIN Numbers /\ p = Numbers[w[1]] /\ FindJobContaining(p) # {}}

Signalled(T, sig) ==
  [p \in Pids |->
     CASE p \notin T                               -> proc[p]
       [] sig = <<"9">> /\ Alive(p)                -> [proc[p] EXCEPT !.state = "zombie"]
       [] sig = <<"19">> /\ proc[p].state = "run"  -> [proc[p] EXCEPT !.state = "stopped", !.news = TRUE]
       [] sig = <<"18">> /\ proc[p].state = "stopped" -> [proc[p] EXCEPT !.state = "run", !.news = FALSE]
       [] OTHER                                    -> proc[p]]

Ping ==
  /\ AtBuiltin("ping")
  /\ proc' = Signalled(PingTarget, Args[2])
  /\ sigchld' = (sigchld \/ proc' # proc)
  /\ main' = Drop("next")
  /\ UNCHANGED <<tty, jobs, fg_running, pending, lines, eof_warned, said>>

----------------------------------------------------------------------------
(* snoop: fork a child that is traced, in the group of the shell, wait for   *)
(* its stops and let it go on until it ends.                                *)
Snoop ==
  /\ AtBuiltin("snoop")
  /\ IF Args = <<>> \/ ~ Resolving(Args[1])
     THEN main' = Drop("next") /\ UNCHANGED proc
     ELSE /\ proc' = [proc EXCEPT ![NewPid] = [state |-> "run", group |-> Shell,
                                              gated |-> FALSE, news |-> FALSE]]
          /\ main' = [main EXCEPT !.pc = "trace_wait", !.pids = <<NewPid>>, !.left = 1]
  /\ UNCHANGED <<sigchld, tty, jobs, fg_running, pending, lines, eof_warned, said>>

SnoopGo(p) ==
  /\ main.pc = "trace_go"
  /\ proc' = [proc EXCEPT ![p].state = "run"]
  /\ main' = [main EXCEPT !.pc = "trace_wait", !.left = 0]

(* waitpid(pid): a stop, or the end, which the first call does not look at     *)
(* (left is 1 until it has returned).  When the end is taken, the call fails  *)
(* and leaves status as it finds it: the loop goes on, or not.               *)
SnoopWait(p) ==
  /\ main.pc = "trace_wait"
  /\ \/ /\ proc[p].state = "stopped" /\ proc[p].news
        /\ proc' = [proc EXCEPT ![p].news = FALSE]
        /\ Goto("trace_go")
     \/ /\ proc[p].state = "zombie"
        /\ proc' = Taken({p})
        /\ main' = IF main.left = 1 THEN [main EXCEPT !.left = 0] ELSE Drop("next")
     \/ /\ proc[p].state = "gone"
        /\ main' \in {main, Drop("next")} /\ UNCHANGED proc

Snooping ==
  /\ SnoopWait(main.pids[1]) \/ SnoopGo(main.pids[1])
  /\ UNCHANGED <<sigchld, tty, jobs, fg_running, pending, lines, eof_warned, said>>

----------------------------------------------------------------------------
Init ==
  /\ proc = [p \in Pids |-> [state |-> "none", group |-> Shell, gated |-> FALSE, news |-> FALSE]]
  /\ sigchld = FALSE /\ tty = Shell
  /\ jobs = <<>> /\ fg_running = FALSE /\ pending = {}
  /\ main = Prompt /\ lines = 0 /\ eof_warned = FALSE
  /\ said = [p \in Pids |-> [times |-> 0, lost |-> FALSE]]

ShellStep ==
  \/ RunCmdEnd \/ CannotStart \/ Start \/ Fork \/ Register
  \/ GiveTerminal \/ WaitForeground \/ ForegroundDone
  \/ Activities \/ ExitShell \/ ResumeRefused \/ Resume \/ ResumeTerminal
  \/ ResumeCheck \/ ResumeWait \/ ResumeDone \/ Ping \/ Snoop \/ Snooping

User     == EndOfFile \/ CtrlZ \/ \E line \in Typed : ReadLine(line)
Children == \E p \in Pids : Exit(p) \/ ReadTerminal(p) \/ TraceStop(p)

Next == ShellStep \/ Handler \/ Alarm \/ User \/ Children

(* The shell runs when it can, a pending signal is delivered, and a child    *)
(* that runs ends in time; nobody has to type, stop or time anything.        *)
Fairness ==
  /\ WF_vars(ShellStep) /\ WF_vars(Handler)
  /\ \A p \in Pids : WF_vars(Exit(p))

Spec == Init /\ [][Next]_vars /\ Fairness

----------------------------------------------------------------------------
TypeOK ==
  /\ proc \in [Pids -> [state : {"none", "run", "stopped", "zombie", "gone"},
                        group : Pids \cup {Shell}, gated : BOOLEAN, news : BOOLEAN]]
  /\ sigchld \in BOOLEAN /\ fg_running \in BOOLEAN /\ eof_warned \in BOOLEAN
  /\ tty \in Pids \cup {Shell}
  /\ \A n \in DOMAIN jobs :
       /\ jobs[n].pgid \in Pids /\ jobs[n].pids \subseteq Pids
       /\ jobs[n].active => jobs[n].pids # {}
  /\ pending \subseteq Pids /\ Cardinality(pending) <= MaxPending
  /\ main.left \in 0..MaxPids /\ lines \in 0..MaxLines
  /\ said \in [Pids -> [times : 0..1, lost : BOOLEAN]]

(* The line a user types is the line that is run (README A3), whatever its     *)
(* quotes and operators: the lexer, parsing() and the loop of run_cmd() agree  *)
(* on every short line.  Lines do not depend on the state: tried once.        *)
LinesRight == lines = 0 => LexRight /\ ParseRight

(* At the prompt with no signal pending, the table of jobs of one process     *)
(* tells the truth, whatever the handler raced with: a job is active exactly  *)
(* when its process is alive, no zombie is left, and the terminal and         *)
(* fg_running are the shell's again.  Left out are jobs resumed with          *)
(* --timeout (jobs.c register_job(), execute.c:320-344, 541-563).             *)
Quiet == main.pc = "prompt" /\ ~ sigchld

OneProcess(n) == Group(jobs[n].pgid) = {jobs[n].pgid}

PlainJobsTrue ==
  Quiet =>
    /\ Zombies = {} /\ tty = Shell /\ ~ fg_running
    /\ \A n \in DOMAIN jobs :
         OneProcess(n) /\ jobs[n].resumed # "timed"
           => (jobs[n].active <=> Alive(jobs[n].pgid))

(* The first process of a background job that was never resumed in the        *)
(* foreground is announced exactly once when it ends, at once or after the    *)
(* foreground job that ran, unless the queue was full (jobs.c:9-20, 44-55;    *)
(* the gate of run_background()).                                             *)
Announced ==
  Quiet =>
    /\ pending = {}
    /\ \A n \in DOMAIN jobs :
         LET p == jobs[n].pgid IN
         jobs[n].background /\ jobs[n].resumed = "never"
           => said[p].times = IF Alive(p) \/ said[p].lost THEN 0 ELSE 1

(* The shell comes back to its prompt, or ends: no wait of run_foreground()  *)
(* or of resume outlasts the processes waited for, even when the handler     *)
(* takes their status (execute.c:324-339, 538-551).  Left out is snoop,      *)
(* which the handler can leave waiting for a stop it has taken.              *)
PromptAgain == main.pc = "next" ~> main.pc \in {"prompt", "exited", "trace_wait"}

(* "Executes command groups in sequence" (README D1): a foreground pipeline   *)
(* is waited for, so a job taken off the table has no process that runs.      *)
ForegroundWaited ==
  main.pc = "prompt" =>
    \A n \in DOMAIN jobs : ~ jobs[n].active /\ jobs[n].resumed # "timed"
      => \A p \in jobs[n].pids : proc[p].state # "run"
=============================================================================
