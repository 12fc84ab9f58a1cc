---------------------------- MODULE Transactions ----------------------------
(***************************************************************************)
(* What kernel/log.c promises to the file system: a set of disk blocks     *)
(* updated by concurrent operations, such that a crash leaves the blocks   *)
(* as they were at some moment when no operation was in progress.  No      *)
(* operation is ever half on the disk.                                     *)
(***************************************************************************)
CONSTANTS Proc,   \* processes
          Block,  \* disk blocks of the file system
          Value,  \* contents of a block
          Empty   \* contents of every block at the start

VARIABLES mem,    \* contents of the blocks, as the operations see them
          dur,    \* contents after a crash
          active  \* processes inside begin_op() .. end_op()

vars == <<mem, dur, active>>

Init ==
  /\ mem = [b \in Block |-> Empty]
  /\ dur = mem
  /\ active = {}

Begin(p) ==
  /\ p \notin active
  /\ active' = active \union {p}
  /\ UNCHANGED <<mem, dur>>

Write(p, b, v) ==
  /\ p \in active
  /\ mem' = [mem EXCEPT ![b] = v]
  /\ UNCHANGED <<dur, active>>

End(p) ==
  /\ p \in active
  /\ active' = active \ {p}
  /\ UNCHANGED <<mem, dur>>

Commit ==
  /\ active = {}
  /\ dur' = mem
  /\ UNCHANGED <<mem, active>>

Crash ==
  /\ mem' = dur
  /\ active' = {}
  /\ UNCHANGED dur

Next ==
  \/ \E p \in Proc : Begin(p) \/ End(p) \/ \E b \in Block, v \in Value : Write(p, b, v)
  \/ Commit
  \/ Crash

Spec == Init /\ [][Next]_vars
=============================================================================
