------------------------------- MODULE MCMlfq -------------------------------
(* Instances of Mlfq for TLC. *)
EXTENDS Mlfq, TLC

CONSTANTS c1, c2

(* A machine with one hart and a machine with two. *)
OneOrTwo == {{c1}, {c1, c2}}
Two == {{c1, c2}}

(* Slices of 1 and 2 ticks: the code's table has 1, 4, 8 and 16. *)
Slice12 == [l \in Queue |-> l + 1]

(* The code's table. *)
SliceTable == [l \in Queue |-> CASE l = 0 -> 1 [] l = 1 -> 4 [] l = 2 -> 8 [] OTHER -> 16]

(* Three processes on one hart, two on two harts. *)
Small == OneHart \/ state[2] = "UNUSED"
=============================================================================
