------------------------------ MODULE ByteQueue -----------------------------
(***************************************************************************)
(* What a pipe promises to its users: a bounded first-in first-out queue   *)
(* of bytes with two ends.  No byte enters once an end is closed, and none *)
(* leaves once the read end is.                                            *)
(***************************************************************************)
EXTENDS Naturals, Sequences

CONSTANTS Byte, Size

VARIABLES queue,      \* bytes written and not yet read
          readopen,   \* the read end is open
          writeopen   \* the write end is open

Init == queue = <<>> /\ readopen = TRUE /\ writeopen = TRUE

Put == /\ readopen /\ writeopen /\ Len(queue) < Size
       /\ \E v \in Byte : queue' = Append(queue, v)
       /\ UNCHANGED <<readopen, writeopen>>

Get == /\ readopen /\ queue # <<>>
       /\ queue' = Tail(queue)
       /\ UNCHANGED <<readopen, writeopen>>

CloseRead  == readopen /\ readopen' = FALSE /\ UNCHANGED <<queue, writeopen>>
CloseWrite == writeopen /\ writeopen' = FALSE /\ UNCHANGED <<queue, readopen>>

Next == Put \/ Get \/ CloseRead \/ CloseWrite
Spec == Init /\ [][Next]_<<queue, readopen, writeopen>>
=============================================================================
