------------------------------- MODULE MCPipe -------------------------------
(* An instance of Pipe for TLC: a process that makes a pipe, and two       *)
(* children that get one end each.                                         *)
EXTENDS Pipe

CONSTANTS shell, reader, writer

TwoChildren == [end \in Ends |-> IF end = "read" THEN {shell, reader} ELSE {shell, writer}]
=============================================================================
