----------------------------- MODULE BlockStore -----------------------------
(***************************************************************************)
(* What the buffer cache promises to the file system: an array of blocks,  *)
(* each used by one process at a time.  Whoever has a block sees what was  *)
(* last stored in it, wherever it has been in between.                     *)
(***************************************************************************)
CONSTANTS Proc, Block, Value

VARIABLES contents,  \* what each block holds
          has        \* process -> the blocks it has from bread() to brelse()

Init ==
  /\ contents \in [Block -> Value]
  /\ has = [p \in Proc |-> {}]

Get(p, b) ==
  /\ \A r \in Proc : b \notin has[r]
  /\ has' = [has EXCEPT ![p] = @ \union {b}]
  /\ UNCHANGED contents

Store(p, b, v) ==
  /\ b \in has[p]
  /\ contents' = [contents EXCEPT ![b] = v]
  /\ UNCHANGED has

Put(p, b) ==
  /\ b \in has[p]
  /\ has' = [has EXCEPT ![p] = @ \ {b}]
  /\ UNCHANGED contents

Next == \E p \in Proc, b \in Block :
          Get(p, b) \/ Put(p, b) \/ \E v \in Value : Store(p, b, v)
Spec == Init /\ [][Next]_<<contents, has>>
=============================================================================
