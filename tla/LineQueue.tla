------------------------------ MODULE LineQueue -----------------------------
(***************************************************************************)
(* What the console promises its readers: the user edits a line, finished  *)
(* lines queue up whole and in order, and a read takes from the first one   *)
(* only.  A line that fills the queue is cut there.                        *)
(***************************************************************************)
EXTENDS Naturals, Sequences

CONSTANTS Chars, Capacity
VARIABLES queue,       \* finished input, not yet read
          edit         \* the line being typed

Ends == {"nl", "eof"}
Full == Len(queue) + Len(edit) = Capacity

Type(c) ==
  LET line == Append(edit, c) IN
  /\ ~ Full
  /\ IF c \in Ends \/ Len(queue) + Len(line) = Capacity
     THEN queue' = queue \o line /\ edit' = <<>>
     ELSE edit' = line /\ UNCHANGED queue

Erase    == edit # <<>> /\ edit' = SubSeq(edit, 1, Len(edit) - 1) /\ UNCHANGED queue
KillLine == edit' = <<>> /\ UNCHANGED queue

Take(k) ==
  /\ k <= Len(queue)
  /\ \A i \in 1..(k - 1) : queue[i] \notin Ends
  /\ queue' = SubSeq(queue, k + 1, Len(queue))
  /\ UNCHANGED edit

Init == queue = <<>> /\ edit = <<>>
Next == \/ \E c \in Chars : Type(c)
        \/ Erase \/ KillLine
        \/ \E k \in 1..Len(queue) : Take(k)

Spec == Init /\ [][Next]_<<queue, edit>>
=============================================================================
