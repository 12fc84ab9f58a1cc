----------------------------- MODULE MCSession ------------------------------
(* Instances of Session for TLC.                                            *)
EXTENDS Session, TLC

Slots == 1..5
Text  == <<[end |-> 1, perm |-> {"X"}]>>
Data  == <<[end |-> 2, perm |-> {"X"}], [end |-> 3, perm |-> {"W"}]>>

U(op, n, opt) == [op |-> op, n |-> n, opt |-> opt]

(* a does nothing; m grows, touches a page twice, grows by twelve pages at   *)
(* once, shrinks and overdoes it; r reads and writes more than fits, and     *)
(* into a bad buffer; k kills.                                               *)
Images  == [init |-> Text, sh |-> Text, a |-> Data, m |-> Text, r |-> Text, k |-> Text]
CallsOf ==
  [init |-> <<>>, sh |-> <<>>, a |-> <<>>,
   m |-> <<U("sbrk", 3, TRUE), U("touch", 4, FALSE), U("touch", 4, FALSE), U("sbrk", 24, FALSE),
           U("sbrk", -3, FALSE), U("sbrk", -20, FALSE), U("sbrk", 40, TRUE), U("touch", 5, FALSE)>>,
   r |-> <<U("read", 3, FALSE), U("write", 3, FALSE), U("read", 1, TRUE), U("write", 1, TRUE)>>,
   k |-> <<U("kill", 0, FALSE)>>]

Names   == {"a", "m", "r", "k", "z"}
Typed   == Names \cup {"|", ";", "&", "<", ">", "(", ")", " ", "nl", "eof"}
ToParse == {"a", "|", "&", ";", "<", "(", ")"}

Scene(ks, f, ahead) == [keys |-> ks, frames |-> f, ahead |-> ahead]
Plenty == 80

Shows(ks, fs, ahead) == {Scene(ks, f, ahead) : f \in fs}

(* Lines with memory that runs out at every point, a line with too many       *)
(* processes, whatever a user may type first, lines that fill the ring, and   *)
(* a kill of any process, also one that reads.                               *)
Script ==
  Shows(<<>>, {Plenty}, FALSE)
  \cup Shows(<<"m", "nl">>, 14..42, FALSE)
  \cup Shows(<<"a", "|", "a", "nl">>, {f \in 34..52 : f % 2 = 0}, FALSE)
  \cup Shows(<<"a", "|", "z", "nl">>, {42, 48}, FALSE)
  \cup Shows(<<"(", "a", "&", ";", "z", ")", ">", "z", "nl">>, {40, 46, Plenty}, FALSE)
  \cup Shows(<<"z", "|", "z", "|", "z", "nl">>, {Plenty}, FALSE)
  \cup UNION {Shows(<<x, y, "z", "nl">>, {Plenty}, TRUE) : x, y \in {"z", "nl", "eof", "del", "kill"}}
  \cup Shows(<<"r", "nl", "a", "ps", "a", "a", "a", "nl">>, {Plenty}, FALSE)
  \cup Shows(<<"r", "<", "z", "nl">>, {Plenty}, FALSE)
  \cup Shows(<<"r", "&", ";", "k", "nl">>, {Plenty}, FALSE)
=============================================================================
