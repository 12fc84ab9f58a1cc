--------------------------------- MODULE Sh ---------------------------------
(***************************************************************************)
(* The parser of the xv6 shell (user/sh.c) as functions from a line of     *)
(* characters to tokens and from tokens to the command tree that runcmd()  *)
(* walks, and a grammar to compare it with.                                *)
(*                                                                         *)
(* A parser returns the position it has reached and the tree, with every   *)
(* word as its position in the line: the word is cut off there only when   *)
(* nulterminate() has reached it.  A name of several characters stands for *)
(* an unknown program.                                                     *)
(***************************************************************************)
EXTENDS Naturals, Sequences, FiniteSets, SequencesExt

CONSTANTS WordChars, MAXARGS,
          ParseAlphabet, ParseLength    \* the token sequences CommandRight tries

Longer    == "longer"
Blank     == {" ", "nl"}
Symbols   == {"|", "(", ")", ";", "&", "<", ">"}
Redirects == {"<", ">", "+"}                           \* "+" is >>

Exec(argv)         == [type |-> "EXEC", argv |-> argv]
Redir(c, op, file) == [type |-> "REDIR", cmd |-> c, op |-> op, file |-> file]
Pipe(l, r)         == [type |-> "PIPE", left |-> l, right |-> r]
List(l, r)         == [type |-> "LIST", left |-> l, right |-> r]
Back(c)            == [type |-> "BACK", cmd |-> c]

----------------------------------------------------------------------------
(* gettoken(): skip blanks; a symbol, >>, or the longest word.              *)
RECURSIVE Tokens(_)
Tokens(line) ==
  LET From(i)  == Tokens(SubSeq(line, i, Len(line)))
      IsWord(i) == i <= Len(line) /\ line[i] \in WordChars
      end      == CHOOSE i \in 2..(Len(line) + 1) :
                    ~ IsWord(i) /\ \A j \in 2..(i - 1) : IsWord(j)
  IN CASE line = <<>>           -> <<>>
       [] IsWord(1)             -> <<IF end = 2 THEN line[1] ELSE Longer>> \o From(end)
       [] Head(line) \in Blank  -> From(2)
       [] IsPrefix(<<">", ">">>, line) -> <<"+">> \o From(3)
       [] OTHER                 -> <<Head(line)>> \o From(2)

----------------------------------------------------------------------------
(* The recursive descent, from position i of the tokens s.                  *)

Ok(i, c) == [ok |-> TRUE, at |-> i, cmd |-> c]
Syntax   == [ok |-> FALSE, at |-> 0, cmd |-> Exec(<<>>)]    \* panic()

Peek(s, i, toks) == i <= Len(s) /\ s[i] \in toks
IsWord(s, i)     == i <= Len(s) /\ s[i] \notin Symbols \cup {"+"}

RECURSIVE ParseRedirs(_, _, _), ParseArgs(_, _, _, _), ParseAmps(_, _), Parse(_, _, _)

(* parseredirs(): the redirections c, each an operator and a word. *)
ParseRedirs(c, s, i) ==
  CASE ~ Peek(s, i, Redirects) -> Ok(i, c)
    [] IsWord(s, i + 1)        -> ParseRedirs(Append(c, <<s[i], i + 1>>), s, i + 2)
    [] OTHER                   -> Syntax

Wrap(c, redirs) == FoldLeft(LAMBDA d, r : Redir(d, r[1], r[2]), c, redirs)

(* The loop of parseexec(). *)
ParseArgs(argv, redirs, s, i) ==
  LET r == ParseRedirs(redirs, s, i + 1) IN
  CASE i > Len(s) \/ Peek(s, i, {"|", ")", "&", ";"}) -> Ok(i, Wrap(Exec(argv), redirs))
    [] ~ IsWord(s, i) \/ Len(argv) + 1 >= MAXARGS \/ ~ r.ok -> Syntax
    [] OTHER -> ParseArgs(Append(argv, i), r.cmd, s, r.at)

OneAmp(p, s) == IF p.ok /\ Peek(s, p.at, {"&"}) THEN Ok(p.at + 1, Back(p.cmd)) ELSE p  \* mutant: if for while
ParseAmps(p, s) == IF p.ok /\ Peek(s, p.at, {"&"}) THEN ParseAmps(Ok(p.at + 1, Back(p.cmd)), s)
                   ELSE p

(* left, op and right make a Node; left alone when there is no op. *)
Join(left, s, op, right, Node(_, _)) ==
  CASE ~ left.ok \/ ~ Peek(s, left.at, {op}) -> left
    [] right.ok -> Ok(right.at, Node(left.cmd, right.cmd))
    [] OTHER    -> Syntax

(* parseline(), parsepipe(), parseexec() and parseblock(). *)
Parse(rule, s, i) ==
  CASE rule = "line" ->
         LET left == ParseAmps(Parse("pipe", s, i), s)
         IN Join(left, s, ";", Parse("line", s, left.at + 1), List)
    [] rule = "pipe" ->
         LET left == Parse(IF Peek(s, i, {"("}) THEN "block" ELSE "exec", s, i)
         IN Join(left, s, "|", Parse("pipe", s, left.at + 1), Pipe)
    [] rule = "exec" ->
         LET r == ParseRedirs(<<>>, s, i) IN IF r.ok THEN ParseArgs(<<>>, r.cmd, s, r.at) ELSE Syntax
    [] rule = "block" ->
         LET c == Parse("line", s, i + 1)
             r == ParseRedirs(<<>>, s, c.at + 1)
         IN IF c.ok /\ Peek(s, c.at, {")"}) /\ r.ok THEN Ok(r.at, Wrap(c.cmd, r.cmd)) ELSE Syntax

----------------------------------------------------------------------------
(* nulterminate() cuts the words it reaches off the line; a word it does not *)
(* reach runs on.  The tree with its words in place of their positions:     *)
RECURSIVE NulTerminate(_, _)
NulTerminate(s, c) ==
  CASE c.type = "EXEC"  -> Exec([k \in DOMAIN c.argv |-> s[c.argv[k]]])
    [] c.type = "REDIR" -> Redir(NulTerminate(s, c.cmd), c.op, s[c.file])
    [] c.type = "PIPE"  -> Pipe(NulTerminate(s, c.left), NulTerminate(s, c.right))
    [] c.type = "LIST"  -> List(NulTerminate(s, c.left), NulTerminate(s, c.right))
    [] c.type = "BACK"  -> Back(NulTerminate(s, c.cmd))

ParseCmd(s) ==
  LET p == Parse("line", s, 1) IN
  IF p.ok /\ p.at > Len(s) THEN Ok(p.at, NulTerminate(s, p.cmd)) ELSE Syntax

----------------------------------------------------------------------------
(* The grammar: every tree that a sequence of tokens can be cut into.       *)
(*   line: pipe {&} [; line]   pipe: exec [| pipe]                          *)
(*   exec: ( line ) {redir}  or fewer than MAXARGS words mixed with redirs  *)
RECURSIVE Trees(_, _)

Cuts(s, op)  == {i \in DOMAIN s : s[i] = op}
Before(s, i) == SubSeq(s, 1, i - 1)
Behind(s, i) == SubSeq(s, i + 1, Len(s))

IsFile(s, i)  == i > 1 /\ s[i - 1] \in Redirects
RedirsOf(s)   == LET ops == SetToSortSeq({i \in DOMAIN s : s[i] \in Redirects}, <) IN
                 [k \in DOMAIN ops |-> <<s[ops[k]], s[ops[k] + 1]>>]
ArgsOf(s)     == LET at == SetToSortSeq({i \in DOMAIN s : IsWord(s, i) /\ ~ IsFile(s, i)}, <) IN
                 [k \in DOMAIN at |-> s[at[k]]]
Plain(s) == \A i \in DOMAIN s : \/ IsWord(s, i)
                                \/ s[i] \in Redirects /\ IsWord(s, i + 1)

SimpleTrees(s) == IF Plain(s) /\ Len(ArgsOf(s)) < MAXARGS
                  THEN {Wrap(Exec(ArgsOf(s)), RedirsOf(s))} ELSE {}

Closings(s) == {j \in Cuts(s, ")") : /\ s[1] = "("
                                       /\ Plain(Behind(s, j)) /\ ArgsOf(Behind(s, j)) = <<>>}

Trees(rule, s) ==
  LET Joined(op, left, right, Node(_, _)) ==
        UNION { {Node(l, r) : l \in Trees(left, Before(s, i)), r \in Trees(right, Behind(s, i))} :
                i \in Cuts(s, op) }
  IN CASE rule = "line" -> Trees("back", s) \cup Joined(";", "back", "line", List)
       [] rule = "back" ->
            Trees("pipe", s) \cup IF s # <<>> /\ Last(s) = "&"
                                  THEN {Back(c) : c \in Trees("back", Front(s))} ELSE {}
       [] rule = "pipe" -> Trees("exec", s) \cup Joined("|", "exec", "pipe", Pipe)
       [] rule = "exec" ->
            SimpleTrees(s) \cup UNION { {Wrap(c, RedirsOf(Behind(s, k))) :
                                          c \in Trees("line", SubSeq(s, 2, k - 1))} : k \in Closings(s) }

(* The parser finds the one tree of a line the grammar has, with every word   *)
(* cut off, and rejects the others (sh.c:311-456).                           *)
ParserRight ==
  \A s \in SeqOf(ParseAlphabet, ParseLength) :
    Trees("line", s) = IF ParseCmd(s).ok THEN {ParseCmd(s).cmd} ELSE {}
=============================================================================
