------------------------------- MODULE Lines -------------------------------
(* Command lines of c-shell: the lexer (lexer.c), the syntax check          *)
(* (parser.c) and the cutting of a line into segments and pipeline stages   *)
(* (the loop of run_cmd() in execute.c).  A character is a string; one that *)
(* is not special stands for itself, so a whole name may be one character.  *)
EXTENDS Naturals, Sequences, SequencesExt

CONSTANTS
  LexAlphabet,    \* characters of the lines LexRight tries
  LexLength,      \* longest word LexRight quotes
  TokenAlphabet,  \* characters, each a token, of the lines ParseRight tries
  ParseLength     \* longest line ParseRight tries

Blank     == " "
Escape    == "\\"
Single    == "'"
Double    == "\""
Operators == {"|", "&", ";", "<", ">"}
Redirects == {"<", ">", ">>"}

Word(w) == [type |-> "word", value |-> w]
Op(o)   == [type |-> o, value |-> <<>>]

----------------------------------------------------------------------------
(* maketoken(): an automaton with the states 0 (plain), 1 (in single        *)
(* quotes) and 2 (in double quotes), a word being built and a flag that     *)
(* tells an empty quoted word from no word.                                 *)

LexStart == [state |-> 0, word |-> <<>>, content |-> FALSE, skip |-> FALSE,
             ok |-> TRUE, tokens |-> <<>>]

Take(s, c) == [s EXCEPT !.word = Append(@, c), !.content = TRUE]

EndWord(s) ==
  IF s.content
  THEN [s EXCEPT !.tokens = Append(@, Word(s.word)), !.word = <<>>, !.content = FALSE]
  ELSE s

(* One character; `next' is the one after it, or "" at the end.  skip says  *)
(* that the character before has consumed this one.                         *)
Plain(s, c, next) ==
  CASE c = Escape -> IF next = "" THEN [s EXCEPT !.ok = FALSE]
                     ELSE [Take(s, next) EXCEPT !.skip = TRUE]
    [] c = Single -> [s EXCEPT !.state = 1, !.content = TRUE]
    [] c = Double -> [s EXCEPT !.state = 2, !.content = TRUE]
    [] c = Blank  -> EndWord(s)
    [] c \in Operators ->
         LET two == c = ">" /\ next = ">" IN
         [EndWord(s) EXCEPT !.tokens = Append(@, Op(IF two THEN ">>" ELSE c)),
                            !.skip = two]
    [] OTHER -> Take(s, c)

InSingle(s, c) == IF c = Single THEN [s EXCEPT !.state = 0] ELSE Take(s, c)

InDouble(s, c, next) ==
  CASE c = Escape /\ next \in {Double, Escape} -> [Take(s, next) EXCEPT !.skip = TRUE]
    [] c = Double -> [s EXCEPT !.state = 0]
    [] OTHER -> Take(s, c)

LexStep(s, c, next) ==
  CASE s.skip      -> [s EXCEPT !.skip = FALSE]
    [] s.state = 0 -> Plain(s, c, next)
    [] s.state = 1 -> InSingle(s, c)
    [] s.state = 2 -> InDouble(s, c, next)

MakeToken(input) ==
  LET n == Len(input)
      Step(s, i) == IF s.ok THEN LexStep(s, input[i], IF i < n THEN input[i + 1] ELSE "")
                    ELSE s
      end == EndWord(FoldLeft(Step, LexStart, [i \in 1..n |-> i]))
  IN  [ok |-> end.ok /\ end.state = 0, tokens |-> end.tokens]

----------------------------------------------------------------------------
(* parsing(): state 0 wants a command, 1 is inside one, 2 wants a file, 3   *)
(* follows an ampersand; Refused stands for the early return.               *)
Refused == 4

NoStateThree(state, t) ==                              \* mutant: & ends a command as ; does
  CASE t.type = "word"                      -> IF state = Refused THEN Refused ELSE 1
    [] state = 1 /\ t.type \in Redirects     -> 2
    [] state = 1                             -> 0
    [] OTHER                                 -> Refused

ParseStep(state, t) ==
  CASE t.type = "word"                      -> IF state = Refused THEN Refused ELSE 1
    [] state = 1 /\ t.type \in Redirects     -> 2
    [] state = 1 /\ t.type \in {"|", ";"}    -> 0
    [] state = 1 /\ t.type = "&"             -> 3
    [] OTHER                                 -> Refused

Parsing(tokens) == tokens = <<>> \/ FoldLeft(ParseStep, 0, tokens) \in {1, 3}

----------------------------------------------------------------------------
(* run_cmd(): a segment is a pipeline with the terminator that follows it.  *)

NoStage  == [argv |-> <<>>, in_files |-> <<>>, out_files |-> <<>>]
CutStart == [segments |-> <<>>, stages |-> <<>>, cur |-> NoStage, redirect |-> ""]

CutStep(s, t) ==
  CASE s.redirect = "<" ->
         [s EXCEPT !.cur.in_files = Append(@, t.value), !.redirect = ""]
    [] s.redirect \in {">", ">>"} ->
         [s EXCEPT !.cur.out_files = Append(@, t.value), !.redirect = ""]
    [] t.type = "word"      -> [s EXCEPT !.cur.argv = Append(@, t.value)]
    [] t.type \in Redirects -> [s EXCEPT !.redirect = t.type]
    [] t.type = "|"         -> [s EXCEPT !.stages = Append(@, s.cur), !.cur = NoStage]
    [] OTHER                -> [CutStart EXCEPT !.segments =
         Append(s.segments, [stages |-> Append(s.stages, s.cur), term |-> t.type])]

Segments(tokens) ==
  LET s == FoldLeft(CutStep, CutStart, tokens) IN
  IF s.stages = <<>> /\ s.cur = NoStage THEN s.segments
  ELSE Append(s.segments, [stages |-> Append(s.stages, s.cur), term |-> "end"])

----------------------------------------------------------------------------
(* Three ways to write a word so that the lexer gives it back.              *)
Escaped(w)  == FlattenSeq([i \in DOMAIN w |-> <<Escape, w[i]>>])
InQuotes(w) == <<Single>> \o w \o <<Single>>
InDoubles(w) ==
  <<Double>> \o FlattenSeq([i \in DOMAIN w |-> IF w[i] \in {Double, Escape}
                                               THEN <<Escape, w[i]>> ELSE <<w[i]>>])
             \o <<Double>>

(* The lexer returns every word as it was written, whichever way it is       *)
(* quoted, next to any operator; and an unclosed quote is refused.          *)
LexRight ==
  \A w \in BoundedSeq(LexAlphabet, LexLength) : w # <<>> =>
    LET forms == {Escaped(w), InDoubles(w)} \cup
                 {x \in {InQuotes(w)} : \A i \in DOMAIN w : w[i] # Single}
    IN  \A x \in forms, y \in {Escaped(w), InDoubles(w)} :
          /\ MakeToken(x) = [ok |-> TRUE, tokens |-> <<Word(w)>>]
          /\ MakeToken(x \o y) = [ok |-> TRUE, tokens |-> <<Word(w \o w)>>]
          /\ MakeToken(x \o <<">", ">">> \o y \o <<Blank>> \o x) =
               [ok |-> TRUE, tokens |-> <<Word(w), Op(">>"), Word(w), Word(w)>>]
          /\ ~ MakeToken(x \o <<Double>>).ok

(* What parsing() should accept, said without an automaton: no operator      *)
(* first, none after another, none last but the ampersand.                  *)
Legal(t) ==
  \A i \in DOMAIN t : t[i].type # "word" =>
    /\ i > 1 /\ t[i - 1].type = "word"
    /\ i = Len(t) => t[i].type = "&"

IsFile(t, i) == i > 1 /\ t[i - 1].type \in Redirects

(* On a line that parsing() accepts, run_cmd() finds a command word in every *)
(* stage (names[i] is never null), loses and reorders no word, takes for a   *)
(* file exactly the words behind a redirection, and cuts at the separators. *)
CutRight(t) ==
  LET segs   == Segments(t)
      stages == FlattenSeq([i \in DOMAIN segs |-> segs[i].stages])
      Words(P(_)) == [k \in 1..Len(SelectSeq([i \in DOMAIN t |-> i], P)) |->
                        t[SelectSeq([i \in DOMAIN t |-> i], P)[k]].value]
  IN  /\ \A k \in DOMAIN stages : stages[k].argv # <<>>
      /\ Words(LAMBDA i : t[i].type = "word" /\ ~ IsFile(t, i)) =
           FlattenSeq([k \in DOMAIN stages |-> stages[k].argv])
      /\ Words(LAMBDA i : t[i].type = "word" /\ IsFile(t, i) /\ t[i - 1].type = "<") =
           FlattenSeq([k \in DOMAIN stages |-> stages[k].in_files])
      /\ Len(stages) = 1 + Cardinality({i \in 1..(Len(t) - 1) : t[i].type \in {"|", ";", "&"}})
      /\ \A k \in 1..(Len(segs) - 1) : segs[k].term \in {";", "&"}

ParseRight ==
  \A line \in BoundedSeq(TokenAlphabet, ParseLength) :
    LET t == MakeToken(FlattenSeq([i \in DOMAIN line |-> <<line[i], Blank>>])).tokens IN
    /\ Parsing(t) <=> Legal(t)
    /\ Parsing(t) /\ t # <<>> => CutRight(t)
=============================================================================
