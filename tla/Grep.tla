-------------------------------- MODULE Grep --------------------------------
(* grep of xv6 (user/grep.c): the matcher for ^ . * $ and the loop that cuts *)
(* what read() returns into lines, each compared with a definition.          *)
EXTENDS Naturals, Sequences, SequencesExt

CONSTANTS
  GREPBUF,         \* size of buf
  PatternChars, PatternLength, TextChars, TextLength   \* what GrepRight tries

From(s, i) == SubSeq(s, i, Len(s))

(* matchhere(), with matchstar() inside: c*re takes k characters and leaves   *)
(* the rest to re.                                                           *)
RECURSIVE MatchHere(_, _)
MatchHere(re, text) ==
  CASE re = <<>>                      -> TRUE
    [] Len(re) > 1 /\ re[2] = "*"     ->
         \E k \in 0..Len(text) : /\ \A i \in 1..k : re[1] \in {text[i], "."}
                                 /\ MatchHere(From(re, 3), From(text, k + 1))
    [] re = <<"$">>                   -> text = <<>>
    [] OTHER                          -> /\ text # <<>> /\ re[1] \in {".", text[1]}
                                         /\ MatchHere(Tail(re), Tail(text))

Match(re, text) ==
  IF re # <<>> /\ re[1] = "^" THEN MatchHere(Tail(re), text)
  ELSE \E i \in 1..(Len(text) + 1) : MatchHere(re, From(text, i))

-----------------------------------------------------------------------------
(* grep(): buf holds the start of an unfinished line, rest is what has not   *)
(* been read.  One read() returns at most size characters, at most what      *)
(* fits, and ends the loop when nothing fits.                                *)

Ends(s)    == {i \in DOMAIN s : s[i] = "nl"}
Whole(s)   == CHOOSE n \in Ends(s) \cup {0} : \A i \in Ends(s) : i <= n
LinesOf(s) ==
  LET ends == SetToSortSeq(Ends(s), <)
      Start(k) == IF k = 1 THEN 1 ELSE ends[k - 1] + 1
  IN [k \in DOMAIN ends |-> SubSeq(s, Start(k), ends[k] - 1)]

DropPartial(all) == <<>>                  \* mutant: the unfinished line is forgotten
Partial(all)     == From(all, Whole(all) + 1)

GrepRead(re, s, size) ==
  LET n   == CHOOSE k \in {size, GREPBUF - 1 - Len(s.buf), Len(s.rest)} :
               \A m \in {size, GREPBUF - 1 - Len(s.buf), Len(s.rest)} : k <= m
      all == s.buf \o SubSeq(s.rest, 1, n)
  IN [buf  |-> Partial(all),
      rest |-> From(s.rest, n + 1),
      out  |-> s.out \o SelectSeq(LinesOf(all), LAMBDA line : Match(re, line))]

Output(re, text, sizes) ==
  LET Read(s, size) == GrepRead(re, s, size)
  IN FoldLeft(Read, [buf |-> <<>>, rest |-> text, out |-> <<>>], sizes).out

-----------------------------------------------------------------------------
(* What a pattern means: the strings of an item, up to length n, and of a    *)
(* sequence of items.                                                        *)
RECURSIVE Items(_)
Items(re) ==
  CASE re = <<>>                  -> <<>>
    [] Len(re) > 1 /\ re[2] = "*" -> <<[char |-> re[1], star |-> TRUE]>> \o Items(From(re, 3))
    [] OTHER                      -> <<[char |-> re[1], star |-> FALSE]>> \o Items(Tail(re))

Strings(item, n) ==
  {w \in SeqOf(TextChars, n) : /\ \A i \in DOMAIN w : item.char \in {w[i], "."}
                               /\ item.star \/ Len(w) = 1}
Language(items, n) ==
  LET Concat(L, item) == {w \in {u \o v : u \in L, v \in Strings(item, n)} : Len(w) <= n}
  IN FoldLeft(Concat, {<<>>}, items)

Means(re, text) ==
  LET first == re # <<>> /\ re[1] = "^"
      items == Items(IF first THEN Tail(re) ELSE re)
      last  == items # <<>> /\ Last(items) = [char |-> "$", star |-> FALSE]
      L     == Language(IF last THEN Front(items) ELSE items, Len(text))
  IN \E i \in 1..(Len(text) + 1), j \in 0..Len(text) :
       /\ SubSeq(text, i, j) \in L /\ i <= j + 1
       /\ first => i = 1
       /\ last => j = Len(text)

MatchRight ==
  \A re \in SeqOf(PatternChars, PatternLength), text \in SeqOf(TextChars, TextLength) :
    Match(re, text) <=> Means(re, text)

(* However read() cuts the text, grep prints the lines that match, in order, *)
(* up to a line that does not fit in the buffer with its end.                *)
Fitting(lines) ==
  LET fits == {n \in 0..Len(lines) : \A i \in 1..n : Len(lines[i]) + 1 < GREPBUF}
  IN SubSeq(lines, 1, CHOOSE n \in fits : \A m \in fits : m <= n)

CutsRight ==
  \A text \in SeqOf(TextChars \cup {"nl"}, TextLength + 2), a, b \in 1..3, re \in {<<>>, <<"a">>} :
    Output(re, text, [i \in 1..(2 * Len(text)) |-> IF i % 2 = 0 THEN a ELSE b])
      = SelectSeq(Fitting(LinesOf(text)), LAMBDA line : Match(re, line))
=============================================================================
