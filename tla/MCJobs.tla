------------------------------- MODULE MCJobs -------------------------------
EXTENDS Jobs

Line(words) == FlattenSeq([i \in DOMAIN words |-> <<words[i], " ">>])

Names   == {<<"a">>, <<"b">>}
NoFiles == {}
ToLex   == {"a", " ", "\\", "'", "\"", ">"}

TypedLines ==
  { Line(<<"a">>), Line(<<"a", "|", "b">>), Line(<<"a", "|", "b", "&">>),
    Line(<<"a", "&", "a", "&", "a">>), <<"%", "a", "&">>,
    Line(<<"none", ";", "a">>), Line(<<"a", "<", "none", "&", "a">>),
    Line(<<"a", "|", ";">>), Line(<<"activities">>),
    <<"resume", " ", "%", "1", " ", "fg">>, <<"resume", " ", "%", "1", " ", "bg">>,
    <<"resume", " ", "%", "1", " ", "fg", " ", "--timeout", " ", "1">>,
    <<"ping", " ", "%", "1", " ", "9">>, <<"ping", " ", "1", " ", "19">>,
    <<"ping", " ", "%", "1", " ", "18">>, Line(<<"exit">>), Line(<<"snoop", "a">>) }
=============================================================================
