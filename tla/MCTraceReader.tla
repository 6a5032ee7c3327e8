---------------------------- MODULE MCTraceReader ----------------------------
(* Instances of TraceReader: files made of a few lines.                     *)
EXTENDS TraceReader

\* Lines that fit the look-ahead with what precedes them, an indented one, a
\* comment longer than the buffer, an empty line and two malformed ones.
Records    == {<<"op", "0", "x", "digit", "digit", "nl">>,
               <<"blank", "op", "blank", "digit", "0", "other", "nl">>}
Comments   == {<<"#", "op", "digit", "other", "other", "blank", "0", "x",
                 "other", "digit", "other", "nl">>, <<"#", "cr", "nl">>}
Malformeds == {<<"op", "blank", "nl">>, <<"other", "digit", "nl">>}
Blank      == <<"nl">>

LineSeqs(n) == UNION {[1 .. k -> Records \union Comments \union Malformeds
                               \union {Blank}] : k \in 0 .. n}

\* No two empty lines in a row: a record and the blanks before it fit the
\* look-ahead of next().
Compact(text) == \A i \in 1 .. Len(text) - 1 : text[i] # Blank \/ text[i + 1] # Blank

\* With and without the final newline.
MCCompactFiles ==
  LET whole == {FlattenSeq(text) : text \in {t \in LineSeqs(3) : Compact(t)}}
  IN  whole \union {Front(f) : f \in whole \ {<<>>}}

\* What the theorem about FaithfulParse asks of the files, these do.
ASSUME MCCompactFit == \A f \in MCCompactFiles : FitsLookAhead(f)

\* Empty lines pile up before a record: six of them leave three bytes of it in
\* the buffer, the type and no digit.
MCBlankFiles ==
  {FlattenSeq(text) : text \in [1 .. 7 -> Records \union {Blank}]}
=============================================================================
