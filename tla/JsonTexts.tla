----------------------------- MODULE JsonTexts -----------------------------
(***************************************************************************)
(* What a JSON text means, by cutting it at its brackets, commas and colons *)
(* in every possible way instead of reading it from left to right.  A strict *)
(* reader (Python's json, which reads perfsim's results) takes no control    *)
(* character inside a string and knows no infinity; perfsim's own takes both. *)
(***************************************************************************)
EXTENDS Json

Trimmed(text) ==
  LET solid == {i \in DOMAIN text : text[i] \notin Blanks}
  IN  IF solid = {} THEN <<>> ELSE SubSeq(text, Min(solid), Max(solid))

Inner(text) == SubSeq(text, 2, Len(text)-1)

IsEnclosed(text, open, close) ==
  Len(text) >= 2 /\ text[1] = open /\ text[Len(text)] = close

\* The two parts of a text on either side of an item.
Cuts(text, item) ==
  {<<SubSeq(text, 1, i-1), SubSeq(text, i+1, Len(text))>> : i \in {j \in DOMAIN text : text[j] = item}}

RECURSIVE Spelled(_, _), Meanings(_, _), Sequences(_, _), Records(_, _)

\* The strings that stand between two quotes.
Spelled(text, strict) ==
  IF text = <<>> THEN {<<>>}
  ELSE IF text[1] \notin {"\"", "\\"} \union (IF strict THEN Control ELSE {})
  THEN {<<text[1]>> \o rest : rest \in Spelled(Tail(text), strict)}
  ELSE IF text[1] = "\\" /\ Len(text) > 1 /\ text[2] \in DOMAIN Escapes
  THEN {<<Escapes[text[2]]>> \o rest : rest \in Spelled(SubSeq(text, 3, Len(text)), strict)}
  ELSE {}

Strings(text, strict) ==
  IF IsEnclosed(text, "\"", "\"") THEN Spelled(Inner(text), strict) ELSE {}

\* One or more values with commas between them.
Sequences(text, strict) ==
  {<<v>> : v \in Meanings(text, strict)} \union
  UNION {{<<v>> \o rest : v \in Meanings(cut[1], strict), rest \in Sequences(cut[2], strict)} :
           cut \in Cuts(text, ",")}

OneRecord(text, strict) ==
  UNION {{Field(key, v) : key \in Strings(Trimmed(cut[1]), strict), v \in Meanings(cut[2], strict)} :
           cut \in Cuts(text, ":")}

Records(text, strict) ==
  {<<f>> : f \in OneRecord(text, strict)} \union
  UNION {{<<f>> \o rest : f \in OneRecord(cut[1], strict), rest \in Records(cut[2], strict)} :
           cut \in Cuts(text, ",")}

\* Of fields with one key the last counts, in the place of the first.
LastOfEach(fields) ==
  LET firsts == {i \in DOMAIN fields : \A j \in 1 .. i-1 : fields[j].key # fields[i].key}
      last(key) == Max({i \in DOMAIN fields : fields[i].key = key})
  IN  [n \in 1 .. Cardinality(firsts) |->
         LET i == CHOOSE f \in firsts : Cardinality({g \in firsts : g <= f}) = n
         IN  fields[last(fields[i].key)]]

\* The values a text stands for: one if it is JSON, none otherwise.
Meanings(text, strict) ==
  LET t       == Trimmed(text)
      isEmpty == Trimmed(Inner(t)) = <<>>
  IN  IF t = <<>> THEN {}
      ELSE IF t[1] = "{"
      THEN IF ~IsEnclosed(t, "{", "}") THEN {}
           ELSE IF isEmpty THEN {Object}
           ELSE {[Object EXCEPT !.fields = LastOfEach(fs)] : fs \in Records(Inner(t), strict)}
      ELSE IF t[1] = "["
      THEN IF ~IsEnclosed(t, "[", "]") THEN {}
           ELSE IF isEmpty THEN {Array}
           ELSE {[Array EXCEPT !.elements = es] : es \in Sequences(Inner(t), strict)}
      ELSE IF t[1] = "\"" THEN {String(s) : s \in Strings(t, strict)}
      ELSE IF Len(t) > 1 THEN {}
      ELSE IF t[1] \in DOMAIN Literal THEN {Literal[t[1]]}
      ELSE IF t[1] \in Numerals \ (IF strict THEN {Infinity} ELSE {}) THEN {Number(t[1])}
      ELSE {}
=============================================================================
