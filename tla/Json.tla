-------------------------------- MODULE Json --------------------------------
(***************************************************************************)
(* Class Json and its parser (include/json.hpp, src/json.cpp), and what JSON *)
(* texts mean, to compare the parser with.                                  *)
(*                                                                         *)
(* A text is a sequence of items: a structural character, a blank, a        *)
(* character of a string, or a whole numeral or literal.  A number is its    *)
(* shortest numeral; of its digits ten survive being printed.               *)
(***************************************************************************)
EXTENDS Integers, SequencesExt

CONSTANTS Printed    \* what "%.10g" or "%lld" makes of each number
                     \* (the numerals strtod reads, infinity among them)

Numerals == DOMAIN Printed
Infinity == "inf"

Blanks == {"newline", "space"}

\* The escape sequences both ways; the reader knows one that the writer does not use.
Escapes == [n |-> "newline", b |-> "backspace"] @@ ("\"" :> "\"") @@ ("\\" :> "\\")
Escaped == {"newline", "\"", "\\"}
Control == {"newline", "backspace"}

\* An item is read as a whole: two numerals in a row would be one, and a
\* backslash would take only the first letter of a literal.
WellSplit(text) ==
  \A i \in 1 .. Len(text)-1 :
    /\ text[i] \in Numerals => text[i+1] \notin Numerals
    /\ text[i] = "\\" => text[i+1] \notin {"true", "false", "null"}

-----------------------------------------------------------------------------
(* The values: every member of the class, as its constructors leave them.   *)

Null == [type |-> "null", bool |-> FALSE, number |-> "0", string |-> <<>>,
         elements |-> <<>>, fields |-> <<>>]

Boolean(b) == [Null EXCEPT !.type = "bool", !.bool = b]
Number(n)  == [Null EXCEPT !.type = "number", !.number = n]
String(s)  == [Null EXCEPT !.type = "string", !.string = s]
Array      == [Null EXCEPT !.type = "array"]
Object     == [Null EXCEPT !.type = "object"]

Field(key, value) == [key |-> key, value |-> value]

\* Mutant: a key that is there already gets a second field.
SetAppends(object, key, value) ==
  [object EXCEPT !.fields = Append(@, Field(key, value))]

\* The field of that key gets the value; a new key goes to the end.
Set(object, key, value) ==
  LET same == {i \in DOMAIN object.fields : object.fields[i].key = key}
  IN  IF same = {}
      THEN [object EXCEPT !.fields = Append(@, Field(key, value))]
      ELSE [object EXCEPT !.fields[Min(same)].value = value]

PushBack(array, value) == [array EXCEPT !.elements = Append(@, value)]

Literal == [true |-> Boolean(TRUE), false |-> Boolean(FALSE), null |-> Null]

-----------------------------------------------------------------------------
(* class Parser: each operator takes the position it starts at and returns   *)
(* the one it stops at with what it read; `ok` is FALSE after a fail().      *)

Good(pos, value) == [ok |-> TRUE,  pos |-> pos, value |-> value]
Fail(pos)        == [ok |-> FALSE, pos |-> pos, value |-> Null]

At(text, pos) == IF pos <= Len(text) THEN text[pos] ELSE "end"

SkipWhitespace(text, pos) ==
  Min({i \in pos .. Len(text)+1 : At(text, i) \notin Blanks})

RECURSIVE ParseCharacters(_, _, _), ParseValue(_, _), ParseFields(_, _, _), ParseElements(_, _, _)

ParseCharacters(text, pos, out) ==
  LET c   == At(text, pos)
      esc == At(text, pos+1)
  IN  CASE c = "end"  -> Fail(pos)
        [] c = "\""   -> Good(pos+1, String(out))
        [] c \notin {"end", "\"", "\\"} -> ParseCharacters(text, pos+1, Append(out, c))
        [] c = "\\"   -> IF esc \in DOMAIN Escapes
                         THEN ParseCharacters(text, pos+2, Append(out, Escapes[esc]))
                         ELSE Fail(pos+1)

ParseString(text, pos) ==
  LET p == SkipWhitespace(text, pos)
  IN  IF At(text, p) = "\"" THEN ParseCharacters(text, p+1, <<>>) ELSE Fail(p)

\* What follows an element or a field: the end of the container or one more.
AfterItem(text, pos, close, container, More(_)) ==
  LET p == SkipWhitespace(text, pos)
  IN  CASE At(text, p) = close -> Good(p+1, container)
        [] At(text, p) = ","   -> More(p+1)
        [] OTHER               -> Fail(p)

ParseFields(text, pos, object) ==
  LET key   == ParseString(text, pos)
      colon == SkipWhitespace(text, key.pos)
      value == ParseValue(text, colon+1)
  IN  IF ~key.ok THEN key
      ELSE IF At(text, colon) # ":" THEN Fail(colon)
      ELSE IF ~value.ok THEN value
      ELSE LET longer == Set(object, key.value.string, value.value)
           IN  AfterItem(text, value.pos, "}", longer, LAMBDA p : ParseFields(text, p, longer))

ParseElements(text, pos, array) ==
  LET value == ParseValue(text, pos)
  IN  IF ~value.ok THEN value
      ELSE LET longer == PushBack(array, value.value)
           IN  AfterItem(text, value.pos, "]", longer, LAMBDA p : ParseElements(text, p, longer))

\* An empty container, or its first item.
Container(text, pos, close, empty, Items(_)) ==
  LET p == SkipWhitespace(text, pos)
  IN  IF At(text, p) = close THEN Good(p+1, empty) ELSE Items(p)

ParseValue(text, pos) ==
  LET p == SkipWhitespace(text, pos)
      c == At(text, p)
  IN  CASE c = "{"  -> Container(text, p+1, "}", Object, LAMBDA q : ParseFields(text, q, Object))
        [] c = "["  -> Container(text, p+1, "]", Array, LAMBDA q : ParseElements(text, q, Array))
        [] c = "\"" -> ParseString(text, p)
        [] c \in DOMAIN Literal -> Good(p+1, Literal[c])
        [] c \in Numerals -> Good(p+1, Number(c))
        [] OTHER    -> Fail(p)

Parse(text) ==
  LET value == ParseValue(text, 1)
      end   == SkipWhitespace(text, value.pos)
  IN  IF value.ok /\ end <= Len(text) THEN Fail(end) ELSE value

-----------------------------------------------------------------------------
(* dump() and its helpers.                                                  *)

EscapeOf(c) == CHOOSE e \in DOMAIN Escapes : Escapes[e] = c

\* Mutant: a backslash is written as it is.
EscapeQuotes(c) == IF c \in Escaped \ {"\\"} THEN <<"\\", EscapeOf(c)>> ELSE <<c>>

Escape(c) == IF c \in Escaped THEN <<"\\", EscapeOf(c)>> ELSE <<c>>

AppendEscaped(s) ==
  <<"\"">> \o FlattenSeq([i \in DOMAIN s |-> Escape(s[i])]) \o <<"\"">>

AppendNumber(n) == IF n = Infinity THEN <<"null">> ELSE <<Printed[n]>>

\* The items between brackets, each on a line of its own when pretty.
Enclosed(open, items, close, pretty) ==
  LET break == IF pretty THEN <<"newline">> ELSE <<>>
  IN  IF items = <<>> THEN <<open, close>>
      ELSE <<open>>
           \o FlattenSeq([i \in DOMAIN items |->
                            (IF i > 1 THEN <<",">> ELSE <<>>) \o break \o items[i]])
           \o break \o <<close>>

RECURSIVE DumpTo(_, _)

DumpTo(v, pretty) ==
  CASE v.type = "null"   -> <<"null">>
    [] v.type = "bool"   -> <<IF v.bool THEN "true" ELSE "false">>
    [] v.type = "number" -> AppendNumber(v.number)
    [] v.type = "string" -> AppendEscaped(v.string)
    [] v.type = "array"  ->
         Enclosed("[", [i \in DOMAIN v.elements |-> DumpTo(v.elements[i], pretty)], "]", pretty)
    [] v.type = "object" ->
         Enclosed("{", [i \in DOMAIN v.fields |->
                          AppendEscaped(v.fields[i].key) \o <<":">>
                          \o (IF pretty THEN <<"space">> ELSE <<>>)
                          \o DumpTo(v.fields[i].value, pretty)], "}", pretty)

Dump(v, pretty) == DumpTo(v, pretty) \o (IF pretty THEN <<"newline">> ELSE <<>>)
=============================================================================
