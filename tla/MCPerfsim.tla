----------------------------- MODULE MCPerfsim -----------------------------
(***************************************************************************)
(* Two kinds of invocations: the command line of the experiments with every  *)
(* configuration text that is a document or one item away from one, and      *)
(* every command line of up to three options with a few kinds of files.      *)
(***************************************************************************)
EXTENDS Perfsim

MCPrinted == ("7" :> "7") @@ ("0.5" :> "0.5") @@ ("0.1234567890123" :> "0.123456789")
             @@ ("0.123456789" :> "0.123456789") @@ (Infinity :> Infinity)

MCMeasured == {"7", "0.1234567890123"}

\* Texts.

Texts == {<<>>, <<"\"">>, <<"\\", "n">>, <<"newline">>, <<"backspace">>}

Scalars == {Null, Boolean(TRUE), Number("7"), Number("0.5")} \union {String(s) : s \in Texts}

Lists == {Array} \union {PushBack(Array, v) : v \in {Number("7"), String(<<",">>), Array, Object}}
         \union {PushBack(PushBack(Array, Null), v) : v \in {Number("0.5"), Object}}

Objects == {Object} \union {SetAppends(Object, Key("l1"), v) : v \in Lists \union Scalars}
           \union {SetAppends(SetAppends(Object, Key("l1"), Number("7")), key, Number("0.5")) :
                     key \in {Key("l1"), Key("l2"), <<"\"">>}}

Nested == {SetAppends(Object, Key("l1"), v) :
             v \in {SetAppends(Object, Key("size"), Number("7")), Object}}

Documents == {Dump(v, pretty) : v \in Scalars \union Lists \union Objects \union Nested, pretty \in BOOLEAN}

Items == {"{", "}", "[", "]", ":", ",", "\"", "\\", "n", "newline", "7", Infinity, "true"}

\* A text with one item taken out, put in or replaced.
Near(text) ==
  {RemoveAt(text, i) : i \in DOMAIN text}
  \union {InsertAt(text, i, item) : i \in 1 .. Len(text)+1, item \in Items}
  \union {ReplaceAt(text, i, item) : i \in DOMAIN text, item \in Items}

ConfigTexts == {t \in Documents \union UNION {Near(d) : d \in Documents} : WellSplit(t)}

\* Command lines.

MCSpelling == [t |-> <<"t">>, odd |-> <<"\"", "\\", "n", "newline">>, bell |-> <<"backspace">>]
              @@ ("--quiet" :> <<"--quiet">>) @@ ("--trace" :> <<"--trace">>)

Options == {<<"--config", "c">>, <<"--trace", "t">>, <<"--trace", "odd">>, <<"--trace", "bell">>,
            <<"--trace", "">>, <<"--json", "-">>, <<"--json", "out">>, <<"--json">>, <<"--quiet">>,
            <<"--benchmark">>, <<"--pattern", "sequential">>, <<"--pattern", "zigzag">>,
            <<"--accesses", "9">>, <<"--help">>, <<"t">>}

\* "--json --quiet" and the like are read as an option with a value.
Spoken(line) == \A i \in 1 .. Len(line)-1 :
                  line[i] = "--trace" => line[i+1] \in DOMAIN MCSpelling \union {""}

Lines == {line \in {FlattenSeq(s) : s \in UNION {[1 .. n -> Options] : n \in 0 .. 3}} : Spoken(line)}

GoodConfig == Dump(Set(Object, Key("l1"), Number("7")), FALSE)

Scenario(lines, configs, traces, disks) ==
  [lines |-> lines, configs |-> configs, traces |-> traces, disks |-> disks]

MCScenarios ==
  {Scenario({<<"--config", "c", "--trace", "t", "--quiet", "--json", "-">>},
            ConfigTexts, {"wellformed"}, {"ready"}),
   Scenario(Lines, {GoodConfig}, {"malformed", "wellformed"}, {"ready", "refuses"}),
   Scenario(Lines, {NoFile, <<"{">>}, {"missing"}, {"ready"})}

\* An object whose only section, if any, is l1.
MCAccepts(v) == v.type = "object" /\ \A i \in DOMAIN v.fields : v.fields[i].key = Key("l1")
=============================================================================
