------------------------------- MODULE MCConfig -------------------------------
(***************************************************************************)
(* Documents for TLC: one that is right, and those that differ from it in a    *)
(* few places.  A kilobyte has 16 bytes and a word 5 bits.                    *)
(***************************************************************************)
EXTENDS Config, TLC

MCDefault ==
  [cpu    |-> [frequency_ghz |-> 7, issue_width |-> 4, base_cpi |-> 0, mshrs |-> 2],
   l1     |-> [size_kb |-> 2, line_size |-> 8, associativity |-> 2, latency_cycles |-> 1],
   l2     |-> [size_kb |-> 4, line_size |-> 8, associativity |-> 2, latency_cycles |-> 2],
   memory |-> [latency_cycles |-> 9, bandwidth_gbps |-> 5]]

\* The numbers a document may give for one key.
Values(section, key) ==
  CASE key = "size_kb"        -> {0, 2, 3, 6, 62, 64, -2, Infinite, Text}
    [] key = "line_size"      -> {0, 4, 8, 16, 24, 32}
    [] key = "associativity"  -> {0, 2, 4, 6, 16}
    [] key = "issue_width"    -> {0, 2, 5, 62, 64}
    [] key = "base_cpi"       -> {-1, 0, 1, 15, 16, 17, Infinite}
    [] OTHER                  -> {0, 1, 2, 62, 63, 64, 70, 90, Infinite, Text}

Whole == ToJson([has_l2 |-> TRUE, values |-> MCDefault])

Without(document, sections) ==
  [section \in DOMAIN document \ sections |-> document[section]]

\* Two binary digits stand for the ten decimal ones: 7 and 15 are rounded, 15 up to the
\* bound of the CPI, and 90 to a number that reads as infinite.
MCTenDigits == {1} \union {digits * 2 ^ e : digits \in {0, 2, 3}, e \in 0 .. 5}

\* Every geometry of one level, with and without the other one.
Geometries ==
  {[Without(Whole, gone) EXCEPT !.l1 =
      [size_kb |-> size, line_size |-> line, associativity |-> ways]] :
     gone \in {{}, {"l2"}}, size \in Values("l1", "size_kb"),
     line \in Values("l1", "line_size"), ways \in Values("l1", "associativity")}

\* Documents in which one key has another value, or that give nothing else.
OneKey ==
  {[Whole EXCEPT ![section] = [@ EXCEPT ![key] = value]] :
     <<section, key, value>> \in
       UNION {UNION {{<<s, k, v>> : v \in Values(s, k)} : k \in Keys[s]} : s \in Sections}}

OnlyKey ==
  {section :> (key :> value) :
     <<section, key, value>> \in
       UNION {UNION {{<<s, k, v>> : v \in Values(s, k)} : k \in Keys[s]} : s \in Sections}}

CpuPairs ==
  {"cpu" :> ("issue_width" :> width @@ "base_cpi" :> cpi) :
     width \in Values("cpu", "issue_width"), cpi \in Values("cpu", "base_cpi")}

\* Sections that are empty, missing or unknown, and unknown keys.
Unusual ==
  {Without(Whole, gone) : gone \in SUBSET Sections}
    \union {section :> <<>> : section \in Sections \union {"cache"}}
    \union {[Whole EXCEPT ![section] = @ @@ "size_mb" :> 2] : section \in Sections}

MCPresets == Geometries \union OneKey \union OnlyKey \union CpuPairs \union Unusual

\* A knob of each section, two knobs at once, a misspelt one.
MCKnobs ==
  {<<"l1", "size_kb">> :> size : size \in {2, 8, 64}}
    \union {<<"l1", "line_size">> :> line @@ <<"l2", "line_size">> :> line : line \in {8, 32}}
    \union {<<"cpu", "base_cpi">> :> cpi : cpi \in {1, 17}}
    \union {<<"l2", "size_mb">> :> 2}
=============================================================================
