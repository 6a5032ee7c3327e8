-------------------------------- MODULE Config --------------------------------
(***************************************************************************)
(* From a preset to a machine: a sweep overrides knobs of a preset            *)
(* (experiments/perfsim.py), perfsim reads the result (Config::from_json in    *)
(* src/config.cpp) and prints the configuration it used into the results       *)
(* (Config::to_json, append_number in src/json.cpp).                         *)
(*                                                                         *)
(* A JSON document is a function from sections to functions from keys to       *)
(* values.  A number is counted in halves, so that some are not whole; what    *)
(* is no finite number is Infinite or Text.                                  *)
(***************************************************************************)
EXTENDS Integers

CONSTANTS Presets,      \* documents a sweep starts from or --config names
          Knobs,        \* sets of overrides: functions from <<section, key>> to values
          Default,      \* the members of a new Config, by section and key
          Infinite, Text,
          Kilobyte,     \* 1024
          WordBits,     \* 32, the width of a whole number
          MaxBaseCpi,   \* kMaxBaseCpi
          TenDigits,    \* the numbers that %.10g prints as they are
          WholeLimit,   \* 1e15, up to which whole numbers are printed as they are
          LargestDouble \* what strtod reads beyond it is infinite

ASSUME ConfigAssumption ==
  /\ Kilobyte \in Nat \ {0} /\ WordBits \in Nat \ {0} /\ MaxBaseCpi \in Nat \ {0}
  /\ Infinite \notin Int /\ Text \notin Int

VARIABLES preset,   \* the document in the file
          base,     \* what load_config has returned to the sweep
          point,    \* the overrides of this point
          root,     \* the document that perfsim reads or has written
          config,   \* Config
          status    \* "read", "accepted", "rejected", "reported", "KeyError";
            \* "restored" when the results have been read again

vars == <<preset, base, point, root, config, status>>

Keys == [cpu    |-> {"frequency_ghz", "issue_width", "base_cpi", "mshrs"},
         l1     |-> {"size_kb", "line_size", "associativity", "latency_cycles"},
         l2     |-> {"size_kb", "line_size", "associativity", "latency_cycles"},
         memory |-> {"latency_cycles", "bandwidth_gbps"}]

Sections == DOMAIN Keys

Doubles == {<<"cpu", "frequency_ghz">>, <<"cpu", "base_cpi">>, <<"memory", "bandwidth_gbps">>}

\* UINT32_MAX
MaxWord == 2 ^ WordBits - 1

\* A whole number fits its type and fifteen digits (json.cpp:176).  The smallest number
\* above zero and the bound of the CPI take ten digits.
ASSUME PrintAssumption ==
  /\ TenDigits \subseteq Int /\ {1, 2 * MaxBaseCpi} \subseteq TenDigits
  /\ 2 * MaxWord < WholeLimit /\ WholeLimit \in Nat
  /\ 2 * MaxBaseCpi <= LargestDouble /\ LargestDouble \in Nat

NoOverride == [knob \in {} |-> 0]

\* Config(): the defaults; an l2 is enabled.
NewConfig == [has_l2 |-> TRUE, values |-> Default]

Init == /\ preset \in Presets
        /\ base = preset
        /\ point = NoOverride
        /\ root = base
        /\ config = NewConfig
        /\ status = "read"

-----------------------------------------------------------------------------
(* The sweep.                                                               *)

Overridable(document, overrides) ==
  \A knob \in DOMAIN overrides :
    knob[1] \in DOMAIN document /\ knob[2] \in DOMAIN document[knob[1]]

WithOverrides(document, overrides) ==
  [section \in DOMAIN document |->
     [key \in DOMAIN document[section] |->
        IF <<section, key>> \in DOMAIN overrides
        THEN overrides[<<section, key>>] ELSE document[section][key]]]

\* Mutant: the overrides are made in the base document itself.
PointInPlace(overrides) ==
  /\ status # "KeyError" /\ Overridable(base, overrides)
  /\ base' = WithOverrides(base, overrides)
  /\ root' = base'
  /\ point' = overrides
  /\ status' = "read"
  /\ UNCHANGED <<preset, config>>

\* The next point of the sweep.
Point(overrides) == /\ status # "KeyError" /\ Overridable(base, overrides)
                    /\ root' = WithOverrides(base, overrides)
                    /\ point' = overrides
                    /\ status' = "read"
                    /\ UNCHANGED <<preset, base, config>>

\* A misspelt knob ends the sweep.
UnknownKnob(overrides) == /\ status # "KeyError" /\ ~Overridable(base, overrides)
                          /\ status' = "KeyError"
                          /\ UNCHANGED <<preset, base, point, root, config>>

-----------------------------------------------------------------------------
(* Config::from_json.                                                       *)

IsPowerOfTwo(v) == \E k \in 0 .. WordBits - 1 : v = 2 ^ k

SizeBytes(cache) == cache.size_kb * Kilobyte
LineCount(cache) == SizeBytes(cache) \div cache.line_size
SetCount(cache)  == LineCount(cache) \div cache.associativity

\* ObjectReader::number and integer: a finite number, and one without a fraction.
IsReadable(section, key, value) ==
  /\ value \in Int
  /\ <<section, key>> \in Doubles \/ (value \in 0 .. 2 * MaxWord /\ value % 2 = 0)

IsReadableSection(section, node) ==
  /\ DOMAIN node \subseteq Keys[section]
  /\ \A key \in DOMAIN node : IsReadable(section, key, node[key])

Converted(section, key, value) ==
  IF <<section, key>> \in Doubles THEN value ELSE value \div 2

Parsed(document) ==
  [has_l2 |-> "l2" \in DOMAIN document,
   values |-> [section \in Sections |->
                 IF section \notin DOMAIN document THEN Default[section]
                 ELSE [key \in Keys[section] |->
                         IF key \in DOMAIN document[section]
                         THEN Converted(section, key, document[section][key])
                         ELSE Default[section][key]]]]

\* Mutant: the size is not looked at.
CacheFitsAnySize(cache) ==
  /\ IsPowerOfTwo(cache.line_size) /\ cache.line_size >= 4
  /\ cache.associativity > 0
  /\ SizeBytes(cache) % cache.line_size = 0
  /\ LineCount(cache) % cache.associativity = 0
  /\ cache.latency_cycles > 0

CacheFits(cache) == /\ cache.size_kb > 0
                    /\ IsPowerOfTwo(cache.line_size) /\ cache.line_size >= 4
                    /\ cache.associativity > 0
                    /\ SizeBytes(cache) % cache.line_size = 0
                    /\ LineCount(cache) % cache.associativity = 0
                    /\ cache.latency_cycles > 0

CpuFits(cpu) == /\ cpu.frequency_ghz > 0
                /\ cpu.issue_width > 0
                /\ cpu.base_cpi \in 0 .. 2 * MaxBaseCpi
                /\ cpu.mshrs > 0

MemoryFits(memory) == memory.latency_cycles > 0 /\ memory.bandwidth_gbps > 0

\* The members of a Config that the simulator takes.
IsMachine(values) ==
  /\ values = [section \in Sections |-> [key \in Keys[section] |-> values[section][key]]]
  /\ \A section \in Sections : \A key \in Keys[section] :
       IF <<section, key>> \in Doubles THEN values[section][key] \in Int
                                       ELSE values[section][key] \in 0 .. MaxWord
  /\ CpuFits(values.cpu) /\ MemoryFits(values.memory)
  /\ CacheFits(values.l1) /\ CacheFits(values.l2)

\* The defaults are a machine (config.cpp:107-119, config.hpp:16-48).  That a power of
\* two is a number is what the provers cannot compute.
ASSUME DefaultAssumption == IsMachine(Default) /\ MaxWord \in Nat

\* What is not in the document is not looked at.
Fits(document, values) ==
  /\ "cpu" \in DOMAIN document => CpuFits(values.cpu)
  /\ \A level \in {"l1", "l2"} \intersect DOMAIN document : CacheFits(values[level])
  /\ "memory" \in DOMAIN document => MemoryFits(values.memory)

Accepts(document) ==
  /\ DOMAIN document \subseteq Sections
  /\ \A section \in DOMAIN document : IsReadableSection(section, document[section])
  /\ Fits(document, Parsed(document).values)

Read(accepted) == /\ \/ /\ Accepts(root)
                        /\ config' = Parsed(root)
                        /\ status' = accepted
                     \/ /\ ~Accepts(root)
                        /\ status' = "rejected"
                        /\ UNCHANGED config
                  /\ UNCHANGED <<preset, base, point, root>>

\* perfsim reads the document of the sweep.
FromJson == status = "read" /\ Read("accepted")

\* The configuration in the results is what the next run is given.
ReadBack == status = "reported" /\ Read("restored")

-----------------------------------------------------------------------------
(* Config::to_json and the text of the results.                              *)

\* Mutant: an l2 that is not there is written too.
ToJsonAlways(c) ==
  [section \in Sections |->
     [key \in Keys[section] |->
        IF <<section, key>> \in Doubles THEN c.values[section][key] ELSE 2 * c.values[section][key]]]

\* Config::to_json.
ToJson(c) ==
  [section \in IF c.has_l2 THEN Sections ELSE Sections \ {"l2"} |->
     [key \in Keys[section] |->
        IF <<section, key>> \in Doubles THEN c.values[section][key] ELSE 2 * c.values[section][key]]]

Distance(v, w) == IF v < w THEN w - v ELSE v - w

\* The nearest number of ten digits; of two that are as near, either.
Nearest(v) ==
  CHOOSE p \in TenDigits : \A q \in TenDigits : Distance(p, v) <= Distance(q, v)

\* What append_number prints, as strtod reads it.
Printed(v) ==
  IF v % 2 = 0 /\ -WholeLimit < v /\ v < WholeLimit THEN v
  ELSE IF Nearest(v) <= LargestDouble THEN Nearest(v) ELSE Infinite

Dumped(document) ==
  [section \in DOMAIN document |->
     [key \in DOMAIN document[section] |-> Printed(document[section][key])]]

\* The results contain the configuration, as text.
Report == /\ status \in {"accepted", "restored"}
          /\ root' = Dumped(ToJson(config))
          /\ status' = "reported"
          /\ UNCHANGED <<preset, base, point, config>>

Next == \/ \E overrides \in Knobs : Point(overrides) \/ UnknownKnob(overrides)
        \/ FromJson \/ Report \/ ReadBack

Spec == Init /\ [][Next]_vars

-----------------------------------------------------------------------------

\* One cycle of the issue debt, and the CPI it is scaled to (cpu.cpp:9-12,
\* config.hpp:49-52): the larger of base_cpi and one over the issue width.
FractionOne == MaxWord + 1

CpiScaled(cpu) ==
  IF cpu.base_cpi * cpu.issue_width > 2
  THEN (cpu.base_cpi * FractionOne + 1) \div 2
  ELSE (2 * FractionOne + cpu.issue_width) \div (2 * cpu.issue_width)

\* Every configuration that is accepted is one the simulator can be built from:
\* whole sets that fill the cache, although line size and ways are only checked for
\* what they divide (config.cpp:87-101), numbers that fit their type, and an instruction that costs something and
\* no more than the fixed point holds (config.cpp:134, cpu.cpp:8-12).  The other
\* modules assume it.
AcceptedIsBuildable ==
  status \in {"accepted", "restored"} =>
    /\ \A level \in {"l1", "l2"} :
         LET cache == config.values[level]
         IN  /\ SetCount(cache) > 0 /\ cache.latency_cycles > 0
             /\ SetCount(cache) * cache.associativity * cache.line_size = cache.size_kb * Kilobyte
    /\ \A section \in Sections : \A key \in Keys[section] :
         <<section, key>> \notin Doubles => config.values[section][key] \in 0 .. MaxWord
    /\ CpiScaled(config.values.cpu) \in 1 .. MaxBaseCpi * FractionOne
    /\ config.values.cpu.mshrs > 0 /\ config.values.memory.latency_cycles > 0

\* No simulation of the wrong machine (config.hpp:63-64): every override of this
\* point and every other number of the preset has reached it, and no override of an
\* earlier point has (perfsim.py:63-77, run_experiments.py:132-138).
MachineIsThePoint ==
  status = "accepted" =>
    /\ config.has_l2 = ("l2" \in DOMAIN preset)
    /\ \A section \in DOMAIN preset : \A key \in DOMAIN preset[section] :
         LET knob  == <<section, key>>
             value == IF knob \in DOMAIN point THEN point[knob] ELSE preset[section][key]
         IN  key \in Keys[section] /\ config.values[section][key] = Converted(section, key, value)

\* No number of ten digits lies between the two: one of ten digits, or a whole one
\* below the limit, is exact, and any other is rounded to a neighbour.
IsRounding(old, new) ==
  /\ old % 2 = 0 /\ old < WholeLimit => new = old
  /\ \A p \in TenDigits : (p <= old => p <= new) /\ (old <= p => new <= p)

\* The results can be read again and give the same machine, but for doubles of more
\* than ten digits, which are rounded: the rounding takes no number out of the range
\* that is accepted, and what is off stays off (json.cpp:176-179, config.cpp:134,
\* 184).  The one exception is a double that no finite number of ten digits bounds,
\* which may be printed as a number that reads as infinite.
ReportedIsTheMachine ==
  [][ReadBack =>
       \/ /\ status' = "restored"
          /\ config'.has_l2 = config.has_l2
          /\ \A section \in Sections : \A key \in Keys[section] :
               LET old == config.values[section][key]
                   new == config'.values[section][key]
               IN  IF <<section, key>> \in Doubles THEN IsRounding(old, new) ELSE new = old
       \/ /\ status' = "rejected"
          /\ \E knob \in Doubles : \A p \in TenDigits :
               p >= config.values[knob[1]][knob[2]] => p > LargestDouble]_vars
=============================================================================
