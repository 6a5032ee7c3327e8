----------------------------- MODULE InputProofs -----------------------------
(***************************************************************************)
(* Theorems about the two inputs of a run.  About Config: what is accepted    *)
(* can be built, is the point of the sweep and nothing else, and comes back   *)
(* from the results as it was printed, for every preset, every knob, every     *)
(* size of a kilobyte and every width of a whole number.  About TraceReader: a trace is parsed   *)
(* as its lines say wherever the buffer ends, for every set of files whose    *)
(* lines fit the look-ahead, every size of buffer and look-ahead and every    *)
(* division into reads.                                                       *)
(***************************************************************************)
EXTENDS Config, TraceReader, WellFoundedInduction, FiniteSetTheorems, TLAPS

-----------------------------------------------------------------------------
(* Induction over the naturals.                                              *)

\* The order of the naturals, as a relation.
Less == {p \in Nat \X Nat : p[1] < p[2]}

\* The pairs of naturals in increasing order form a well-founded relation.
LEMMA LessIsWellFounded == IsWellFoundedOn(Less, Nat)
<1>1. Less = OpToRel(<, Nat)
  BY Zenon DEF Less, OpToRel
<1> QED
  BY <1>1, NatLessThanWellFounded, Zenon

\* A nonempty set of naturals has a least element.
LEMMA LeastExists ==
  ASSUME NEW T \in SUBSET Nat, T # {}
  PROVE  \E x \in T : \A y \in T : x <= y
<1>1. PICK x \in T : \A y \in T : <<y, x>> \notin Less
  BY LessIsWellFounded, WFMin
<1>2. ASSUME NEW y \in T PROVE x <= y
  <2>1. <<y, x>> \in Nat \X Nat /\ <<y, x>> \notin Less
    BY <1>1
  <2>2. ~(<<y, x>>[1] < <<y, x>>[2])
    BY <2>1, Zenon DEF Less
  <2> QED
    BY <2>2
<1> QED
  BY <1>2

\* What holds of 0 and is handed from one number to the next holds of every number.
LEMMA InductionOnNat ==
  ASSUME NEW T, 0 \in T, \A k \in Nat \ {0} : k - 1 \in T => k \in T
  PROVE  \A k \in Nat : k \in T
<1> DEFINE Bad == {k \in Nat : k \notin T}
<1> SUFFICES ASSUME Bad # {} PROVE FALSE
  OBVIOUS
<1>1. PICK k \in Bad : \A y \in Bad : k <= y
  <2> HIDE DEF Bad
  <2>1. Bad \in SUBSET Nat
    BY DEF Bad
  <2> QED
    BY <2>1, LeastExists
<1>2. k \in Nat \ {0}
  OBVIOUS
<1>3. k - 1 \in Nat /\ ~(k <= k - 1)
  BY <1>2
<1>4. k - 1 \in T
  BY <1>1, <1>3
<1> QED
  BY <1>2, <1>4

-----------------------------------------------------------------------------
(* The invariant.                                                           *)

\* What this point of the sweep gives for a key of the preset.
Given(section, key) ==
  IF <<section, key>> \in DOMAIN point THEN point[<<section, key>>] ELSE base[section][key]

\* The document that perfsim reads: the sections and keys of the preset, and nothing of
\* an earlier point.
IsThePoint(document) ==
  /\ DOMAIN document = DOMAIN base
  /\ \A section \in DOMAIN base :
       /\ DOMAIN document[section] = DOMAIN base[section]
       /\ \A key \in DOMAIN base[section] : document[section][key] = Given(section, key)

\* A Config made from it.
IsTheMachine(c) ==
  /\ c.has_l2 = ("l2" \in DOMAIN base)
  /\ \A section \in DOMAIN base : \A key \in DOMAIN base[section] :
       /\ key \in Keys[section]
       /\ c.values[section][key] = Converted(section, key, Given(section, key))

\* A Config that from_json returns: a level that is off keeps the default.
IsConfig(c) == /\ c = [has_l2 |-> c.has_l2, values |-> c.values]
               /\ c.has_l2 \in BOOLEAN
               /\ IsMachine(c.values)
               /\ ~c.has_l2 => c.values["l2"] = Default["l2"]

\* The inductive invariant.  A machine that is accepted is the point, and remains one
\* that can be written and read again when the document it came from is gone.
Inv == /\ base = preset
       /\ status = "read" => IsThePoint(root)
       /\ status \in {"accepted", "reported", "restored"} => IsConfig(config)
       /\ status = "accepted" => IsTheMachine(config)
       /\ status = "reported" => root = Dumped(ToJson(config))

-----------------------------------------------------------------------------
(* Reading and writing.                                                     *)

\* One member, whole or not.
IsValue(section, key, value) ==
  IF <<section, key>> \in Doubles THEN value \in Int ELSE value \in 0 .. MaxWord

Written(section, key, value) == IF <<section, key>> \in Doubles THEN value ELSE 2 * value

\* What is readable is converted to a member.
LEMMA ReadableIsValue ==
  ASSUME NEW section, NEW key, NEW value, IsReadable(section, key, value)
  PROVE  IsValue(section, key, Converted(section, key, value))
<1>1. CASE <<section, key>> \in Doubles
  BY <1>1 DEF IsReadable, IsValue, Converted
<1>2. CASE <<section, key>> \notin Doubles
  <2>1. MaxWord \in Nat
    BY DefaultAssumption
  <2> HIDE DEF MaxWord
  <2>2. value \in 0 .. 2 * MaxWord
    BY <1>2 DEF IsReadable
  <2>3. value \div 2 \in 0 .. MaxWord
    BY <2>1, <2>2
  <2> QED
    BY <1>2, <2>3 DEF IsValue, Converted
<1> QED
  BY <1>1, <1>2

\* A member that is written is readable, and converted back to itself.
LEMMA WrittenIsReadable ==
  ASSUME NEW section, NEW key, NEW value, IsValue(section, key, value)
  PROVE  /\ IsReadable(section, key, Written(section, key, value))
         /\ Converted(section, key, Written(section, key, value)) = value
<1>1. CASE <<section, key>> \in Doubles
  BY <1>1 DEF IsReadable, IsValue, Converted, Written
<1>2. CASE <<section, key>> \notin Doubles
  <2>1. MaxWord \in Nat
    BY DefaultAssumption
  <2>2. value \in 0 .. MaxWord /\ Written(section, key, value) = 2 * value
    BY <1>2 DEF IsValue, Written
  <2> HIDE DEF MaxWord
  <2>3. 2 * value \in 0 .. 2 * MaxWord /\ (2 * value) % 2 = 0 /\ (2 * value) \div 2 = value
    BY <2>1, <2>2
  <2>4. 2 * value \in Int
    BY <2>1, <2>2
  <2> QED
    BY <1>2, <2>2, <2>3, <2>4 DEF IsReadable, Converted
<1> QED
  BY <1>1, <1>2

\* The members of a section, and those of all sections.
Row(section, row) == [key \in Keys[section] |-> row[key]]

RowRead(document, section) ==
  [key \in Keys[section] |->
     IF key \in DOMAIN document[section]
     THEN Converted(section, key, document[section][key]) ELSE Default[section][key]]

\* What IsMachine says of one section.
LEMMA MachineRows ==
  ASSUME NEW values
  PROVE  IsMachine(values) <=>
           /\ values = [section \in Sections |-> Row(section, values[section])]
           /\ \A section \in Sections : \A key \in Keys[section] :
                IsValue(section, key, values[section][key])
           /\ CpuFits(values.cpu) /\ MemoryFits(values.memory)
           /\ CacheFits(values.l1) /\ CacheFits(values.l2)
  BY DEF IsMachine, Row, IsValue

\* What from_json returns is a Config of a machine.
LEMMA AcceptedIsConfig ==
  ASSUME NEW document, Accepts(document)
  PROVE  IsConfig(Parsed(document))
<1> DEFINE v == Parsed(document).values
<1>1. v = [section \in Sections |-> IF section \notin DOMAIN document THEN Default[section]
                                    ELSE RowRead(document, section)]
  BY DEF Parsed, RowRead
<1>2. /\ Default = [section \in Sections |-> Row(section, Default[section])]
      /\ \A section \in Sections : \A key \in Keys[section] :
           IsValue(section, key, Default[section][key])
      /\ CpuFits(Default.cpu) /\ MemoryFits(Default.memory)
      /\ CacheFits(Default.l1) /\ CacheFits(Default.l2)
  BY DefaultAssumption, MachineRows
<1>3. ASSUME NEW section \in Sections
      PROVE  /\ section \notin DOMAIN document => v[section] = Default[section]
             /\ v[section] = Row(section, v[section])
             /\ \A key \in Keys[section] : IsValue(section, key, v[section][key])
  <2>1. CASE section \notin DOMAIN document
    <3>1. v[section] = Default[section] /\ Default[section] = Row(section, Default[section])
      BY <1>1, <1>2, <2>1
    <3> QED
      BY <1>2, <2>1, <3>1
  <2>2. CASE section \in DOMAIN document
    <3>1. v[section] = RowRead(document, section)
      BY <1>1, <2>2
    <3> HIDE DEF v
    <3>2. ASSUME NEW key \in Keys[section]
          PROVE  IsValue(section, key, v[section][key])
      <4>1. CASE key \in DOMAIN document[section]
        <5>1. IsReadable(section, key, document[section][key])
          BY <2>2, <4>1 DEF Accepts, IsReadableSection
        <5>2. v[section][key] = Converted(section, key, document[section][key])
          BY <3>1, <4>1 DEF RowRead
        <5> QED
          BY <5>1, <5>2, ReadableIsValue
      <4>2. CASE key \notin DOMAIN document[section]
        BY <1>2, <3>1, <4>2 DEF RowRead
      <4> QED
        BY <4>1, <4>2
    <3>3. v[section] = Row(section, v[section])
      BY <3>1 DEF RowRead, Row
    <3> QED
      BY <2>2, <3>2, <3>3
  <2> QED
    BY <2>1, <2>2
<1>4. Fits(document, v)
  BY DEF Accepts
<1>5. /\ "cpu" \in Sections /\ "l1" \in Sections /\ "l2" \in Sections /\ "memory" \in Sections
  BY DEF Sections, Keys
<1>6. /\ "cpu" \in DOMAIN document => CpuFits(v["cpu"])
      /\ "l1" \in DOMAIN document => CacheFits(v["l1"])
      /\ "l2" \in DOMAIN document => CacheFits(v["l2"])
      /\ "memory" \in DOMAIN document => MemoryFits(v["memory"])
  BY <1>4 DEF Fits
<1>7. v = [section \in Sections |-> Row(section, v[section])]
  <2> DEFINE w == [section \in Sections |-> Row(section, v[section])]
  <2>1. \A section \in Sections : v[section] = w[section]
    BY <1>3
  <2>2. DOMAIN v = Sections /\ v = [section \in DOMAIN v |-> v[section]]
    BY <1>1
  <2> QED
    BY <2>1, <2>2
<1> HIDE DEF v
<1>8. CpuFits(v["cpu"]) /\ MemoryFits(v["memory"]) /\ CacheFits(v["l1"]) /\ CacheFits(v["l2"])
  BY <1>2, <1>3, <1>5, <1>6
<1>9. IsMachine(v)
  BY <1>3, <1>7, <1>8, MachineRows
<1>10. "l2" \notin DOMAIN document => v["l2"] = Default["l2"]
  BY <1>3, <1>5
<1> DEFINE has == "l2" \in DOMAIN document
           c == Parsed(document)
<1>11. has \in BOOLEAN /\ c = [has_l2 |-> has, values |-> v]
  BY DEF Parsed, v
<1>12. ~has => v["l2"] = Default["l2"]
  BY <1>10
<1> HIDE DEF has, c
<1>13. c.has_l2 = has /\ c.values = v
  BY <1>11
<1>14. IsConfig(c)
  BY <1>9, <1>11, <1>12, <1>13 DEF IsConfig
<1> QED
  BY <1>14 DEF c

\* It is the Config of the point, if the document was.
LEMMA PointIsRead ==
  ASSUME NEW document, Accepts(document), IsThePoint(document)
  PROVE  IsTheMachine(Parsed(document))
<1>1. Parsed(document).has_l2 = ("l2" \in DOMAIN base)
  BY DEF Parsed, IsThePoint
<1>2. ASSUME NEW section \in DOMAIN base, NEW key \in DOMAIN base[section]
      PROVE  /\ key \in Keys[section]
             /\ Parsed(document).values[section][key] =
                  Converted(section, key, Given(section, key))
  <2>1. /\ section \in DOMAIN document /\ key \in DOMAIN document[section]
        /\ document[section][key] = Given(section, key)
    BY DEF IsThePoint
  <2>2. section \in Sections /\ key \in Keys[section]
    BY <2>1 DEF Accepts, IsReadableSection
  <2>3. Parsed(document).values[section] = RowRead(document, section)
    BY <2>1, <2>2 DEF Parsed, RowRead
  <2>4. RowRead(document, section)[key] = Converted(section, key, document[section][key])
    BY <2>1, <2>2 DEF RowRead
  <2> QED
    BY <2>1, <2>2, <2>3, <2>4
<1> QED
  BY <1>1, <1>2 DEF IsTheMachine

\* What to_json writes is accepted and read as the same Config.
LEMMA RoundTrip ==
  ASSUME NEW c, IsConfig(c)
  PROVE  Accepts(ToJson(c)) /\ Parsed(ToJson(c)) = c
<1> DEFINE d == ToJson(c)
           here == IF c.has_l2 THEN Sections ELSE Sections \ {"l2"}
           v == c.values
<1>1. /\ DOMAIN d = here
      /\ \A section \in here :
           /\ DOMAIN d[section] = Keys[section]
           /\ \A key \in Keys[section] : d[section][key] = Written(section, key, v[section][key])
  BY DEF ToJson, Written
<1>2. /\ v = [section \in Sections |-> Row(section, v[section])]
      /\ \A section \in Sections : \A key \in Keys[section] :
           IsValue(section, key, v[section][key])
      /\ CpuFits(v.cpu) /\ MemoryFits(v.memory) /\ CacheFits(v.l1) /\ CacheFits(v.l2)
  BY MachineRows DEF IsConfig
<1>3. /\ c = [has_l2 |-> c.has_l2, values |-> v] /\ c.has_l2 \in BOOLEAN
      /\ ~c.has_l2 => v["l2"] = Default["l2"]
  BY DEF IsConfig
<1>4. here \subseteq Sections /\ ("l2" \in here <=> c.has_l2)
      /\ \A section \in Sections : section \notin here => ~c.has_l2 /\ section = "l2"
  BY DEF Sections, Keys
<1> HIDE DEF d, here, v
<1>5. ASSUME NEW section \in here, NEW key \in Keys[section]
      PROVE  /\ IsReadable(section, key, d[section][key])
             /\ Converted(section, key, d[section][key]) = v[section][key]
  BY <1>1, <1>2, <1>4, WrittenIsReadable
<1>6. Parsed(d).values = [section \in Sections |->
                            IF section \notin here THEN Default[section]
                            ELSE RowRead(d, section)]
  BY <1>1 DEF Parsed, RowRead
<1>7. ASSUME NEW section \in Sections
      PROVE  Parsed(d).values[section] = Row(section, v[section])
  <2>1. CASE section \notin here
    <3>1. Parsed(d).values[section] = v[section]
      BY <1>3, <1>4, <1>6, <2>1
    <3> QED
      BY <1>2, <3>1
  <2>2. CASE section \in here
    <3>1. Parsed(d).values[section] = RowRead(d, section)
      BY <1>6, <2>2
    <3>2. \A key \in Keys[section] : key \in DOMAIN d[section]
                                   /\ Converted(section, key, d[section][key]) = v[section][key]
      BY <1>1, <1>5, <2>2
    <3> QED
      BY <3>1, <3>2 DEF RowRead, Row
  <2> QED
    BY <2>1, <2>2
<1>8. Parsed(d).values = v
  <2>1. DOMAIN (Parsed(d).values) = Sections
        /\ Parsed(d).values = [section \in Sections |-> Parsed(d).values[section]]
    BY <1>6
  <2> DEFINE w == Parsed(d).values
  <2> HIDE DEF w
  <2> QED
    BY <1>2, <1>7, <2>1 DEF w
<1>9. Parsed(d).has_l2 = c.has_l2
  BY <1>1, <1>3, <1>4 DEF Parsed
<1>10. Parsed(d) = [has_l2 |-> Parsed(d).has_l2, values |-> Parsed(d).values]
  BY DEF Parsed
<1>11. Parsed(d) = c
  BY <1>3, <1>8, <1>9, <1>10
<1>12. Accepts(d)
  <2>1. \A section \in DOMAIN d : IsReadableSection(section, d[section])
    BY <1>1, <1>5 DEF IsReadableSection
  <2>2. Fits(d, v)
    BY <1>2 DEF Fits
  <2> QED
    BY <1>1, <1>4, <1>8, <2>1, <2>2 DEF Accepts
<1> QED
  BY <1>11, <1>12 DEF d

-----------------------------------------------------------------------------
(* Printing and reading again.                                              *)

\* There is a nearest number of ten digits.
LEMMA NearestExists ==
  ASSUME NEW v \in Int
  PROVE  /\ Nearest(v) \in TenDigits
         /\ \A q \in TenDigits : Distance(Nearest(v), v) <= Distance(q, v)
<1> DEFINE D == {Distance(p, v) : p \in TenDigits}
<1>1. \A p \in TenDigits : p \in Int /\ Distance(p, v) \in Nat
  BY PrintAssumption DEF Distance
<1>2. D \in SUBSET Nat /\ Distance(1, v) \in D
  BY <1>1, PrintAssumption
<1>3. PICK d \in D : \A e \in D : d <= e
  <2> HIDE DEF D
  <2> QED
    BY <1>2, LeastExists
<1>4. \E p \in TenDigits : \A q \in TenDigits : Distance(p, v) <= Distance(q, v)
  BY <1>3
<1> QED
  BY <1>4 DEF Nearest

\* No number of ten digits lies between a number and the nearest one.
LEMMA NearestIsNeighbour ==
  ASSUME NEW v \in Int
  PROVE  /\ Nearest(v) \in Int
         /\ \A p \in TenDigits : (p <= v => p <= Nearest(v)) /\ (v <= p => Nearest(v) <= p)
<1> DEFINE r == Nearest(v)
<1>1. r \in Int /\ \A q \in TenDigits : q \in Int /\ Distance(r, v) <= Distance(q, v)
  BY NearestExists, PrintAssumption
<1> HIDE DEF r
<1>2. ASSUME NEW p \in TenDigits
      PROVE  (p <= v => p <= r) /\ (v <= p => r <= p)
  BY <1>1, <1>2 DEF Distance
<1> QED
  BY <1>1, <1>2 DEF r

\* What a number of a machine is printed as, if that is finite.
LEMMA PrintedIsRounding ==
  ASSUME NEW v \in Nat, Printed(v) # Infinite
  PROVE  /\ Printed(v) \in Int /\ IsRounding(v, Printed(v))
         /\ v > 0 => Printed(v) > 0
         /\ v \in 0 .. 2 * MaxBaseCpi => Printed(v) \in 0 .. 2 * MaxBaseCpi
<1> DEFINE w     == Printed(v)
           exact == v % 2 = 0 /\ v < WholeLimit
<1>1. /\ MaxWord \in Nat /\ 2 * MaxWord < WholeLimit /\ WholeLimit \in Nat /\ MaxBaseCpi \in Nat
      /\ 1 \in TenDigits /\ 2 * MaxBaseCpi \in TenDigits /\ TenDigits \subseteq Int
  BY PrintAssumption, DefaultAssumption, ConfigAssumption
<1> HIDE DEF MaxWord
<1>2. w = IF exact THEN v ELSE Nearest(v)
  BY <1>1 DEF Printed
<1>3. 0 % 2 = 0 /\ 0 < WholeLimit
  BY <1>1
<1> HIDE DEF w, exact
<1>4. CASE exact
  <2>1. w = v
    BY <1>2, <1>4
  <2> QED
    BY <1>1, <2>1 DEF IsRounding, w
<1>5. CASE ~exact
  <2>1. w = Nearest(v)
    BY <1>2, <1>5
  <2>2. w \in Int /\ \A p \in TenDigits : (p <= v => p <= w) /\ (v <= p => w <= p)
    BY <2>1, NearestIsNeighbour
  <2>3. v # 0
    BY <1>3, <1>5 DEF exact
  <2>4. w >= 1
    BY <1>1, <2>2, <2>3
  <2>5. v <= 2 * MaxBaseCpi => w <= 2 * MaxBaseCpi
    BY <1>1, <2>2
  <2>6. IsRounding(v, w)
    BY <1>5, <2>2 DEF IsRounding, exact
  <2> QED
    BY <1>1, <2>2, <2>4, <2>5, <2>6 DEF w
<1> QED
  BY <1>4, <1>5

\* What is printed as a number that reads as infinite is beyond every finite one of ten
\* digits.
LEMMA PrintedOverflows ==
  ASSUME NEW v \in Int, Printed(v) = Infinite
  PROVE  \A p \in TenDigits : p >= v => p > LargestDouble
<1>1. Nearest(v) \in Int /\ \A p \in TenDigits : p \in Int /\ (v <= p => Nearest(v) <= p)
  BY NearestIsNeighbour, PrintAssumption
<1>2. Infinite \notin Int /\ LargestDouble \in Nat
  BY ConfigAssumption, PrintAssumption
<1>3. Nearest(v) > LargestDouble
  BY <1>1, <1>2 DEF Printed
<1> QED
  BY <1>1, <1>2, <1>3

\* A whole number of a Config is printed as it is.
LEMMA WholeIsExact == \A w \in 0 .. MaxWord : Printed(2 * w) = 2 * w
<1>1. MaxWord \in Nat /\ 2 * MaxWord < WholeLimit /\ WholeLimit \in Nat
  BY PrintAssumption, DefaultAssumption
<1> HIDE DEF MaxWord
<1> SUFFICES ASSUME NEW w \in 0 .. MaxWord PROVE Printed(2 * w) = 2 * w
  OBVIOUS
<1>2. (2 * w) % 2 = 0 /\ -WholeLimit < 2 * w /\ 2 * w < WholeLimit
  BY <1>1
<1> QED
  BY <1>2 DEF Printed

\* One section as it comes back, and the Config.
RoundedRow(section, row) ==
  [key \in Keys[section] |->
     IF <<section, key>> \in Doubles THEN Printed(row[key]) ELSE row[key]]

RoundedConfig(c) ==
  [has_l2 |-> c.has_l2,
   values |-> [section \in Sections |-> RoundedRow(section, c.values[section])]]

\* Every double of a Config is printed as a finite number.
PrintsFinite(c) == \A knob \in Doubles : Printed(c.values[knob[1]][knob[2]]) # Infinite

\* The doubles and the other members.
LEMMA DoublesAre ==
  /\ \A section, key : <<section, key>> \in Doubles <=>
       \/ section = "cpu" /\ key \in {"frequency_ghz", "base_cpi"}
       \/ section = "memory" /\ key = "bandwidth_gbps"
  /\ {"cpu", "l1", "l2", "memory"} = Sections
  /\ \A knob \in Doubles : knob = <<knob[1], knob[2]>> /\ knob[1] \in Sections
                           /\ knob[2] \in Keys[knob[1]]
BY DEF Doubles, Sections, Keys

\* The doubles of a machine are no less than zero.
LEMMA DoublesArePositive ==
  ASSUME NEW c, IsConfig(c), NEW knob \in Doubles
  PROVE  c.values[knob[1]][knob[2]] \in Nat
<1>1. /\ c.values["cpu"]["frequency_ghz"] \in Int /\ c.values["cpu"]["base_cpi"] \in Int
      /\ c.values["memory"]["bandwidth_gbps"] \in Int
      /\ CpuFits(c.values.cpu) /\ MemoryFits(c.values.memory)
  <2>1. "cpu" \in Sections /\ "memory" \in Sections
        /\ {"frequency_ghz", "base_cpi"} \subseteq Keys["cpu"] /\ "bandwidth_gbps" \in Keys["memory"]
    BY DEF Sections, Keys
  <2>2. /\ \A section \in Sections : \A key \in Keys[section] :
             <<section, key>> \in Doubles => c.values[section][key] \in Int
        /\ CpuFits(c.values.cpu) /\ MemoryFits(c.values.memory)
    BY DEF IsConfig, IsMachine
  <2>3. {<<"cpu", "frequency_ghz">>, <<"cpu", "base_cpi">>, <<"memory", "bandwidth_gbps">>}
          \subseteq Doubles
    BY DEF Doubles
  <2> QED
    BY <2>1, <2>2, <2>3
<1>2. /\ c.values["cpu"]["frequency_ghz"] \in Nat /\ c.values["cpu"]["base_cpi"] \in Nat
      /\ c.values["memory"]["bandwidth_gbps"] \in Nat
  BY <1>1 DEF CpuFits, MemoryFits
<1> QED
  BY <1>2 DEF Doubles

\* What is written and printed is what a Config with rounded doubles writes.
LEMMA DumpedIsRounded ==
  ASSUME NEW c, IsConfig(c)
  PROVE  Dumped(ToJson(c)) = ToJson(RoundedConfig(c))
<1> DEFINE here == IF c.has_l2 THEN Sections ELSE Sections \ {"l2"}
           v    == c.values
           r    == RoundedConfig(c)
<1>1. \A section \in Sections : \A key \in Keys[section] : IsValue(section, key, v[section][key])
  BY MachineRows DEF IsConfig
<1>2. ToJson(c) = [section \in here |-> [key \in Keys[section] |-> Written(section, key, v[section][key])]]
  BY DEF ToJson, Written
<1>3. r.has_l2 = c.has_l2 /\ here \subseteq Sections
      /\ \A section \in Sections : r.values[section] = RoundedRow(section, v[section])
  BY DEF RoundedConfig
<1>4. ToJson(r) = [section \in here |->
                     [key \in Keys[section] |->
                        Written(section, key, RoundedRow(section, v[section])[key])]]
  BY <1>3 DEF ToJson, Written
<1> HIDE DEF here, v, r
<1>5. Dumped(ToJson(c)) = [section \in here |->
                             [key \in Keys[section] |->
                                Printed(Written(section, key, v[section][key]))]]
  BY <1>2 DEF Dumped
<1>6. ASSUME NEW section \in here, NEW key \in Keys[section]
      PROVE  Printed(Written(section, key, v[section][key]))
               = Written(section, key, RoundedRow(section, v[section])[key])
  <2>1. IsValue(section, key, v[section][key])
    BY <1>1, <1>3
  <2> QED
    BY <2>1, WholeIsExact DEF IsValue, Written, RoundedRow
<1> QED
  BY <1>4, <1>5, <1>6 DEF r

\* A Config with rounded doubles is one that from_json returns.
LEMMA RoundedIsConfig ==
  ASSUME NEW c, IsConfig(c), PrintsFinite(c)
  PROVE  IsConfig(RoundedConfig(c))
<1> DEFINE v == c.values
           r == RoundedConfig(c)
           w == r.values
<1>1. /\ v = [section \in Sections |-> Row(section, v[section])]
      /\ \A section \in Sections : \A key \in Keys[section] :
           IsValue(section, key, v[section][key])
      /\ CpuFits(v.cpu) /\ MemoryFits(v.memory) /\ CacheFits(v.l1) /\ CacheFits(v.l2)
      /\ c.has_l2 \in BOOLEAN /\ (~c.has_l2 => v["l2"] = Default["l2"])
  BY MachineRows DEF IsConfig
<1>2. /\ r = [has_l2 |-> r.has_l2, values |-> w] /\ r.has_l2 = c.has_l2
      /\ w = [section \in Sections |-> RoundedRow(section, v[section])]
  BY DEF RoundedConfig
<1>3. ASSUME NEW knob \in Doubles
      PROVE  LET old == v[knob[1]][knob[2]]
             IN  /\ Printed(old) \in Int /\ (old > 0 => Printed(old) > 0)
                 /\ old \in 0 .. 2 * MaxBaseCpi => Printed(old) \in 0 .. 2 * MaxBaseCpi
  BY DoublesArePositive, PrintedIsRounding DEF PrintsFinite
<1> HIDE DEF v, r, w
<1>4. \A section \in Sections : w[section] = RoundedRow(section, v[section])
  BY <1>2
<1>5. ASSUME NEW section \in Sections, NEW key \in Keys[section]
      PROVE  /\ w[section][key] = IF <<section, key>> \in Doubles THEN Printed(v[section][key])
                                  ELSE v[section][key]
             /\ IsValue(section, key, w[section][key])
  <2>1. w[section][key] = IF <<section, key>> \in Doubles THEN Printed(v[section][key])
                          ELSE v[section][key]
    BY <1>4 DEF RoundedRow
  <2>2. <<section, key>> \in Doubles => Printed(v[section][key]) \in Int
    BY <1>3
  <2> QED
    BY <1>1, <2>1, <2>2 DEF IsValue
<1>6. \A section \in Sections : w[section] = Row(section, w[section])
  BY <1>4 DEF RoundedRow, Row
<1>7. w = [section \in Sections |-> Row(section, w[section])]
  BY <1>2, <1>6
<1>8. ASSUME NEW level \in {"l1", "l2"}
      PROVE  w[level] = v[level]
  <2>1. level \in Sections /\ \A key : <<level, key>> \notin Doubles
    BY DoublesAre
  <2>2. v[level] = Row(level, v[level])
    BY <1>1, <2>1
  <2> QED
    BY <1>4, <2>1, <2>2 DEF RoundedRow, Row
<1>9. CpuFits(w["cpu"])
  <2>1. "cpu" \in Sections /\ {"frequency_ghz", "issue_width", "base_cpi", "mshrs"} \subseteq Keys["cpu"]
    BY DEF Sections, Keys
  <2>2. /\ w["cpu"]["frequency_ghz"] = Printed(v["cpu"]["frequency_ghz"])
        /\ w["cpu"]["base_cpi"] = Printed(v["cpu"]["base_cpi"])
        /\ w["cpu"]["issue_width"] = v["cpu"]["issue_width"]
        /\ w["cpu"]["mshrs"] = v["cpu"]["mshrs"]
    <3>1. /\ <<"cpu", "frequency_ghz">> \in Doubles /\ <<"cpu", "base_cpi">> \in Doubles
          /\ <<"cpu", "issue_width">> \notin Doubles /\ <<"cpu", "mshrs">> \notin Doubles
      BY DEF Doubles
    <3>2. \A key \in Keys["cpu"] :
            w["cpu"][key] = IF <<"cpu", key>> \in Doubles THEN Printed(v["cpu"][key])
                            ELSE v["cpu"][key]
      BY <1>5, <2>1
    <3> QED
      BY <2>1, <3>1, <3>2
  <2>3. /\ v["cpu"]["frequency_ghz"] > 0 => Printed(v["cpu"]["frequency_ghz"]) > 0
        /\ v["cpu"]["base_cpi"] \in 0 .. 2 * MaxBaseCpi
             => Printed(v["cpu"]["base_cpi"]) \in 0 .. 2 * MaxBaseCpi
    <3>1. <<"cpu", "frequency_ghz">> \in Doubles /\ <<"cpu", "base_cpi">> \in Doubles
      BY DEF Doubles
    <3> QED
      BY <1>3, <3>1
  <2> QED
    BY <1>1, <2>2, <2>3 DEF CpuFits
<1>10. MemoryFits(w["memory"])
  <2>1. "memory" \in Sections /\ {"latency_cycles", "bandwidth_gbps"} \subseteq Keys["memory"]
    BY DEF Sections, Keys
  <2>2. /\ w["memory"]["bandwidth_gbps"] = Printed(v["memory"]["bandwidth_gbps"])
        /\ w["memory"]["latency_cycles"] = v["memory"]["latency_cycles"]
    <3>1. <<"memory", "bandwidth_gbps">> \in Doubles /\ <<"memory", "latency_cycles">> \notin Doubles
      BY DEF Doubles
    <3>2. \A key \in Keys["memory"] :
            w["memory"][key] = IF <<"memory", key>> \in Doubles THEN Printed(v["memory"][key])
                               ELSE v["memory"][key]
      BY <1>5, <2>1
    <3> QED
      BY <2>1, <3>1, <3>2
  <2>3. <<"memory", "bandwidth_gbps">> \in Doubles
    BY DEF Doubles
  <2>4. v["memory"]["bandwidth_gbps"] > 0 => Printed(v["memory"]["bandwidth_gbps"]) > 0
    BY <1>3, <2>3
  <2> QED
    BY <1>1, <2>2, <2>4 DEF MemoryFits
<1>11. IsMachine(w)
  BY <1>1, <1>5, <1>7, <1>8, <1>9, <1>10, MachineRows
<1>12. ~r.has_l2 => w["l2"] = Default["l2"]
  BY <1>1, <1>2, <1>8
<1>13. r.values = w
  BY DEF w
<1>14. IsConfig(r)
  BY <1>1, <1>2, <1>11, <1>12, <1>13 DEF IsConfig
<1> QED
  BY <1>14 DEF r

\* The results of a Config whose doubles are printed as finite numbers are read as the
\* rounded one.
LEMMA ResultsAreRead ==
  ASSUME NEW c, IsConfig(c), PrintsFinite(c)
  PROVE  /\ Accepts(Dumped(ToJson(c)))
         /\ Parsed(Dumped(ToJson(c))) = RoundedConfig(c)
<1> DEFINE r == RoundedConfig(c)
<1>1. IsConfig(r)
  BY RoundedIsConfig
<1> HIDE DEF r
<1>2. Accepts(ToJson(r)) /\ Parsed(ToJson(r)) = r
  BY <1>1, RoundTrip
<1> QED
  BY <1>2, DumpedIsRounded DEF r

\* And those of another Config are refused.
LEMMA ResultsAreRefused ==
  ASSUME NEW c, IsConfig(c), ~PrintsFinite(c)
  PROVE  /\ ~Accepts(Dumped(ToJson(c)))
         /\ \E knob \in Doubles : \A p \in TenDigits :
              p >= c.values[knob[1]][knob[2]] => p > LargestDouble
<1> DEFINE d == Dumped(ToJson(c))
<1>1. PICK knob \in Doubles : Printed(c.values[knob[1]][knob[2]]) = Infinite
  BY DEF PrintsFinite
<1> DEFINE section == knob[1]
           key     == knob[2]
<1>2. /\ section \in Sections /\ section # "l2" /\ key \in Keys[section]
      /\ <<section, key>> \in Doubles
  BY DEF Doubles, Sections, Keys
<1>3. section \in DOMAIN d /\ key \in DOMAIN d[section] /\ d[section][key] = Infinite
  <2> DEFINE here == IF c.has_l2 THEN Sections ELSE Sections \ {"l2"}
             j    == ToJson(c)
  <2>1. /\ DOMAIN j = here
        /\ \A s \in here : DOMAIN j[s] = Keys[s]
        /\ j[section][key] = c.values[section][key]
    BY <1>2 DEF ToJson
  <2>2. section \in here
    BY <1>2
  <2> HIDE DEF here, j
  <2>3. /\ section \in DOMAIN Dumped(j) /\ key \in DOMAIN Dumped(j)[section]
        /\ Dumped(j)[section][key] = Printed(j[section][key])
    BY <1>2, <2>1, <2>2 DEF Dumped
  <2> QED
    BY <1>1, <2>1, <2>3 DEF j
<1>4. ~Accepts(d)
  BY <1>3, ConfigAssumption DEF Accepts, IsReadableSection, IsReadable
<1>5. c.values[section][key] \in Int
  BY DoublesArePositive
<1>6. \A p \in TenDigits : p >= c.values[section][key] => p > LargestDouble
  BY <1>1, <1>5, PrintedOverflows
<1> QED
  BY <1>4, <1>6

-----------------------------------------------------------------------------
(* What can be built.                                                       *)

\* A whole quotient gives back what was divided.
LEMMA ExactQuotient ==
  ASSUME NEW x \in Nat \ {0}, NEW d \in Nat \ {0}, x % d = 0
  PROVE  x \div d \in Nat \ {0} /\ (x \div d) * d = x
<1> DEFINE q == x \div d
           m == x % d
<1>1. x \in Nat /\ d \in Nat /\ d > 0
  OBVIOUS
<1>2. q \in Int /\ m \in 0 .. d - 1 /\ x = d * q + m
  BY <1>1
<1> HIDE DEF q, m
<1>3. x = d * q /\ d * q = q * d
  BY <1>1, <1>2 DEF m
<1>4. q > 0
  <2>1. CASE q <= 0
    <3>1. d * q <= 0
      BY <1>1, <1>2, <2>1
    <3> QED
      BY <1>3, <3>1
  <2> QED
    BY <1>2, <2>1
<1> QED
  BY <1>2, <1>3, <1>4 DEF q

\* The sets of a cache that fits fill it.
LEMMA SetsFillCache ==
  ASSUME NEW cache, CacheFits(cache),
         cache.size_kb \in Nat, cache.line_size \in Nat, cache.associativity \in Nat
  PROVE  /\ SetCount(cache) > 0 /\ cache.latency_cycles > 0
         /\ SetCount(cache) * cache.associativity * cache.line_size = cache.size_kb * Kilobyte
<1> DEFINE size  == cache.size_kb
           width == cache.line_size
           ways  == cache.associativity
           bytes == size * Kilobyte
           lines == bytes \div width
           sets  == lines \div ways
<1>1. size \in Nat \ {0} /\ width \in Nat \ {0} /\ ways \in Nat \ {0}
  BY DEF CacheFits
<1>2. bytes \in Nat \ {0}
  BY <1>1, ConfigAssumption
<1>3. /\ bytes % width = 0 /\ lines % ways = 0
      /\ SetCount(cache) = sets /\ cache.latency_cycles > 0
  BY DEF CacheFits, SizeBytes, LineCount, SetCount
<1> HIDE DEF size, width, ways, bytes
<1>4. lines \in Nat \ {0} /\ lines * width = bytes
  BY <1>1, <1>2, <1>3, ExactQuotient
<1> HIDE DEF lines
<1>5. sets \in Nat \ {0} /\ sets * ways = lines
  BY <1>1, <1>3, <1>4, ExactQuotient
<1> HIDE DEF sets
<1>6. sets * ways * width = bytes /\ sets > 0
  BY <1>4, <1>5
<1> QED
  BY <1>3, <1>6 DEF size, width, ways, bytes

\* A quotient lies between the numbers whose multiples enclose what is divided.
LEMMA QuotientWithin ==
  ASSUME NEW x \in Nat, NEW d \in Nat \ {0}, NEW top \in Nat, d <= x, x < (top + 1) * d
  PROVE  x \div d \in 1 .. top
<1> DEFINE q == x \div d
           m == x % d
<1>1. q \in Int /\ m \in 0 .. d - 1 /\ x = d * q + m
  OBVIOUS
<1> HIDE DEF q, m
<1>2. q >= 1
  <2>1. CASE q <= 0
    <3>1. d * q <= 0
      BY <1>1, <2>1
    <3> QED
      BY <1>1, <3>1
  <2> QED
    BY <1>1, <2>1
<1>3. q <= top
  <2>1. CASE q >= top + 1
    <3>1. d * q >= d * (top + 1) /\ d * (top + 1) = (top + 1) * d
      BY <1>1, <2>1
    <3>2. d * q \in Int /\ (top + 1) * d \in Int
      BY <1>1
    <3> QED
      BY <1>1, <3>1, <3>2
  <2> QED
    BY <1>1, <2>1
<1> QED
  BY <1>1, <1>2, <1>3 DEF q

\* An instruction costs something, and no more than the fixed point holds.
LEMMA CpiInRange ==
  ASSUME NEW cpu, CpuFits(cpu), cpu.issue_width \in 0 .. MaxWord
  PROVE  CpiScaled(cpu) \in 1 .. MaxBaseCpi * FractionOne
<1> DEFINE one   == FractionOne
           cpi   == cpu.base_cpi
           width == cpu.issue_width
           most  == MaxBaseCpi
<1>1. /\ one \in Nat \ {0} /\ most \in Nat \ {0}
      /\ width \in Nat \ {0} /\ width < one /\ cpi \in Nat /\ cpi <= 2 * most
  <2> HIDE DEF MaxWord
  <2> QED
    BY DefaultAssumption, ConfigAssumption DEF FractionOne, CpuFits
<1>2. CpiScaled(cpu) = IF cpi * width > 2 THEN (cpi * one + 1) \div 2
                       ELSE (2 * one + width) \div (2 * width)
  BY DEF CpiScaled
<1> HIDE DEF one, cpi, width, most
<1>3. most * one \in Nat /\ one <= most * one
  BY <1>1
<1>4. CASE cpi * width > 2
  <2>1. cpi >= 1
    <3>1. CASE cpi = 0
      BY <1>1, <1>4, <3>1
    <3> QED
      BY <1>1, <3>1
  <2>2. cpi * one \in Nat /\ one <= cpi * one
    BY <1>1, <2>1
  <2>3. cpi * one <= (2 * most) * one /\ (2 * most) * one = 2 * (most * one)
    BY <1>1
  <2> DEFINE x == cpi * one + 1
             top == most * one
  <2>4. x \in Nat /\ 2 <= x /\ x < (top + 1) * 2
    BY <1>1, <1>3, <2>2, <2>3
  <2>5. top \in Nat
    BY <1>3
  <2> HIDE DEF x, top
  <2>6. x \div 2 \in 1 .. top
    BY <2>4, <2>5, QuotientWithin
  <2> QED
    BY <1>2, <1>4, <2>6 DEF x, top, one, most
<1>5. CASE ~(cpi * width > 2)
  <2> DEFINE x == 2 * one + width
             d == 2 * width
             top == most * one
  <2>1. x \in Nat /\ d \in Nat \ {0} /\ d <= x /\ top \in Nat
    BY <1>1, <1>3
  <2>2. x < (top + 1) * d
    <3>1. d <= top * d + d /\ (top + 1) * d = top * d + d
      BY <1>1, <1>3, <2>1
    <3>2. top * d >= one * d /\ one * d = 2 * (one * width)
      BY <1>1, <1>3, <2>1
    <3>3. one * width >= one /\ one * width \in Nat /\ top * d \in Nat
      BY <1>1, <2>1
    <3> HIDE DEF top
    <3> QED
      BY <1>1, <3>1, <3>2, <3>3
  <2> HIDE DEF x, d, top
  <2>3. x \div d \in 1 .. top
    BY <2>1, <2>2, QuotientWithin
  <2> QED
    BY <1>2, <1>5, <2>3 DEF x, d, top, one, most
<1> QED
  BY <1>4, <1>5

\* Every machine can be built.
LEMMA MachineIsBuildable ==
  ASSUME IsMachine(config.values)
  PROVE  AcceptedIsBuildable
<1> DEFINE v == config.values
<1>1. /\ CpuFits(v["cpu"]) /\ MemoryFits(v["memory"])
      /\ \A level \in {"l1", "l2"} : CacheFits(v[level])
      /\ \A section \in Sections : \A key \in Keys[section] :
           <<section, key>> \notin Doubles => v[section][key] \in 0 .. MaxWord
  BY DEF IsMachine
<1>2. /\ v["cpu"].issue_width \in 0 .. MaxWord
      /\ \A level \in {"l1", "l2"} : /\ v[level].size_kb \in 0 .. MaxWord
                                    /\ v[level].line_size \in 0 .. MaxWord
                                    /\ v[level].associativity \in 0 .. MaxWord
  BY <1>1 DEF Sections, Keys, Doubles
<1> HIDE DEF v
<1>3. ASSUME NEW level \in {"l1", "l2"}
      PROVE  LET cache == v[level]
             IN  /\ SetCount(cache) > 0 /\ cache.latency_cycles > 0
                 /\ SetCount(cache) * cache.associativity * cache.line_size =
                      cache.size_kb * Kilobyte
  <2>1. v[level].size_kb \in Nat /\ v[level].line_size \in Nat /\ v[level].associativity \in Nat
    BY <1>2
  <2> QED
    BY <1>1, <2>1, SetsFillCache
<1>4. CpiScaled(v["cpu"]) \in 1 .. MaxBaseCpi * FractionOne
  BY <1>1, <1>2, CpiInRange
<1>5. v["cpu"].mshrs > 0 /\ v["memory"].latency_cycles > 0
  BY <1>1 DEF CpuFits, MemoryFits
<1> QED
  BY <1>1, <1>3, <1>4, <1>5 DEF AcceptedIsBuildable, v

-----------------------------------------------------------------------------
(* The theorems.                                                            *)

\* A sweep begins with the preset as it is.
LEMMA InitEstablishesInv == Init => Inv
  BY DEF Init, Inv, IsThePoint, Given, NoOverride

\* A point is the preset with its own overrides, whatever came before.
LEMMA PointKeepsInv == ASSUME Inv, NEW overrides, Point(overrides) PROVE Inv'
<1>1. /\ root' = WithOverrides(base, overrides) /\ point' = overrides
      /\ base' = base /\ preset' = preset /\ status' = "read"
  BY DEF Point
<1>2. /\ DOMAIN root' = DOMAIN base
      /\ \A section \in DOMAIN base :
           /\ DOMAIN root'[section] = DOMAIN base[section]
           /\ \A key \in DOMAIN base[section] :
                root'[section][key] = IF <<section, key>> \in DOMAIN overrides
                                      THEN overrides[<<section, key>>] ELSE base[section][key]
  BY <1>1 DEF WithOverrides
<1> QED
  BY <1>1, <1>2 DEF Inv, IsThePoint, Given

\* What is read is read as the point.
LEMMA FromJsonKeepsInv == ASSUME Inv, FromJson PROVE Inv'
<1>1. /\ base' = base /\ preset' = preset /\ point' = point /\ root' = root
      /\ status = "read"
      /\ \/ Accepts(root) /\ config' = Parsed(root) /\ status' = "accepted"
         \/ ~Accepts(root) /\ config' = config /\ status' = "rejected"
  BY DEF FromJson, Read
<1>2. CASE Accepts(root)
  <2>1. IsThePoint(root) /\ status' = "accepted" /\ config' = Parsed(root)
    BY <1>1, <1>2 DEF Inv
  <2>2. IsConfig(Parsed(root)) /\ IsTheMachine(Parsed(root))
    BY <1>2, <2>1, AcceptedIsConfig, PointIsRead
  <2> QED
    BY <1>1, <2>1, <2>2 DEF Inv, IsTheMachine, IsConfig, Given
<1>3. CASE ~Accepts(root)
  BY <1>1, <1>3 DEF Inv
<1> QED
  BY <1>2, <1>3

\* What the property says of one step.
Restores ==
  \/ /\ status' = "restored"
     /\ config'.has_l2 = config.has_l2
     /\ \A section \in Sections : \A key \in Keys[section] :
          LET old == config.values[section][key]
              new == config'.values[section][key]
          IN  IF <<section, key>> \in Doubles THEN IsRounding(old, new) ELSE new = old
  \/ /\ status' = "rejected"
     /\ \E knob \in Doubles : \A p \in TenDigits :
          p >= config.values[knob[1]][knob[2]] => p > LargestDouble

\* What was reported is read as it was printed.
LEMMA ReadBackKeepsInv == ASSUME Inv, ReadBack PROVE Inv' /\ Restores
<1>1. /\ base' = base /\ preset' = preset /\ point' = point /\ root' = root
      /\ status = "reported"
      /\ \/ Accepts(root) /\ config' = Parsed(root) /\ status' = "restored"
         \/ ~Accepts(root) /\ config' = config /\ status' = "rejected"
  BY DEF ReadBack, Read
<1>2. IsConfig(config) /\ root = Dumped(ToJson(config))
  BY <1>1 DEF Inv
<1>3. CASE PrintsFinite(config)
  <2>1. config' = RoundedConfig(config) /\ status' = "restored"
    BY <1>1, <1>2, <1>3, ResultsAreRead
  <2>2. IsConfig(config')
    BY <1>2, <1>3, <2>1, RoundedIsConfig
  <2>3. Inv'
    BY <1>1, <2>1, <2>2 DEF Inv, IsConfig
  <2>4. /\ config'.has_l2 = config.has_l2
        /\ \A section \in Sections : \A key \in Keys[section] :
             config'.values[section][key] =
               IF <<section, key>> \in Doubles THEN Printed(config.values[section][key])
               ELSE config.values[section][key]
    BY <2>1 DEF RoundedConfig, RoundedRow
  <2>5. ASSUME NEW section \in Sections, NEW key \in Keys[section], <<section, key>> \in Doubles
        PROVE  IsRounding(config.values[section][key], config'.values[section][key])
    <3>1. \A knob \in Doubles : /\ config.values[knob[1]][knob[2]] \in Nat
                               /\ Printed(config.values[knob[1]][knob[2]]) # Infinite
      BY <1>2, <1>3, DoublesArePositive DEF PrintsFinite
    <3>2. config.values[section][key] \in Nat /\ Printed(config.values[section][key]) # Infinite
      BY <2>5, <3>1
    <3> QED
      BY <2>4, <2>5, <3>2, PrintedIsRounding
  <2> QED
    BY <2>1, <2>3, <2>4, <2>5 DEF Restores
<1>4. CASE ~PrintsFinite(config)
  <2>1. /\ ~Accepts(root)
        /\ \E knob \in Doubles : \A p \in TenDigits :
             p >= config.values[knob[1]][knob[2]] => p > LargestDouble
    BY <1>2, <1>4, ResultsAreRefused
  <2>2. status' = "rejected"
    BY <1>1, <2>1
  <2> QED
    BY <1>1, <2>1, <2>2 DEF Inv, Restores
<1> QED
  BY <1>3, <1>4

\* Every step keeps the invariant.
LEMMA StepKeepsInv == Inv /\ [Next]_vars => Inv'
<1> SUFFICES ASSUME Inv, [Next]_vars PROVE Inv'
  OBVIOUS
<1>1. ASSUME NEW overrides \in Knobs, Point(overrides) PROVE Inv'
  BY <1>1, PointKeepsInv
<1>2. ASSUME NEW overrides \in Knobs, UnknownKnob(overrides) PROVE Inv'
  BY <1>2 DEF UnknownKnob, Inv
<1>3. CASE FromJson
  BY <1>3, FromJsonKeepsInv
<1>4. CASE Report
  BY <1>4 DEF Report, Inv, IsTheMachine, IsConfig, Given
<1>5. CASE ReadBack
  BY <1>5, ReadBackKeepsInv
<1>6. CASE UNCHANGED vars
  BY <1>6 DEF vars, Inv, IsThePoint, IsTheMachine, IsConfig, Given
<1> QED
  BY <1>1, <1>2, <1>3, <1>4, <1>5, <1>6 DEF Next

\* The invariant holds in every reachable state.
THEOREM Invariance == Spec => []Inv
<1> QED
  BY InitEstablishesInv, StepKeepsInv, PTL DEF Spec

\* Every accepted configuration can be built (config.cpp:73-157, cpu.cpp:8-12).
THEOREM AcceptedCanBeBuilt == Spec => []AcceptedIsBuildable
<1>1. Inv => AcceptedIsBuildable
  <2>1. status \notin {"accepted", "restored"} => AcceptedIsBuildable
    BY DEF AcceptedIsBuildable
  <2> QED
    BY <2>1, MachineIsBuildable DEF Inv, IsConfig
<1> QED
  BY <1>1, Invariance, PTL

\* The machine that is simulated is the preset with the overrides of this point
\* (config.hpp:63-64, perfsim.py:63-77, run_experiments.py:132-138).
THEOREM SimulatesThePoint == Spec => []MachineIsThePoint
<1>1. Inv => MachineIsThePoint
  BY DEF Inv, IsTheMachine, Given, MachineIsThePoint
<1> QED
  BY <1>1, Invariance, PTL

\* The configuration in the results, read again, is that of the run but for the digits
\* that were not printed, and is refused only where ten digits reach beyond the largest
\* double (json.cpp:176-179, config.cpp:134, 184).
THEOREM ResultsReadAgain == Spec => ReportedIsTheMachine
<1> DEFINE Same == ReadBack => Restores
<1>1. Inv /\ [Next]_vars => [Same]_vars
  BY ReadBackKeepsInv
<1> HIDE DEF Same
<1>2. Spec => [][Same]_vars
  BY <1>1, Invariance, PTL DEF Spec
<1> QED
  BY <1>2, PTL DEF ReportedIsTheMachine, Same, Restores

-----------------------------------------------------------------------------
(* Parts of a file.                                                         *)

\* The bytes of a file or of a part of it.
FileText == Seq(Bytes)

\* What is left after the first n bytes.
LEMMA DropType ==
  ASSUME NEW S, NEW s \in Seq(S), NEW n \in 0 .. Len(s)
  PROVE  /\ Drop(s, n) \in Seq(S) /\ Len(Drop(s, n)) = Len(s) - n
         /\ \A i \in 1 .. Len(s) - n : Drop(s, n)[i] = s[n + i]
BY DEF Drop

\* The first n bytes.
LEMMA BeginningType ==
  ASSUME NEW S, NEW s \in Seq(S), NEW n \in 0 .. Len(s)
  PROVE  /\ SubSeq(s, 1, n) \in Seq(S) /\ Len(SubSeq(s, 1, n)) = n
         /\ \A i \in 1 .. n : SubSeq(s, 1, n)[i] = s[i]
OBVIOUS

\* This is how many bytes of these kinds there are at the beginning.
IsSpan(s, kinds, n) ==
  /\ n \in 0 .. Len(s) /\ \A i \in 1 .. n : s[i] \in kinds
  /\ n < Len(s) => s[n + 1] \notin kinds

\* Span finds that number, the only one.
LEMMA SpanIs ==
  ASSUME NEW S, NEW s \in Seq(S), NEW kinds
  PROVE  /\ IsSpan(s, kinds, Span(s, kinds))
         /\ \A n : IsSpan(s, kinds, n) => n = Span(s, kinds)
<1> DEFINE D == {i \in 1 .. Len(s) : s[i] \notin kinds}
<1>1. Len(s) \in Nat
  OBVIOUS
<1>2. \E n \in 0 .. Len(s) : IsSpan(s, kinds, n)
  <2>1. CASE D = {}
    <3>1. IsSpan(s, kinds, Len(s))
      BY <1>1, <2>1 DEF IsSpan
    <3> QED
      BY <1>1, <3>1
  <2>2. CASE D # {}
    <3>1. D \in SUBSET Nat
      BY <1>1
    <3>2. PICK d \in D : \A m \in D : d <= m
      <4> HIDE DEF D
      <4> QED
        BY <2>2, <3>1, LeastExists
    <3>3. IsSpan(s, kinds, d - 1)
      <4>1. d \in 1 .. Len(s) /\ s[d] \notin kinds
        OBVIOUS
      <4>2. ASSUME NEW i \in 1 .. d - 1 PROVE s[i] \in kinds
        <5>1. i \notin D /\ i \in 1 .. Len(s)
          BY <3>2, <4>1, <1>1
        <5> QED
          BY <5>1
      <4>3. d - 1 \in 0 .. Len(s) /\ d - 1 + 1 = d
        BY <4>1, <1>1
      <4> HIDE DEF D
      <4> QED
        BY <4>1, <4>2, <4>3 DEF IsSpan
    <3> QED
      BY <3>3 DEF IsSpan
  <2> QED
    BY <2>1, <2>2
<1>3. IsSpan(s, kinds, Span(s, kinds))
  BY <1>2 DEF IsSpan, Span
<1>4. ASSUME NEW m, NEW n, IsSpan(s, kinds, m), IsSpan(s, kinds, n), m < n PROVE FALSE
  <2>1. m \in 0 .. Len(s) /\ n \in 0 .. Len(s)
    BY <1>4 DEF IsSpan
  <2>2. m + 1 \in 1 .. n /\ m < Len(s)
    BY <2>1, <1>1, <1>4
  <2>3. s[m + 1] \in kinds /\ s[m + 1] \notin kinds
    BY <2>2, <1>4 DEF IsSpan
  <2> QED
    BY <2>3
<1>5. ASSUME NEW n, IsSpan(s, kinds, n) PROVE n = Span(s, kinds)
  <2>1. n \in Int /\ Span(s, kinds) \in Int
    BY <1>3, <1>5, <1>1 DEF IsSpan
  <2>2. ~(n < Span(s, kinds)) /\ ~(Span(s, kinds) < n)
    BY <1>3, <1>4, <1>5
  <2> QED
    BY <2>1, <2>2
<1> QED
  BY <1>3, <1>5

\* The text after the blanks at the beginning.
LEMMA BodyIs ==
  ASSUME NEW s \in FileText, NEW n, IsSpan(s, Leading, n)
  PROVE  /\ Body(s) \in FileText /\ Len(Body(s)) = Len(s) - n
         /\ \A i \in 1 .. Len(s) - n : Body(s)[i] = s[n + i]
<1>1. n = Span(s, Leading) /\ n \in 0 .. Len(s)
  BY SpanIs DEF IsSpan, FileText
<1> QED
  BY <1>1, DropType DEF Body, FileText

-----------------------------------------------------------------------------
(* A record and what follows it.                                            *)

\* b is the line t, and if it goes on it does so after the end of the line.
BeginsWithLine(b, t) ==
  /\ t \in FileText /\ b \in FileText /\ Len(t) <= Len(b)
  /\ \A i \in 1 .. Len(t) : b[i] = t[i] /\ t[i] # "nl"
  /\ Len(t) < Len(b) => b[Len(t) + 1] = "nl"

\* No span crosses the end of the line.
LEMMA SpanInLine ==
  ASSUME NEW b, NEW t, BeginsWithLine(b, t), NEW kinds, "nl" \notin kinds
  PROVE  Span(b, kinds) = Span(t, kinds) /\ Span(t, kinds) \in 0 .. Len(t)
<1> DEFINE n == Span(t, kinds)
<1>1. t \in FileText /\ b \in FileText /\ Len(t) \in Nat /\ Len(b) \in Nat
  BY DEF BeginsWithLine, FileText
<1>2. IsSpan(t, kinds, n)
  BY <1>1, SpanIs DEF FileText
<1> HIDE DEF n
<1>3. IsSpan(b, kinds, n)
  <2>1. n \in 0 .. Len(t) /\ Len(t) <= Len(b)
    BY <1>2 DEF IsSpan, BeginsWithLine
  <2>2. \A i \in 1 .. n : b[i] \in kinds
    BY <2>1, <1>1, <1>2 DEF IsSpan, BeginsWithLine
  <2>3. n < Len(b) => b[n + 1] \notin kinds
    <3>1. CASE n < Len(t)
      BY <3>1, <2>1, <1>1, <1>2 DEF IsSpan, BeginsWithLine
    <3>2. CASE n = Len(t)
      BY <3>2 DEF BeginsWithLine
    <3> QED
      BY <3>1, <3>2, <2>1, <1>1
  <2> QED
    BY <2>1, <2>2, <2>3, <1>1 DEF IsSpan
<1> QED
  BY <1>1, <1>2, <1>3, SpanIs DEF IsSpan, FileText, n

\* A part of the line may be left out.
LEMMA DropFromLine ==
  ASSUME NEW b, NEW t, BeginsWithLine(b, t), NEW n \in 0 .. Len(t)
  PROVE  BeginsWithLine(Drop(b, n), Drop(t, n)) /\ Len(Drop(t, n)) = Len(t) - n
<1>1. t \in Seq(Bytes) /\ b \in Seq(Bytes) /\ Len(t) \in Nat /\ Len(b) \in Nat /\ Len(t) <= Len(b)
  BY DEF BeginsWithLine, FileText
<1>2. n \in 0 .. Len(b)
  BY <1>1
<1>3. /\ Drop(b, n) \in FileText /\ Len(Drop(b, n)) = Len(b) - n
      /\ \A i \in 1 .. Len(b) - n : Drop(b, n)[i] = b[n + i]
  BY <1>1, <1>2, DropType DEF FileText
<1>4. /\ Drop(t, n) \in FileText /\ Len(Drop(t, n)) = Len(t) - n
      /\ \A i \in 1 .. Len(t) - n : Drop(t, n)[i] = t[n + i]
  BY <1>1, DropType DEF FileText
<1>5. ASSUME NEW i \in 1 .. Len(t) - n PROVE Drop(b, n)[i] = Drop(t, n)[i] /\ Drop(t, n)[i] # "nl"
  <2>1. n + i \in 1 .. Len(t) /\ i \in 1 .. Len(b) - n
    BY <1>1
  <2> QED
    BY <2>1, <1>3, <1>4 DEF BeginsWithLine
<1>6. Len(t) - n < Len(b) - n => Drop(b, n)[Len(t) - n + 1] = "nl"
  <2> SUFFICES ASSUME Len(t) - n < Len(b) - n PROVE Drop(b, n)[Len(t) - n + 1] = "nl"
    OBVIOUS
  <2>1. Len(t) - n + 1 \in 1 .. Len(b) - n /\ n + (Len(t) - n + 1) = Len(t) + 1 /\ Len(t) < Len(b)
    BY <1>1
  <2> QED
    BY <2>1, <1>3 DEF BeginsWithLine
<1>7. Len(t) - n <= Len(b) - n
  BY <1>1
<1> QED
  BY <1>3, <1>4, <1>5, <1>6, <1>7 DEF BeginsWithLine

\* What the parser makes of the line does not depend on what follows it.
LEMMA RecordOfLine ==
  ASSUME NEW b, NEW t, BeginsWithLine(b, t), t # <<>>
  PROVE  RecordAt(b) = RecordAt(t) /\ (WellFormed(b) <=> WellFormed(t))
<1>1. t \in FileText /\ b \in FileText /\ Len(t) \in Nat \ {0} /\ Len(b) \in Nat \ {0} /\ b[1] = t[1]
  BY DEF BeginsWithLine, FileText
<1>2. BeginsWithLine(Tail(b), Tail(t))
  <2>1. Tail(b) = Drop(b, 1) /\ Tail(t) = Drop(t, 1)
    BY <1>1 DEF Drop, FileText
  <2>2. BeginsWithLine(Drop(b, 1), Drop(t, 1))
    BY <1>1, DropFromLine
  <2> QED
    BY <2>1, <2>2, Zenon
<1> DEFINE n == Span(Tail(t), {"blank"})
<1>3. Span(Tail(b), {"blank"}) = n /\ n \in 0 .. Len(Tail(t))
  BY <1>2, SpanInLine
<1>4. BeginsWithLine(Operand(b), Operand(t))
  <2>1. Operand(b) = Drop(Tail(b), n) /\ Operand(t) = Drop(Tail(t), n)
    BY <1>3 DEF Operand
  <2> HIDE DEF n
  <2> QED
    BY <2>1, <1>2, <1>3, DropFromLine
<1> DEFINE p == Operand(b)  q == Operand(t)
<1>5. IsHex(b) = IsHex(t) /\ (IsHex(t) => Len(q) >= 2) /\ Len(q) \in Nat
  <2>1. Len(q) \in Nat /\ Len(p) \in Nat /\ Len(q) <= Len(p)
    BY <1>4 DEF BeginsWithLine, FileText
  <2>2. CASE Len(q) >= 2
    <3>1. p[1] = q[1] /\ p[2] = q[2] /\ Len(p) >= 2
      BY <1>4, <2>1, <2>2 DEF BeginsWithLine
    <3> QED
      BY <2>1, <2>2, <3>1 DEF IsHex
  <2>3. CASE Len(q) < 2
    <3>1. ~IsHex(t)
      BY <2>1, <2>3 DEF IsHex
    <3>2. Len(p) >= 2 => p[1] = "nl" \/ p[2] = "nl"
      BY <1>4, <2>1, <2>3 DEF BeginsWithLine
    <3>3. ~IsHex(b)
      BY <3>2 DEF IsHex
    <3> QED
      BY <3>1, <3>3, <2>1 DEF IsHex
  <2> QED
    BY <2>1, <2>2, <2>3
<1>6. DigitCount(b) = DigitCount(t)
  <2>1. "nl" \notin Digits
    BY DEF Digits
  <2> HIDE DEF p, q
  <2>2. CASE IsHex(t)
    <3>1. BeginsWithLine(Drop(p, 2), Drop(q, 2))
      BY <2>2, <1>4, <1>5, DropFromLine DEF p, q
    <3>2. Span(Drop(p, 2), Digits) = Span(Drop(q, 2), Digits)
      BY <2>1, <3>1, SpanInLine
    <3> QED
      BY <2>2, <3>2, <1>5 DEF DigitCount, p, q
  <2>3. CASE ~IsHex(t)
    <3>1. Span(p, Digits) = Span(q, Digits)
      BY <2>1, <1>4, SpanInLine DEF p, q
    <3> QED
      BY <2>3, <3>1, <1>5 DEF DigitCount, p, q
  <2> QED
    BY <2>2, <2>3
<1> QED
  BY <1>1, <1>5, <1>6 DEF RecordAt, WellFormed

-----------------------------------------------------------------------------
(* The lines of a file.                                                     *)

\* The bytes at the places c .. e are all of the line that starts at c.
IsLine(f, c, e) ==
  /\ e \in c - 1 .. Len(f) /\ \A i \in c .. e : f[i] # "nl"
  /\ e < Len(f) => f[e + 1] = "nl"

\* There are only blanks at the places a .. e, and no end of a line.
Blank(f, a, e) == \A i \in a .. e : f[i] \in Leading \ {"nl"}

\* What follows the beginning of a line.
LEMMA TailIs ==
  ASSUME NEW f \in FileText, NEW c \in LineStarts(f), NEW t, t = Drop(f, c - 1)
  PROVE  /\ t \in Seq(Bytes) /\ Len(t) = Len(f) - (c - 1)
         /\ \A i \in 1 .. Len(f) - (c - 1) : t[i] = f[c - 1 + i]
<1>1. PICK n \in 0 .. Len(f) : n = c - 1
  BY DEF LineStarts, FileText
<1>2. /\ t \in Seq(Bytes) /\ Len(t) = Len(f) - n
      /\ \A i \in 1 .. Len(f) - n : t[i] = f[n + i]
  BY <1>1, DropType DEF FileText
<1> QED
  BY <1>1, <1>2

\* A line is what its places hold.
LEMMA LineIs ==
  ASSUME NEW f \in FileText, NEW c \in LineStarts(f), NEW e, IsLine(f, c, e)
  PROVE  /\ Line(f, c) \in FileText /\ Len(Line(f, c)) = e - c + 1
         /\ \A i \in 1 .. e - c + 1 : Line(f, c)[i] = f[c - 1 + i]
<1> DEFINE tail == Drop(f, c - 1)  n == e - c + 1
<1>1. f \in Seq(Bytes) /\ Len(f) \in Nat /\ c \in 1 .. Len(f) + 1 /\ e \in c - 1 .. Len(f)
  BY DEF FileText, LineStarts, IsLine
<1>2. c - 1 \in 0 .. Len(f) /\ n \in 0 .. Len(f) - (c - 1)
  BY <1>1
<1>3. /\ tail \in Seq(Bytes) /\ Len(tail) = Len(f) - (c - 1)
      /\ \A i \in 1 .. Len(f) - (c - 1) : tail[i] = f[c - 1 + i]
  BY TailIs
<1> HIDE DEF tail
<1>4. IsSpan(tail, Bytes \ {"nl"}, n)
  <2>1. ASSUME NEW i \in 1 .. n PROVE tail[i] \in Bytes \ {"nl"}
    <3>1. c - 1 + i \in c .. e /\ i \in 1 .. Len(tail)
      BY <1>1, <1>2, <1>3
    <3>2. tail[i] # "nl"
      BY <3>1, <1>3 DEF IsLine
    <3> QED
      BY <3>1, <3>2, <1>3
  <2>2. ASSUME n < Len(tail) PROVE tail[n + 1] \notin Bytes \ {"nl"}
    <3>1. e < Len(f) /\ n + 1 \in 1 .. Len(f) - (c - 1) /\ c - 1 + (n + 1) = e + 1
      BY <2>2, <1>1, <1>2, <1>3
    <3>2. tail[n + 1] = "nl"
      BY <3>1, <1>3 DEF IsLine
    <3> QED
      BY <3>2
  <2> QED
    BY <2>1, <2>2, <1>2, <1>3 DEF IsSpan
<1>5. Span(tail, Bytes \ {"nl"}) = n
  BY <1>3, <1>4, SpanIs
<1>6. Line(f, c) = SubSeq(tail, 1, n)
  BY <1>5 DEF Line, tail
<1>7. n \in 0 .. Len(tail)
  BY <1>2, <1>3
<1> HIDE DEF n
<1>8. /\ Line(f, c) \in Seq(Bytes) /\ Len(Line(f, c)) = n
      /\ \A i \in 1 .. n : Line(f, c)[i] = tail[i]
  BY <1>3, <1>6, <1>7, BeginningType
<1>9. \A i \in 1 .. n : tail[i] = f[c - 1 + i]
  BY <1>2, <1>3, <1>7 DEF n
<1> QED
  BY <1>8, <1>9 DEF n, FileText

\* Every line ends.
LEMMA LineExists ==
  ASSUME NEW f \in FileText, NEW c \in LineStarts(f)
  PROVE  \E e : IsLine(f, c, e)
<1> DEFINE tail == Drop(f, c - 1)  n == Span(tail, Bytes \ {"nl"})
<1>1. f \in Seq(Bytes) /\ Len(f) \in Nat /\ c \in 1 .. Len(f) + 1 /\ c - 1 \in 0 .. Len(f)
  BY DEF FileText, LineStarts
<1>2. /\ tail \in Seq(Bytes) /\ Len(tail) = Len(f) - (c - 1)
      /\ \A i \in 1 .. Len(f) - (c - 1) : tail[i] = f[c - 1 + i]
  BY TailIs
<1>3. IsSpan(tail, Bytes \ {"nl"}, n)
  BY <1>2, SpanIs
<1> HIDE DEF tail, n
<1>4. n \in 0 .. Len(f) - (c - 1) /\ \A i \in 1 .. n : tail[i] # "nl"
  BY <1>2, <1>3 DEF IsSpan
<1>5. c - 1 + n \in c - 1 .. Len(f)
  BY <1>1, <1>4
<1>6. ASSUME NEW i \in c .. c - 1 + n PROVE f[i] # "nl"
  <2>1. i - (c - 1) \in 1 .. n /\ i - (c - 1) \in 1 .. Len(f) - (c - 1) /\ c - 1 + (i - (c - 1)) = i
    BY <1>1, <1>4
  <2> QED
    BY <2>1, <1>2, <1>4
<1>7. ASSUME c - 1 + n < Len(f) PROVE f[c - 1 + n + 1] = "nl"
  <2>1. n + 1 \in 1 .. Len(f) - (c - 1) /\ n < Len(tail) /\ c - 1 + (n + 1) = c - 1 + n + 1
    BY <1>1, <1>2, <1>4, <1>7
  <2>2. tail[n + 1] \notin Bytes \ {"nl"} /\ tail[n + 1] \in Bytes
    BY <2>1, <1>2, <1>3 DEF IsSpan
  <2>3. tail[n + 1] = f[c - 1 + (n + 1)]
    BY <2>1, <1>2
  <2> QED
    BY <2>1, <2>2, <2>3
<1> QED
  BY <1>5, <1>6, <1>7 DEF IsLine

\* A line of blanks means nothing.
LEMMA BlankLine ==
  ASSUME NEW f \in FileText, NEW c \in LineStarts(f), NEW e, IsLine(f, c, e), Blank(f, c, e)
  PROVE  ~Meaningful(Line(f, c))
<1> DEFINE s == Line(f, c)  n == e - c + 1
<1>1. s \in FileText /\ Len(s) = n /\ \A i \in 1 .. n : s[i] = f[c - 1 + i]
  BY LineIs
<1>2. c \in Nat \ {0} /\ e \in Int /\ n \in Nat
  BY DEF LineStarts, IsLine, FileText
<1> HIDE DEF s
<1>3. IsSpan(s, Leading, n)
  <2>1. ASSUME NEW i \in 1 .. n PROVE s[i] \in Leading
    <3>1. c - 1 + i \in c .. e
      BY <1>2
    <3> QED
      BY <3>1, <1>1 DEF Blank
  <2> QED
    BY <2>1, <1>1, <1>2 DEF IsSpan
<1>4. Body(s) \in FileText /\ Len(Body(s)) = 0
  <2> HIDE DEF n
  <2> QED
    BY <1>1, <1>2, <1>3, BodyIs
<1>5. Body(s) = <<>>
  BY <1>4 DEF FileText
<1> QED
  BY <1>5 DEF Meaningful, s

\* The text of a line that is not blank, from its first byte h on.
LEMMA TextOfLine ==
  ASSUME NEW f \in FileText, NEW c \in LineStarts(f), NEW e, IsLine(f, c, e),
         NEW h \in c .. e, Blank(f, c, h - 1), f[h] \notin Leading
  PROVE  /\ Body(Line(f, c)) \in FileText /\ Len(Body(Line(f, c))) = e - h + 1
         /\ \A i \in 1 .. e - h + 1 : Body(Line(f, c))[i] = f[h - 1 + i]
<1> DEFINE s == Line(f, c)  n == h - c
<1>1. s \in FileText /\ Len(s) = e - c + 1 /\ \A i \in 1 .. e - c + 1 : s[i] = f[c - 1 + i]
  BY LineIs
<1>2. c \in Nat \ {0} /\ e \in Int /\ n \in 0 .. e - c + 1 /\ n < e - c + 1
  BY DEF LineStarts, IsLine, FileText
<1> HIDE DEF s
<1>3. IsSpan(s, Leading, n)
  <2>1. ASSUME NEW i \in 1 .. n PROVE s[i] \in Leading
    <3>1. c - 1 + i \in c .. h - 1 /\ i \in 1 .. e - c + 1
      BY <1>2
    <3> QED
      BY <3>1, <1>1 DEF Blank
  <2>2. s[n + 1] \notin Leading
    <3>1. c - 1 + (n + 1) = h /\ n + 1 \in 1 .. e - c + 1
      BY <1>2
    <3> QED
      BY <3>1, <1>1
  <2> QED
    BY <2>1, <2>2, <1>1, <1>2 DEF IsSpan
<1>4. /\ Body(s) \in FileText /\ Len(Body(s)) = Len(s) - n
      /\ \A i \in 1 .. Len(s) - n : Body(s)[i] = s[n + i]
  BY <1>1, <1>3, BodyIs
<1>5. Len(s) - n = e - h + 1
  BY <1>1, <1>2
<1>6. ASSUME NEW i \in 1 .. e - h + 1 PROVE Body(s)[i] = f[h - 1 + i]
  <2>1. n + i \in 1 .. e - c + 1 /\ c - 1 + (n + i) = h - 1 + i
    BY <1>2
  <2> QED
    BY <2>1, <1>1, <1>4, <1>5
<1> QED
  BY <1>4, <1>5, <1>6 DEF s

\* The lines of a file are finitely many.
LEMMA LinesFinite ==
  ASSUME NEW f \in FileText
  PROVE  IsFiniteSet(LineStarts(f)) /\ LineStarts(f) \subseteq 1 .. Len(f) + 1
<1>1. 1 \in Int /\ Len(f) + 1 \in Int /\ LineStarts(f) \subseteq 1 .. Len(f) + 1
  BY DEF FileText, LineStarts
<1>2. PICK m : m = Len(f) + 1
  OBVIOUS
<1>3. IsFiniteSet(1 .. m)
  BY <1>1, <1>2, FS_Interval
<1> QED
  BY <1>1, <1>2, <1>3, FS_Subset

\* The line after the one that starts at c and ends at e.
LEMMA NextLine ==
  ASSUME NEW f \in FileText, NEW c \in LineStarts(f), NEW e, IsLine(f, c, e)
  PROVE  /\ \A q \in LineStarts(f) : q <= c \/ q >= e + 2
         /\ e < Len(f) => /\ e + 2 \in LineStarts(f)
                          /\ LineNumber(f, e + 2) = LineNumber(f, c) + 1
         /\ LineNumber(f, c) \in Nat
<1>1. Len(f) \in Nat /\ c \in 1 .. Len(f) + 1 /\ e \in c - 1 .. Len(f)
  BY DEF LineStarts, IsLine, FileText
<1>2. ASSUME NEW q \in LineStarts(f), c < q, q < e + 2 PROVE FALSE
  <2>1. q \in 1 .. Len(f) + 1 /\ q > 1
    BY <1>1, <1>2 DEF LineStarts
  <2>2. q - 1 \in c .. e /\ f[q - 1] = "nl"
    BY <2>1, <1>1, <1>2 DEF LineStarts
  <2> QED
    BY <2>2 DEF IsLine
<1>3. \A q \in LineStarts(f) : q \in Nat /\ (q <= c \/ q >= e + 2)
  BY <1>1, <1>2, LinesFinite
<1> DEFINE Upto == {q \in LineStarts(f) : q <= c}
<1>4. IsFiniteSet(Upto) /\ Cardinality(Upto) \in Nat
  <2>1. IsFiniteSet(Upto)
    BY LinesFinite, FS_Subset
  <2> QED
    BY <2>1, FS_CardinalityType
<1>5. ASSUME e < Len(f)
      PROVE  e + 2 \in LineStarts(f) /\ LineNumber(f, e + 2) = Cardinality(Upto) + 1
  <2>1. e + 2 \in LineStarts(f)
    <3>1. e + 2 \in 1 .. Len(f) + 1 /\ e + 2 - 1 = e + 1
      BY <1>1, <1>5
    <3> QED
      BY <3>1, <1>5 DEF LineStarts, IsLine
  <2>2. {q \in LineStarts(f) : q <= e + 2} = Upto \cup {e + 2}
    <3>1. ASSUME NEW q \in LineStarts(f) PROVE q <= e + 2 <=> q \in Upto \/ q = e + 2
      <4>1. q \in Nat /\ (q <= c \/ q >= e + 2)
        BY <1>3
      <4>2. q <= e + 2 <=> q <= c \/ q = e + 2
        BY <4>1, <1>1
      <4> QED
        BY <4>2
    <3>2. Upto \subseteq LineStarts(f)
      OBVIOUS
    <3> HIDE DEF Upto
    <3> QED
      BY <2>1, <3>1, <3>2
  <2>3. e + 2 \notin Upto
    BY <1>1
  <2> HIDE DEF Upto
  <2>4. Cardinality(Upto \cup {e + 2}) = Cardinality(Upto) + 1
    BY <2>3, <1>4, FS_AddElement
  <2> QED
    BY <2>1, <2>2, <2>4 DEF LineNumber
<1> QED
  BY <1>3, <1>4, <1>5 DEF LineNumber

-----------------------------------------------------------------------------
(* The records of the lines.                                                *)

\* What the parser returns.
Returned == {RecordAt(text) : text \in FileText}

\* The lines before place c that mean something.
ReadLines(f, c) == {q \in LineStarts(f) : q < c /\ Meaningful(Line(f, q))}

\* These records are those of all lines before place c, in order, and none is malformed.
Lists(recs, f, c) ==
  /\ FineBefore(f, c)
  /\ recs \in Seq(Returned) /\ Len(recs) = Cardinality(ReadLines(f, c))
  /\ \A q \in ReadLines(f, c) :
       recs[Cardinality({g \in ReadLines(f, c) : g <= q})] = RecordAt(Body(Line(f, q)))

\* Only the line that starts at c lies between the places c and d.
IsNext(f, c, d) == c \in LineStarts(f) /\ d \in Int /\ c < d
                   /\ \A q \in LineStarts(f) : q <= c \/ q >= d

\* Finitely many lines.
LEMMA ReadLinesFinite ==
  ASSUME NEW f \in FileText, NEW S, S \subseteq LineStarts(f)
  PROVE  IsFiniteSet(S) /\ Cardinality(S) \in Nat /\ S \subseteq Nat
<1>1. IsFiniteSet(S)
  BY LinesFinite, FS_Subset
<1>2. S \subseteq Nat
  BY DEF LineStarts, FileText
<1> QED
  BY <1>1, <1>2, FS_CardinalityType

\* A line that means nothing is passed.
LEMMA NothingRead ==
  ASSUME NEW f \in FileText, NEW c, NEW d, IsNext(f, c, d), NEW recs, Lists(recs, f, c),
         ~Meaningful(Line(f, c))
  PROVE  Lists(recs, f, d)
<1>1. c \in Nat /\ d \in Int /\ c < d /\ LineStarts(f) \subseteq Nat /\ c \in LineStarts(f)
      /\ \A q \in LineStarts(f) : q <= c \/ q >= d
  BY ReadLinesFinite DEF IsNext, LineStarts, FileText
<1>2. \A q \in LineStarts(f) : q < d <=> q < c \/ q = c
  BY <1>1
<1>3. ReadLines(f, d) = ReadLines(f, c)
  BY <1>2 DEF ReadLines
<1>4. FineBefore(f, d)
  BY <1>2 DEF Lists, FineBefore, Malformed
<1> QED
  BY <1>3, <1>4 DEF Lists

\* A well-formed line is passed and its record returned.
LEMMA RecordRead ==
  ASSUME NEW f \in FileText, NEW c, NEW d, IsNext(f, c, d), NEW recs, Lists(recs, f, c),
         Meaningful(Line(f, c)), WellFormed(Body(Line(f, c))), Body(Line(f, c)) \in FileText
  PROVE  Lists(Append(recs, RecordAt(Body(Line(f, c)))), f, d)
<1> DEFINE r == RecordAt(Body(Line(f, c)))  L == ReadLines(f, c)  M == ReadLines(f, d)
           new == Append(recs, r)
<1>1. c \in Nat /\ d \in Int /\ c < d /\ LineStarts(f) \subseteq Nat /\ c \in LineStarts(f)
      /\ \A q \in LineStarts(f) : q <= c \/ q >= d
  BY ReadLinesFinite DEF IsNext, LineStarts, FileText
<1>2. \A q \in LineStarts(f) : q < d <=> q < c \/ q = c
  BY <1>1
<1>3. M = L \cup {c} /\ c \notin L /\ \A q \in L : q \in Nat /\ q < c
  BY <1>1, <1>2 DEF ReadLines
<1>4. FineBefore(f, d)
  BY <1>2 DEF Lists, FineBefore, Malformed
<1>5. L \subseteq LineStarts(f)
  BY DEF ReadLines
<1>6. r \in Returned /\ recs \in Seq(Returned) /\ Len(recs) = Cardinality(L)
  BY DEF Returned, Lists
<1>7. \A q \in L : recs[Cardinality({g \in L : g <= q})] = RecordAt(Body(Line(f, q)))
  BY DEF Lists
<1> HIDE DEF L, M, r
<1>8. IsFiniteSet(L) /\ Cardinality(L) \in Nat
  BY <1>5, ReadLinesFinite
<1>9. Cardinality(M) = Cardinality(L) + 1
  BY <1>3, <1>8, FS_AddElement
<1>10. new \in Seq(Returned) /\ Len(new) = Cardinality(M)
  BY <1>6, <1>9
<1>11. ASSUME NEW q \in M
       PROVE  new[Cardinality({g \in M : g <= q})] = RecordAt(Body(Line(f, q)))
  <2>1. CASE q = c
    <3>1. {g \in M : g <= q} = M
      BY <2>1, <1>1, <1>3
    <3>2. new[Len(recs) + 1] = r
      BY <1>6
    <3> QED
      BY <2>1, <3>1, <3>2, <1>6, <1>9 DEF r
  <2>2. CASE q \in L
    <3> DEFINE G == {g \in L : g <= q}
    <3>1. {g \in M : g <= q} = G
      BY <2>2, <1>1, <1>3
    <3>2. G \subseteq L /\ q \in G
      BY <2>2, <1>3
    <3> HIDE DEF G
    <3>3. IsFiniteSet(G) /\ Cardinality(G) <= Cardinality(L) /\ Cardinality(G) \in Nat
      BY <3>2, <1>8, FS_Subset, FS_CardinalityType
    <3>4. Cardinality(G) # 0
      BY <3>2, <3>3, FS_EmptySet
    <3>5. Cardinality(G) \in 1 .. Len(recs)
      BY <3>3, <3>4, <1>6, <1>8
    <3>6. new[Cardinality(G)] = recs[Cardinality(G)]
      BY <3>5, <1>6
    <3> QED
      BY <2>2, <3>1, <3>6, <1>7 DEF G
  <2> QED
    BY <2>1, <2>2, <1>3
<1> QED
  BY <1>4, <1>10, <1>11 DEF Lists, M, r

\* Before the first line nothing has been read.
LEMMA NothingReadYet ==
  ASSUME NEW f \in FileText
  PROVE  Lists(<<>>, f, 1) /\ 1 \in LineStarts(f) /\ LineNumber(f, 1) = 1
<1>1. \A q \in LineStarts(f) : q \in Nat /\ q >= 1
  BY DEF LineStarts, FileText
<1>2. ReadLines(f, 1) = {} /\ FineBefore(f, 1)
  BY <1>1 DEF ReadLines, FineBefore
<1>3. 1 \in LineStarts(f)
  BY DEF LineStarts, FileText
<1>4. {q \in LineStarts(f) : q <= 1} = {1}
  BY <1>1, <1>3
<1>5. Cardinality({}) = 0 /\ Cardinality({1}) = 1
  <2>1. Cardinality({} \cup {1}) = 1
    BY FS_EmptySet, FS_AddElement
  <2>2. {} \cup {1} = {1}
    OBVIOUS
  <2> QED
    BY <2>1, <2>2, FS_EmptySet
<1>6. Lists(<<>>, f, 1)
  <2>1. <<>> \in Seq(Returned) /\ Len(<<>>) = 0
    OBVIOUS
  <2> HIDE DEF Returned
  <2> QED
    BY <2>1, <1>2, <1>5, Zenon DEF Lists
<1>7. LineNumber(f, 1) = 1
  BY <1>4, <1>5, Zenon DEF LineNumber
<1> QED
  BY <1>3, <1>6, <1>7

\* What is listed are the first of the records of the file.
LEMMA ListsTheFirst ==
  ASSUME NEW f \in FileText, NEW c \in Int, NEW recs, Lists(recs, f, c)
  PROVE  /\ Len(recs) <= Cardinality(RecordLines(f))
         /\ \A p \in RecordLines(f) :
              RecordNumber(f, p) <= Len(recs)
              => recs[RecordNumber(f, p)] = RecordAt(Body(Line(f, p)))
         /\ (\A p \in RecordLines(f) : p < c) => Len(recs) = Cardinality(RecordLines(f))
<1> DEFINE L == ReadLines(f, c)  R == RecordLines(f)
<1>1. L \subseteq LineStarts(f) /\ R \subseteq LineStarts(f)
  BY DEF ReadLines, RecordLines
<1>2. IsFiniteSet(L) /\ IsFiniteSet(R) /\ L \subseteq Nat /\ R \subseteq Nat
      /\ Cardinality(L) \in Nat /\ Cardinality(R) \in Nat
  BY <1>1, ReadLinesFinite
<1>3. LineStarts(f) \subseteq Nat
  BY ReadLinesFinite
<1>4. L = {q \in R : q < c}
  <2>1. ASSUME NEW q \in L PROVE q \in R
    <3>1. q \in LineStarts(f) /\ q < c /\ Meaningful(Line(f, q)) /\ FineBefore(f, c)
      BY DEF ReadLines, Lists
    <3>2. FineBefore(f, q + 1)
      BY <3>1, <1>3 DEF FineBefore
    <3> QED
      BY <3>1, <3>2 DEF RecordLines
  <2>2. ASSUME NEW q \in R, q < c PROVE q \in L
    BY <2>2 DEF RecordLines, ReadLines
  <2>3. \A q \in L : q < c
    BY DEF ReadLines
  <2> HIDE DEF L, R
  <2> QED
    BY <2>1, <2>2, <2>3
<1>5. Len(recs) = Cardinality(L)
      /\ \A q \in L : recs[Cardinality({g \in L : g <= q})] = RecordAt(Body(Line(f, q)))
  BY DEF Lists
<1> HIDE DEF L, R
<1>6. Cardinality(L) <= Cardinality(R)
  BY <1>2, <1>4, FS_Subset
<1>7. ASSUME NEW p \in R, RecordNumber(f, p) <= Len(recs)
      PROVE  recs[RecordNumber(f, p)] = RecordAt(Body(Line(f, p)))
  <2> DEFINE G == {q \in R : q <= p}
  <2>1. RecordNumber(f, p) = Cardinality(G) /\ p \in Nat
    BY <1>2 DEF RecordNumber, R
  <2>2. IsFiniteSet(G) /\ Cardinality(G) \in Nat
    BY <1>2, FS_Subset, FS_CardinalityType
  <2>3. p < c
    <3> SUFFICES ASSUME ~(p < c) PROVE FALSE
      OBVIOUS
    <3>1. L \cup {p} \subseteq G /\ p \notin L
      BY <2>1, <1>2, <1>4
    <3> HIDE DEF G
    <3>2. Cardinality(L \cup {p}) = Cardinality(L) + 1 /\ Cardinality(L \cup {p}) <= Cardinality(G)
      BY <3>1, <1>2, <2>2, FS_AddElement, FS_Subset
    <3> QED
      BY <3>2, <2>1, <2>2, <1>2, <1>5, <1>7
  <2>4. p \in L /\ G = {g \in L : g <= p}
    <3>1. \A g \in R : g <= p => g < c
      BY <2>1, <2>3, <1>2
    <3> QED
      BY <3>1, <2>3, <1>4
  <2> HIDE DEF G
  <2> QED
    BY <2>1, <2>4, <1>5
<1>8. ASSUME \A p \in R : p < c PROVE Len(recs) = Cardinality(R)
  <2>1. L = R
    BY <1>4, <1>8
  <2> QED
    BY <2>1, <1>5
<1> QED
  BY <1>5, <1>6, <1>7, <1>8 DEF R

-----------------------------------------------------------------------------
(* Where the parser is.                                                     *)

\* At place p only blanks of the present line have been read, and all lines before it.
InLine(f, p, n, recs) ==
  /\ p \in 0 .. Len(f)
  /\ \E c \in LineStarts(f) :
       c <= p + 1 /\ Blank(f, c, p) /\ n = LineNumber(f, c) /\ Lists(recs, f, c)

\* At place p the present line is a comment, of which at least the # is to follow or has
\* been read.
InComment(f, p, n, recs) ==
  /\ p \in 0 .. Len(f)
  /\ \E c \in LineStarts(f) : \E h \in c .. p + 1 :
       /\ h <= Len(f) /\ Blank(f, c, h - 1) /\ f[h] = "#" /\ \A i \in h .. p : f[i] # "nl"
       /\ n = LineNumber(f, c) /\ Lists(recs, f, c)

\* All lines have been read.
AllRead(f, recs) == Lists(recs, f, Len(f) + 2)

\* The line that starts at c is the next one before whatever follows its end.
LEMMA IsNextLine ==
  ASSUME NEW f \in FileText, NEW c \in LineStarts(f), NEW e, IsLine(f, c, e)
  PROVE  IsNext(f, c, e + 2)
<1>1. \A q \in LineStarts(f) : q <= c \/ q >= e + 2
  BY NextLine
<1>2. c \in Int /\ e \in Int /\ c - 1 <= e
  BY DEF IsLine, LineStarts, FileText
<1> QED
  BY <1>1, <1>2 DEF IsNext

\* A line that means nothing has been read to its end.
LEMMA LinePassed ==
  ASSUME NEW f \in FileText, NEW c \in LineStarts(f), NEW e, IsLine(f, c, e),
         NEW recs, Lists(recs, f, c), ~Meaningful(Line(f, c))
  PROVE  /\ e < Len(f) => InLine(f, e + 1, LineNumber(f, c) + 1, recs)
         /\ e = Len(f) => AllRead(f, recs)
<1>1. Lists(recs, f, e + 2)
  BY IsNextLine, NothingRead
<1>2. e \in Int /\ Len(f) \in Nat /\ e + 1 >= 0
  BY DEF IsLine, LineStarts, FileText
<1>3. ASSUME e < Len(f) PROVE InLine(f, e + 1, LineNumber(f, c) + 1, recs)
  <2>1. e + 2 \in LineStarts(f) /\ LineNumber(f, e + 2) = LineNumber(f, c) + 1
    BY <1>3, NextLine
  <2>2. Blank(f, e + 2, e + 1)
    BY <1>2 DEF Blank
  <2>3. e + 1 \in 0 .. Len(f) /\ e + 2 <= e + 1 + 1
    BY <1>2, <1>3
  <2> QED
    BY <1>1, <2>1, <2>2, <2>3 DEF InLine
<1> QED
  BY <1>1, <1>3 DEF AllRead

\* And so has a line that holds a record.
LEMMA LineReturned ==
  ASSUME NEW f \in FileText, NEW c \in LineStarts(f), NEW e, IsLine(f, c, e),
         NEW recs, Lists(recs, f, c), Meaningful(Line(f, c)),
         WellFormed(Body(Line(f, c))), Body(Line(f, c)) \in FileText,
         NEW r, r = RecordAt(Body(Line(f, c)))
  PROVE  /\ e < Len(f) => InLine(f, e + 1, LineNumber(f, c) + 1, Append(recs, r))
         /\ e = Len(f) => AllRead(f, Append(recs, r))
<1>1. Lists(Append(recs, r), f, e + 2)
  BY IsNextLine, RecordRead
<1>2. e \in Int /\ Len(f) \in Nat /\ e + 1 >= 0
  BY DEF IsLine, LineStarts, FileText
<1>3. ASSUME e < Len(f) PROVE InLine(f, e + 1, LineNumber(f, c) + 1, Append(recs, r))
  <2>1. e + 2 \in LineStarts(f) /\ LineNumber(f, e + 2) = LineNumber(f, c) + 1
    BY <1>3, NextLine
  <2>2. Blank(f, e + 2, e + 1)
    BY <1>2 DEF Blank
  <2>3. e + 1 \in 0 .. Len(f) /\ e + 2 <= e + 1 + 1
    BY <1>2, <1>3
  <2> QED
    BY <1>1, <2>1, <2>2, <2>3 DEF InLine
<1> QED
  BY <1>1, <1>3 DEF AllRead

\* A comment means nothing.
LEMMA CommentLine ==
  ASSUME NEW f \in FileText, NEW c \in LineStarts(f), NEW e, IsLine(f, c, e),
         NEW h \in c .. e, Blank(f, c, h - 1), f[h] = "#"
  PROVE  ~Meaningful(Line(f, c))
<1>1. f[h] \notin Leading
  BY DEF Leading
<1>2. Body(Line(f, c)) \in FileText /\ Len(Body(Line(f, c))) = e - h + 1
      /\ \A i \in 1 .. e - h + 1 : Body(Line(f, c))[i] = f[h - 1 + i]
  BY <1>1, TextOfLine
<1>3. 1 \in 1 .. e - h + 1 /\ h - 1 + 1 = h
  BY DEF IsLine, LineStarts, FileText
<1>4. Body(Line(f, c))[1] = "#"
  BY <1>2, <1>3
<1> QED
  BY <1>4 DEF Meaningful

\* The ends of lines among the n bytes after place p.
Ends(f, p, n) == {i \in 1 .. n : f[p + i] = "nl"}

\* The parser goes on through blanks and empty lines.
LEMMA BlanksPassed ==
  ASSUME NEW f \in FileText, NEW p, NEW n, NEW recs, InLine(f, p, n, recs),
         NEW k \in Nat, p + k <= Len(f), \A i \in 1 .. k : f[p + i] \in Leading
  PROVE  InLine(f, p + k, n + Cardinality(Ends(f, p, k)), recs)
<1>1. p \in Nat /\ Len(f) \in Nat
  BY DEF InLine, FileText
<1>2. n \in Nat
  BY NextLine, LineExists DEF InLine
<1> DEFINE Good == {j \in Nat : j <= k => InLine(f, p + j, n + Cardinality(Ends(f, p, j)), recs)}
<1>3. \A j \in Nat : IsFiniteSet(Ends(f, p, j)) /\ Cardinality(Ends(f, p, j)) \in Nat
  <2> TAKE j \in Nat
  <2>1. IsFiniteSet(1 .. j)
    BY FS_Interval
  <2>2. Ends(f, p, j) \subseteq 1 .. j
    BY DEF Ends
  <2>3. IsFiniteSet(Ends(f, p, j))
    BY <2>1, <2>2, FS_Subset
  <2> QED
    BY <2>3, FS_CardinalityType
<1>4. 0 \in Good
  <2>1. Ends(f, p, 0) = {}
    BY DEF Ends
  <2>2. n + Cardinality(Ends(f, p, 0)) = n /\ p + 0 = p
    BY <2>1, <1>1, <1>2, FS_EmptySet
  <2> QED
    BY <2>2
<1>5. ASSUME NEW j \in Nat \ {0}, j - 1 \in Good PROVE j \in Good
  <2> SUFFICES ASSUME j <= k
               PROVE  InLine(f, p + j, n + Cardinality(Ends(f, p, j)), recs)
    BY <1>5
  <2> DEFINE h == p + j  m == n + Cardinality(Ends(f, p, j - 1))
  <2>1. j - 1 \in Nat /\ j - 1 <= k /\ p + (j - 1) = h - 1 /\ h \in 1 .. Len(f) /\ j \in 1 .. k
    BY <1>1, <1>5
  <2>2. InLine(f, h - 1, m, recs)
    BY <2>1, <1>5
  <2>3. f[h] \in Leading /\ m \in Nat
    <3>1. f[p + j] \in Leading
      BY <2>1
    <3>2. Cardinality(Ends(f, p, j - 1)) \in Nat
      BY <2>1, <1>3
    <3> QED
      BY <3>1, <3>2, <1>2
  <2>4. PICK c \in LineStarts(f) : c <= h /\ Blank(f, c, h - 1) /\ m = LineNumber(f, c)
                                  /\ Lists(recs, f, c)
    BY <2>1, <2>2, <1>1 DEF InLine
  <2>5. c \in Nat \ {0}
    BY DEF LineStarts, FileText
  <2>6. CASE f[h] # "nl"
    <3>1. Ends(f, p, j) = Ends(f, p, j - 1)
      <4>1. \A i \in 1 .. j : i \in 1 .. j - 1 \/ i = j
        BY <2>1
      <4>2. 1 .. j - 1 \subseteq 1 .. j
        BY <2>1
      <4> QED
        BY <4>1, <4>2, <2>6 DEF Ends
    <3>2. Blank(f, c, h)
      <4>1. \A i \in c .. h : i \in c .. h - 1 \/ i = h
        BY <2>1, <2>5
      <4> QED
        BY <4>1, <2>3, <2>4, <2>6 DEF Blank
    <3>3. c <= h + 1 /\ h \in 0 .. Len(f)
      BY <2>1, <2>4, <2>5
    <3> HIDE DEF h
    <3>4. InLine(f, h, m, recs)
      BY <2>4, <3>2, <3>3 DEF InLine
    <3> QED
      BY <3>1, <3>4 DEF h
  <2>7. CASE f[h] = "nl"
    <3>1. Cardinality(Ends(f, p, j)) = Cardinality(Ends(f, p, j - 1)) + 1
      <4>1. \A i \in 1 .. j : i \in 1 .. j - 1 \/ i = j
        BY <2>1
      <4>2. 1 .. j - 1 \subseteq 1 .. j /\ j \in 1 .. j /\ j \notin 1 .. j - 1
        BY <2>1
      <4>3. Ends(f, p, j) = Ends(f, p, j - 1) \cup {j} /\ j \notin Ends(f, p, j - 1)
        BY <4>1, <4>2, <2>7 DEF Ends
      <4>4. Cardinality(Ends(f, p, j - 1) \cup {j}) = Cardinality(Ends(f, p, j - 1)) + 1
        BY <4>3, <2>1, <1>3, FS_AddElement
      <4> QED
        BY <4>3, <4>4
    <3>2. IsLine(f, c, h - 1)
      <4>1. h - 1 \in c - 1 .. Len(f) /\ h - 1 + 1 = h
        BY <2>1, <2>4, <2>5
      <4>2. \A i \in c .. h - 1 : f[i] # "nl"
        BY <2>4 DEF Blank
      <4> QED
        BY <4>1, <4>2, <2>7 DEF IsLine
    <3>3. ~Meaningful(Line(f, c))
      BY <3>2, <2>4, BlankLine
    <3>4. h - 1 < Len(f) /\ h - 1 + 1 = h
      BY <2>1
    <3> HIDE DEF h
    <3>5. InLine(f, h - 1 + 1, LineNumber(f, c) + 1, recs)
      BY <3>2, <3>3, <3>4, <2>4, LinePassed
    <3>6. n + Cardinality(Ends(f, p, j)) = m + 1
      BY <3>1, <2>1, <1>2, <1>3
    <3> QED
      BY <3>4, <3>5, <3>6, <2>4 DEF h
  <2> QED
    BY <2>6, <2>7
<1> HIDE DEF Good
<1>6. \A j \in Nat : j \in Good
  BY <1>4, <1>5, InductionOnNat
<1>7. k \in Good /\ k <= k
  BY <1>6
<1> QED
  BY <1>7 DEF Good

\* At the end of the file all is read.
LEMMA EndIsReached ==
  ASSUME NEW f \in FileText, NEW n, NEW recs, InLine(f, Len(f), n, recs)
  PROVE  AllRead(f, recs)
<1>1. PICK c \in LineStarts(f) : c <= Len(f) + 1 /\ Blank(f, c, Len(f)) /\ Lists(recs, f, c)
  BY DEF InLine
<1>2. IsLine(f, c, Len(f))
  <2>1. Len(f) \in c - 1 .. Len(f)
    BY <1>1 DEF LineStarts, FileText
  <2> QED
    BY <2>1, <1>1 DEF IsLine, Blank
<1> QED
  BY <1>1, <1>2, BlankLine, LinePassed

-----------------------------------------------------------------------------
(* What is buffered.                                                        *)

\* The bytes w are those of the file after place p.
AtPlace(f, p, w) ==
  /\ w \in FileText /\ p \in Nat /\ p + Len(w) <= Len(f)
  /\ \A i \in 1 .. Len(w) : w[i] = f[p + i]

\* There are no more than these, or enough for one turn of next().
Enough(f, p, w) == Len(w) >= MaxRecordBytes \/ p + Len(w) = Len(f)

\* Some of them are parsed.
LEMMA PlaceMoves ==
  ASSUME NEW f \in FileText, NEW p, NEW w, AtPlace(f, p, w), NEW n \in 0 .. Len(w)
  PROVE  AtPlace(f, p + n, Drop(w, n)) /\ Len(Drop(w, n)) = Len(w) - n
<1>1. w \in Seq(Bytes) /\ Len(w) \in Nat /\ p \in Nat /\ Len(f) \in Nat
      /\ p + Len(w) <= Len(f) /\ n \in Nat /\ n <= Len(w)
  BY DEF AtPlace, FileText
<1>2. /\ Drop(w, n) \in Seq(Bytes) /\ Len(Drop(w, n)) = Len(w) - n
      /\ \A i \in 1 .. Len(w) - n : Drop(w, n)[i] = w[n + i]
  BY <1>1, DropType
<1>3. ASSUME NEW i \in 1 .. Len(w) - n PROVE Drop(w, n)[i] = f[p + n + i]
  <2>1. n + i \in 1 .. Len(w) /\ p + (n + i) = p + n + i
    BY <1>1
  <2>2. w[n + i] = f[p + (n + i)]
    BY <2>1 DEF AtPlace
  <2> QED
    BY <2>1, <2>2, <1>2
<1> HIDE DEF Drop
<1>4. p + n \in Nat /\ p + n + (Len(w) - n) <= Len(f)
  BY <1>1
<1> QED
  BY <1>2, <1>3, <1>4 DEF AtPlace, FileText

\* All of them are: what is asked for beyond the last is nothing.
LEMMA DropAll ==
  ASSUME NEW s \in FileText
  PROVE  Drop(s, Len(s) + 1) = <<>> /\ Drop(s, Len(s)) = <<>>
BY DEF Drop, FileText

\* Sequences of the same length with the same members are the same.
LEMMA SameBytes ==
  ASSUME NEW S, NEW s \in Seq(S), NEW t \in Seq(S), Len(s) = Len(t),
         \A i \in 1 .. Len(s) : s[i] = t[i]
  PROVE  s = t
OBVIOUS

\* Leaving out some and then some more.
LEMMA DropTwice ==
  ASSUME NEW s \in FileText, NEW k \in 0 .. Len(s), NEW b, b = Drop(s, k), NEW n \in 0 .. Len(b)
  PROVE  Drop(b, n) = Drop(s, k + n)
<1>1. s \in Seq(Bytes) /\ Len(s) \in Nat /\ k \in Nat
  BY DEF FileText
<1>2. b \in Seq(Bytes) /\ Len(b) = Len(s) - k /\ \A i \in 1 .. Len(s) - k : b[i] = s[k + i]
  BY <1>1, DropType
<1>3. PICK j : j = k + n
  OBVIOUS
<1>4. j \in 0 .. Len(s) /\ n \in 0 .. Len(b) /\ Len(b) - n = Len(s) - j
  BY <1>1, <1>2, <1>3
<1>5. /\ Drop(b, n) \in Seq(Bytes) /\ Len(Drop(b, n)) = Len(b) - n
      /\ \A i \in 1 .. Len(b) - n : Drop(b, n)[i] = b[n + i]
  BY <1>2, <1>4, DropType
<1>6. /\ Drop(s, j) \in Seq(Bytes) /\ Len(Drop(s, j)) = Len(s) - j
      /\ \A i \in 1 .. Len(s) - j : Drop(s, j)[i] = s[j + i]
  BY <1>1, <1>4, DropType
<1> HIDE DEF Drop
<1>7. ASSUME NEW i \in 1 .. Len(s) - j PROVE Drop(b, n)[i] = Drop(s, j)[i]
  <2>1. i \in 1 .. Len(b) - n /\ n + i \in 1 .. Len(s) - k /\ k + (n + i) = j + i
    BY <1>1, <1>2, <1>3, <1>4
  <2> QED
    BY <2>1, <1>2, <1>5, <1>6
<1>8. Drop(b, n) = Drop(s, j)
  BY <1>4, <1>5, <1>6, <1>7, SameBytes
<1> QED
  BY <1>3, <1>8

\* The lines counted in the blanks are the ends of lines among them.
LEMMA SkippedAre ==
  ASSUME NEW f \in FileText, NEW p, NEW w, AtPlace(f, p, w), NEW k, IsSpan(w, Leading, k)
  PROVE  Skipped(w) = Cardinality(Ends(f, p, k))
<1>1. w \in Seq(Bytes) /\ Len(w) \in Nat /\ p \in Nat /\ k \in 0 .. Len(w)
  BY DEF AtPlace, FileText, IsSpan
<1>2. k = Span(w, Leading)
  BY <1>1, SpanIs
<1> DEFINE s == SubSeq(w, 1, k)
<1>3. s \in Seq(Bytes) /\ Len(s) = k /\ \A i \in 1 .. k : s[i] = w[i]
  BY <1>1, BeginningType
<1> HIDE DEF s
<1>4. DOMAIN s = 1 .. k
  BY <1>3
<1>5. ASSUME NEW i \in 1 .. k PROVE s[i] = f[p + i]
  <2>1. i \in 1 .. Len(w)
    BY <1>1
  <2>2. w[i] = f[p + i]
    BY <2>1 DEF AtPlace
  <2> QED
    BY <2>2, <1>3
<1>6. {i \in DOMAIN s : s[i] = "nl"} = Ends(f, p, k)
  BY <1>4, <1>5 DEF Ends
<1> QED
  BY <1>2, <1>6 DEF Skipped, Newlines, s

\* Where the blanks end: still in a line, or at its end.
LEMMA AfterBlanks ==
  ASSUME NEW f \in FileText, NEW p, NEW w, AtPlace(f, p, w), NEW k, IsSpan(w, Leading, k),
         NEW n, NEW recs, InLine(f, p, n, recs)
  PROVE  InLine(f, p + k, n + Skipped(w), recs)
<1>1. w \in Seq(Bytes) /\ Len(w) \in Nat /\ p \in Nat /\ k \in 0 .. Len(w)
      /\ p + Len(w) <= Len(f) /\ Len(f) \in Nat
  BY DEF AtPlace, FileText, IsSpan
<1>2. k \in Nat /\ p + k <= Len(f)
  BY <1>1
<1>3. ASSUME NEW i \in 1 .. k PROVE f[p + i] \in Leading
  <2>1. i \in 1 .. Len(w)
    BY <1>1
  <2>2. w[i] = f[p + i]
    BY <2>1 DEF AtPlace
  <2> QED
    BY <2>2 DEF IsSpan
<1>4. InLine(f, p + k, n + Cardinality(Ends(f, p, k)), recs)
  BY <1>2, <1>3, BlanksPassed
<1> QED
  BY <1>4, SkippedAre

-----------------------------------------------------------------------------
(* One turn of skip_comment().                                              *)

\* The end of the line is buffered.
LEMMA CommentEnds ==
  ASSUME NEW f \in FileText, NEW p, NEW w, AtPlace(f, p, w),
         NEW m, IsSpan(w, Bytes \ {"nl"}, m), m < Len(w),
         NEW n, NEW recs, InComment(f, p, n, recs)
  PROVE  InLine(f, p + m + 1, n + 1, recs)
<1>1. w \in Seq(Bytes) /\ Len(w) \in Nat /\ p \in Nat /\ m \in 0 .. Len(w)
      /\ p + Len(w) <= Len(f) /\ Len(f) \in Nat
  BY DEF AtPlace, FileText, IsSpan
<1>2. PICK c \in LineStarts(f), h \in Int : h \in c .. p + 1 /\
        /\ h <= Len(f) /\ Blank(f, c, h - 1) /\ f[h] = "#" /\ \A i \in h .. p : f[i] # "nl"
        /\ n = LineNumber(f, c) /\ Lists(recs, f, c)
  BY DEF InComment
<1>3. c \in Nat \ {0}
  BY DEF LineStarts, FileText
<1>4. f[p + m + 1] = "nl"
  <2>1. m + 1 \in 1 .. Len(w) /\ p + (m + 1) = p + m + 1
    BY <1>1
  <2>2. w[m + 1] \in Bytes /\ w[m + 1] \notin Bytes \ {"nl"}
    BY <1>1, <2>1 DEF IsSpan
  <2>3. w[m + 1] = f[p + (m + 1)]
    BY <2>1 DEF AtPlace
  <2> QED
    BY <2>1, <2>2, <2>3
<1>5. ASSUME NEW i \in p + 1 .. p + m PROVE f[i] # "nl"
  <2>1. i - p \in 1 .. m /\ i - p \in 1 .. Len(w) /\ p + (i - p) = i
    BY <1>1
  <2>2. w[i - p] = f[p + (i - p)]
    BY <2>1 DEF AtPlace
  <2>3. w[i - p] # "nl"
    BY <2>1 DEF IsSpan
  <2> QED
    BY <2>1, <2>2, <2>3
<1> DEFINE e == p + m
<1>6. IsLine(f, c, e)
  <2>1. e \in c - 1 .. Len(f) /\ e < Len(f)
    BY <1>1, <1>2, <1>3
  <2>2. ASSUME NEW i \in c .. e PROVE f[i] # "nl"
    <3>1. i \in c .. h - 1 \/ i \in h .. p \/ i \in p + 1 .. p + m
      BY <1>1, <1>2, <1>3
    <3> QED
      BY <3>1, <1>2, <1>5 DEF Blank
  <2> QED
    BY <2>1, <2>2, <1>4 DEF IsLine
<1>7. h \in c .. e
  <2>1. CASE h <= p
    BY <2>1, <1>1, <1>2, <1>3
  <2>2. CASE h = p + 1
    <3>1. m # 0
      BY <2>2, <1>1, <1>2, <1>4
    <3> QED
      BY <3>1, <2>2, <1>1, <1>2, <1>3
  <2> QED
    BY <2>1, <2>2, <1>1, <1>2, <1>3
<1>8. e < Len(f)
  BY <1>1
<1> HIDE DEF e
<1>9. ~Meaningful(Line(f, c))
  BY <1>2, <1>6, <1>7, CommentLine
<1>10. InLine(f, e + 1, LineNumber(f, c) + 1, recs)
  BY <1>2, <1>6, <1>8, <1>9, LinePassed
<1> QED
  BY <1>2, <1>10 DEF e

\* It is not: the comment goes on.
LEMMA CommentGoesOn ==
  ASSUME NEW f \in FileText, NEW p, NEW w, AtPlace(f, p, w),
         IsSpan(w, Bytes \ {"nl"}, Len(w)),
         NEW n, NEW recs, InComment(f, p, n, recs)
  PROVE  InComment(f, p + Len(w), n, recs)
<1>1. w \in Seq(Bytes) /\ Len(w) \in Nat /\ p \in Nat
      /\ p + Len(w) <= Len(f) /\ Len(f) \in Nat
  BY DEF AtPlace, FileText
<1>2. PICK c \in LineStarts(f), h \in Int : h \in c .. p + 1 /\
        /\ h <= Len(f) /\ Blank(f, c, h - 1) /\ f[h] = "#" /\ \A i \in h .. p : f[i] # "nl"
        /\ n = LineNumber(f, c) /\ Lists(recs, f, c)
  BY DEF InComment
<1>3. c \in Nat \ {0}
  BY DEF LineStarts, FileText
<1>4. ASSUME NEW i \in p + 1 .. p + Len(w) PROVE f[i] # "nl"
  <2>1. i - p \in 1 .. Len(w) /\ p + (i - p) = i
    BY <1>1
  <2>2. w[i - p] = f[p + (i - p)]
    BY <2>1 DEF AtPlace
  <2>3. w[i - p] # "nl"
    BY <2>1 DEF IsSpan
  <2> QED
    BY <2>1, <2>2, <2>3
<1>5. ASSUME NEW i \in h .. p + Len(w) PROVE f[i] # "nl"
  <2>1. i \in h .. p \/ i \in p + 1 .. p + Len(w)
    BY <1>1, <1>2, <1>3
  <2> QED
    BY <2>1, <1>2, <1>4
<1>6. h \in c .. p + Len(w) + 1 /\ p + Len(w) \in 0 .. Len(f)
  BY <1>1, <1>2, <1>3
<1> QED
  BY <1>2, <1>5, <1>6 DEF InComment

\* The file ends in the comment.
LEMMA CommentAtEnd ==
  ASSUME NEW f \in FileText, NEW n, NEW recs, InComment(f, Len(f), n, recs)
  PROVE  AllRead(f, recs)
<1>1. PICK c \in LineStarts(f), h \in Int : h \in c .. Len(f) + 1 /\
        /\ h <= Len(f) /\ Blank(f, c, h - 1) /\ f[h] = "#" /\ \A i \in h .. Len(f) : f[i] # "nl"
        /\ n = LineNumber(f, c) /\ Lists(recs, f, c)
  BY DEF InComment
<1>2. c \in Nat \ {0} /\ Len(f) \in Nat
  BY DEF LineStarts, FileText
<1>3. IsLine(f, c, Len(f)) /\ h \in c .. Len(f)
  <2>1. Len(f) \in c - 1 .. Len(f) /\ h \in c .. Len(f)
    BY <1>1, <1>2
  <2>2. ASSUME NEW i \in c .. Len(f) PROVE f[i] # "nl"
    <3>1. i \in c .. h - 1 \/ i \in h .. Len(f)
      BY <1>1, <1>2
    <3> QED
      BY <3>1, <1>1 DEF Blank
  <2> QED
    BY <2>1, <2>2 DEF IsLine
<1>4. ~Meaningful(Line(f, c))
  BY <1>1, <1>3, CommentLine
<1> QED
  BY <1>1, <1>3, <1>4, LinePassed

-----------------------------------------------------------------------------
(* One turn of next() that finds a record.                                  *)

\* A line that means something is all there, with its end.
LEMMA LineIsBuffered ==
  ASSUME NEW f \in FileText, FitsLookAhead(f),
         NEW p, NEW w, AtPlace(f, p, w), Enough(f, p, w),
         NEW k, IsSpan(w, Leading, k), k < Len(w), w[k + 1] # "#",
         NEW n, NEW recs, InLine(f, p, n, recs),
         NEW c \in LineStarts(f), NEW e, IsLine(f, c, e), p + k + 1 \in c .. e
  PROVE  e <= p + Len(w) /\ (e = p + Len(w) => e = Len(f))
<1>1. w \in Seq(Bytes) /\ Len(w) \in Nat /\ p \in Nat /\ k \in 0 .. Len(w) /\ e \in Int
      /\ p + Len(w) <= Len(f) /\ Len(f) \in Nat /\ e <= Len(f) /\ f \in Seq(Bytes)
  BY DEF AtPlace, FileText, IsSpan, IsLine
<1>2. PICK d \in LineStarts(f) : d <= p + 1 /\ Blank(f, d, p)
  BY DEF InLine
<1>3. d \in Nat \ {0} /\ d - 1 \in 0 .. Len(f)
  BY DEF LineStarts, FileText
<1>4. p + k - d + 1 \in Nat /\ p + k - d + 1 < Len(f) - (d - 1) /\ e - p - k \in Nat
  BY <1>1, <1>2, <1>3
<1>5. PICK blanks \in Nat : blanks = p + k - d + 1
  BY <1>4
<1>6. PICK m \in Nat : m = e - p - k
  BY <1>4
<1> DEFINE tail == Drop(f, d - 1)  text == Drop(tail, blanks)
<1>7. /\ tail \in Seq(Bytes) /\ Len(tail) = Len(f) - (d - 1)
      /\ \A i \in 1 .. Len(f) - (d - 1) : tail[i] = f[d - 1 + i]
  BY TailIs
<1> HIDE DEF tail
<1>8. blanks \in Nat /\ blanks < Len(tail) /\ blanks \in 0 .. Len(tail)
  BY <1>1, <1>3, <1>7, <1>4, <1>5
<1>9. /\ text \in Seq(Bytes) /\ Len(text) = Len(tail) - blanks
      /\ \A i \in 1 .. Len(tail) - blanks : text[i] = tail[blanks + i]
  <2>1. tail \in Seq(Bytes) /\ blanks \in 0 .. Len(tail)
    BY <1>7, <1>8
  <2> QED
    BY <2>1, DropType
<1> HIDE DEF text
<1>10. ASSUME NEW i \in 1 .. Len(text) PROVE text[i] = f[p + k + i] /\ text[i] \in Bytes
  <2>1. i \in 1 .. Len(tail) - blanks /\ blanks + i \in 1 .. Len(f) - (d - 1)
        /\ d - 1 + (blanks + i) = p + k + i
    BY <1>1, <1>3, <1>7, <1>8, <1>9, <1>5
  <2>2. text[i] = tail[blanks + i] /\ tail[blanks + i] = f[d - 1 + (blanks + i)]
    BY <2>1, <1>7, <1>9
  <2> QED
    BY <2>1, <2>2, <1>9
<1>11. k + 1 \in 1 .. Len(w) /\ p + (k + 1) = p + k + 1
  BY <1>1
<1>12. f[p + k + 1] = w[k + 1] /\ f[p + k + 1] \notin Leading
  <2>1. w[k + 1] = f[p + (k + 1)]
    BY <1>11 DEF AtPlace
  <2> QED
    BY <2>1, <1>11 DEF IsSpan
<1>13. Len(text) = Len(f) - p - k /\ 1 \in 1 .. Len(text)
  BY <1>1, <1>3, <1>7, <1>8, <1>9, <1>4, <1>5
<1>14. IsSpan(tail, Leading, blanks)
  <2>1. ASSUME NEW i \in 1 .. blanks PROVE tail[i] \in Leading
    <3>1. i \in 1 .. Len(f) - (d - 1)
      BY <1>7, <1>8
    <3>2. tail[i] = f[d - 1 + i]
      BY <3>1, <1>7
    <3>3. CASE d - 1 + i <= p
      <4>1. d - 1 + i \in d .. p
        BY <3>3, <1>1, <1>3
      <4> QED
        BY <4>1, <3>2, <1>2 DEF Blank
    <3>4. CASE d - 1 + i > p
      <4>1. PICK j \in 1 .. k : j = d - 1 + i - p
        BY <3>4, <1>1, <1>3, <1>5
      <4>2. j \in 1 .. Len(w) /\ p + j = d - 1 + i
        BY <4>1, <1>1, <1>3
      <4>3. w[j] = f[p + j]
        BY <4>2 DEF AtPlace
      <4>4. w[j] \in Leading
        BY <4>1 DEF IsSpan
      <4> QED
        BY <4>2, <4>3, <4>4, <3>2
    <3> QED
      BY <3>3, <3>4, <1>1, <1>3
  <2>2. tail[blanks + 1] \notin Leading
    <3>1. blanks + 1 \in 1 .. Len(f) - (d - 1) /\ d - 1 + (blanks + 1) = p + k + 1
      BY <1>1, <1>3, <1>7, <1>8, <1>5
    <3>2. tail[blanks + 1] = f[d - 1 + (blanks + 1)]
      BY <3>1, <1>7
    <3> QED
      BY <3>1, <3>2, <1>12
  <2> QED
    BY <2>1, <2>2, <1>8 DEF IsSpan
<1>15. m \in Nat /\ m <= Len(text) /\ (e < Len(f) => m + 1 \in 1 .. Len(text))
  BY <1>1, <1>13, <1>6
<1>16. IsSpan(text, Bytes \ {"nl"}, m)
  <2>1. ASSUME NEW i \in 1 .. m PROVE text[i] \in Bytes \ {"nl"}
    <3>1. i \in 1 .. Len(text) /\ p + k + i \in c .. e
      <4>1. c \in Nat /\ c <= p + k + 1
        BY DEF LineStarts, FileText
      <4> QED
        BY <4>1, <1>1, <1>13, <1>15, <1>6
    <3> QED
      BY <3>1, <1>10 DEF IsLine
  <2>2. ASSUME m < Len(text) PROVE text[m + 1] \notin Bytes \ {"nl"}
    <3>1. e < Len(f) /\ p + k + (m + 1) = e + 1
      BY <2>2, <1>1, <1>13, <1>6
    <3>2. text[m + 1] = f[p + k + (m + 1)]
      BY <3>1, <1>10, <1>15
    <3>3. f[e + 1] = "nl"
      BY <3>1 DEF IsLine
    <3> QED
      BY <3>1, <3>2, <3>3
  <2> QED
    BY <2>1, <2>2, <1>15 DEF IsSpan
<1>17. blanks + m + 1 <= MaxRecordBytes
  <2>1. blanks = Span(tail, Leading)
    BY <1>7, <1>14, SpanIs
  <2>2. m = Span(text, Bytes \ {"nl"})
    BY <1>9, <1>16, SpanIs
  <2>3. text # <<>> /\ text[1] # "#"
    BY <1>10, <1>12, <1>13
  <2>4. text = Drop(tail, Span(tail, Leading))
    BY <2>1 DEF text
  <2>5. /\ Drop(tail, Span(tail, Leading)) # <<>> /\ Drop(tail, Span(tail, Leading))[1] # "#"
        => Span(tail, Leading) + Span(Drop(tail, Span(tail, Leading)), Bytes \ {"nl"}) + 1
             <= MaxRecordBytes
    BY DEF FitsLookAhead, tail
  <2> QED
    BY <2>1, <2>2, <2>3, <2>4, <2>5
<1> QED
  BY <1>1, <1>2, <1>3, <1>17, <1>5, <1>6, ReaderAssumption DEF Enough

\* The line c .. e of the file, whose text is what is buffered after the blanks.
Holds(f, p, w, n, recs, c, e) ==
  /\ c \in LineStarts(f) /\ IsLine(f, c, e)
  /\ Lists(recs, f, c) /\ n = LineNumber(f, c)
  /\ Meaningful(Line(f, c)) /\ Body(Line(f, c)) # <<>>
  /\ BeginsWithLine(Body(w), Body(Line(f, c)))
  /\ e + Len(Body(w)) = p + Len(w) + Len(Body(Line(f, c)))
  /\ e = p + Len(w) => e = Len(f)

LEMMA HoldsALine ==
  ASSUME NEW f \in FileText, FitsLookAhead(f),
         NEW p, NEW w, AtPlace(f, p, w), Enough(f, p, w),
         Body(w) # <<>>, Body(w)[1] # "#",
         NEW n, NEW recs, InLine(f, p, n, recs)
  PROVE  \E c, e : Holds(f, p, w, n + Skipped(w), recs, c, e)
<1>1. w \in Seq(Bytes) /\ w \in FileText /\ Len(w) \in Nat /\ p \in Nat
      /\ p + Len(w) <= Len(f) /\ Len(f) \in Nat
  BY DEF AtPlace, FileText
<1>2. PICK k : k = Span(w, Leading)
  OBVIOUS
<1>3. IsSpan(w, Leading, k) /\ k \in 0 .. Len(w)
  BY <1>1, <1>2, SpanIs DEF IsSpan
<1> DEFINE b == Body(w)
<1>4. b \in FileText /\ Len(b) = Len(w) - k /\ \A i \in 1 .. Len(w) - k : b[i] = w[k + i]
  BY <1>1, <1>3, BodyIs
<1> HIDE DEF b
<1>5. k < Len(w)
  <2>1. Len(b) # 0 /\ Len(b) \in Nat
    BY <1>4 DEF b, FileText
  <2>2. Len(b) = Len(w) - k
    BY <1>4
  <2>3. Len(w) - k # 0
    BY <2>1, <2>2
  <2> QED
    BY <2>3, <1>1, <1>3
<1>6. \A i \in 1 .. Len(w) - k : b[i] = f[p + k + i]
  <2> TAKE i \in 1 .. Len(w) - k
  <2>1. k + i \in 1 .. Len(w) /\ p + (k + i) = p + k + i
    BY <1>1, <1>3
  <2>2. w[k + i] = f[p + (k + i)]
    BY <2>1 DEF AtPlace
  <2> QED
    BY <2>1, <2>2, <1>4
<1>7. 1 \in 1 .. Len(w) - k /\ w[k + 1] = b[1] /\ b[1] = f[p + k + 1]
  <2>1. 1 \in 1 .. Len(w) - k
    BY <1>1, <1>3, <1>5
  <2> QED
    BY <2>1, <1>4, <1>6
<1>8. f[p + k + 1] \notin Leading /\ f[p + k + 1] # "#"
  BY <1>3, <1>5, <1>7 DEF IsSpan, b
<1>9. InLine(f, p + k, n + Skipped(w), recs)
  BY <1>3, AfterBlanks
<1>10. PICK c \in LineStarts(f) : c <= p + k + 1 /\ Blank(f, c, p + k)
          /\ n + Skipped(w) = LineNumber(f, c) /\ Lists(recs, f, c)
  BY <1>9 DEF InLine
<1>11. PICK e : IsLine(f, c, e)
  BY LineExists
<1>12. c \in Nat \ {0} /\ e \in Int /\ e <= Len(f) /\ e >= c - 1
  BY <1>11 DEF LineStarts, FileText, IsLine
<1>13. p + k + 1 \in c .. e
  <2>1. CASE e < p + k + 1
    <3>1. e + 1 \in c .. p + k \/ e + 1 = p + k + 1
      BY <2>1, <1>1, <1>3, <1>10, <1>12
    <3>2. e < Len(f)
      BY <2>1, <1>1, <1>3, <1>5, <1>12
    <3>3. f[e + 1] = "nl"
      BY <3>2, <1>11 DEF IsLine
    <3> QED
      BY <3>1, <3>3, <1>8, <1>10 DEF Blank, Leading
  <2> QED
    BY <2>1, <1>1, <1>3, <1>10, <1>12
<1>14. e <= p + Len(w) /\ (e = p + Len(w) => e = Len(f))
  BY <1>3, <1>5, <1>7, <1>11, <1>13, LineIsBuffered DEF b
<1> DEFINE t == Body(Line(f, c))  h == p + k + 1
<1>15. t \in FileText /\ Len(t) = e - h + 1 /\ \A i \in 1 .. e - h + 1 : t[i] = f[h - 1 + i]
  <2>1. h - 1 = p + k
    BY <1>1, <1>3
  <2> QED
    BY <2>1, <1>8, <1>10, <1>11, <1>13, TextOfLine
<1> HIDE DEF t
<1>16. Len(t) = e - p - k /\ Len(t) \in Nat \ {0} /\ Len(t) <= Len(b) /\ Len(b) \in Nat
  BY <1>1, <1>3, <1>4, <1>12, <1>13, <1>14, <1>15
<1>17. ASSUME NEW i \in 1 .. Len(t) PROVE b[i] = t[i] /\ t[i] # "nl"
  <2>1. i \in 1 .. e - h + 1 /\ i \in 1 .. Len(w) - k /\ h - 1 + i = p + k + i
        /\ p + k + i \in c .. e
    BY <1>1, <1>3, <1>4, <1>12, <1>13, <1>15, <1>16
  <2>2. t[i] = f[p + k + i] /\ b[i] = f[p + k + i]
    BY <2>1, <1>6, <1>15
  <2> QED
    BY <2>1, <2>2, <1>11 DEF IsLine
<1>18. ASSUME Len(t) < Len(b) PROVE b[Len(t) + 1] = "nl"
  <2>1. Len(t) + 1 \in 1 .. Len(w) - k /\ p + k + (Len(t) + 1) = e + 1 /\ e < Len(f)
    BY <1>1, <1>3, <1>4, <1>12, <1>16, <1>18
  <2>2. b[Len(t) + 1] = f[p + k + (Len(t) + 1)]
    BY <2>1, <1>6
  <2> QED
    BY <2>1, <2>2, <1>11 DEF IsLine
<1>19. BeginsWithLine(b, t)
  BY <1>4, <1>15, <1>16, <1>17, <1>18 DEF BeginsWithLine
<1>20. t # <<>> /\ t[1] = b[1] /\ t[1] # "#"
  <2>1. 1 \in 1 .. Len(t) /\ t # <<>>
    BY <1>16
  <2> QED
    BY <2>1, <1>7, <1>8, <1>17
<1>21. e + Len(b) = p + Len(w) + Len(t)
  BY <1>1, <1>3, <1>4, <1>12, <1>16
<1>22. Meaningful(Line(f, c))
  BY <1>20 DEF Meaningful, t
<1> QED
  BY <1>10, <1>11, <1>14, <1>19, <1>20, <1>21, <1>22 DEF Holds, b, t

\* What is returned is the record of that line, and what follows it the next line or
\* the end of the file.
LEMMA RecordTaken ==
  ASSUME NEW f \in FileText, NEW p, NEW w, AtPlace(f, p, w),
         NEW n, NEW recs, NEW c, NEW e, Holds(f, p, w, n, recs, c, e),
         WellFormed(Body(w))
  PROVE  LET b == Body(w)  m == Span(b, Bytes \ {"nl"})
             more == Append(recs, RecordAt(b))
         IN  /\ m \in 0 .. Len(b)
             /\ m < Len(b) => /\ "nl" \in ToSet(b)
                              /\ InLine(f, p + Len(w) - (Len(b) - m) + 1, n + 1, more)
             /\ m = Len(b) => "nl" \notin ToSet(b) /\ AllRead(f, more) /\ p + Len(w) = Len(f)
<1> DEFINE b == Body(w)  m == Span(b, Bytes \ {"nl"})
           more == Append(recs, RecordAt(b))  t == Body(Line(f, c))
<1>1. /\ c \in LineStarts(f) /\ IsLine(f, c, e)
      /\ Lists(recs, f, c) /\ n = LineNumber(f, c)
      /\ Meaningful(Line(f, c)) /\ t # <<>>
      /\ BeginsWithLine(b, t)
      /\ e + Len(b) = p + Len(w) + Len(t)
      /\ e = p + Len(w) => e = Len(f)
  BY DEF Holds
<1>2. RecordAt(b) = RecordAt(t) /\ WellFormed(t) /\ t \in FileText /\ b \in FileText
  BY <1>1, RecordOfLine DEF BeginsWithLine
<1>3. /\ e < Len(f) => InLine(f, e + 1, n + 1, more)
      /\ e = Len(f) => AllRead(f, more)
  <2>1. RecordAt(b) = RecordAt(Body(Line(f, c)))
    BY <1>2
  <2> HIDE DEF b
  <2> QED
    BY <2>1, <1>1, <1>2, LineReturned
<1> HIDE DEF b, t
<1>4. Len(b) \in Nat /\ Len(t) \in Nat /\ Len(t) <= Len(b) /\ Len(w) \in Nat /\ p \in Nat
      /\ e \in Int /\ Len(f) \in Nat /\ e <= Len(f) /\ p + Len(w) <= Len(f)
  BY <1>1, <1>2 DEF BeginsWithLine, FileText, AtPlace, IsLine
<1>5. IsSpan(b, Bytes \ {"nl"}, Len(t))
  <2>1. \A i \in 1 .. Len(b) : b[i] \in Bytes
    BY <1>2 DEF FileText
  <2>2. ASSUME NEW i \in 1 .. Len(t) PROVE b[i] \in Bytes \ {"nl"}
    <3>1. i \in 1 .. Len(b)
      BY <1>4
    <3> QED
      BY <3>1, <2>1, <1>1 DEF BeginsWithLine
  <2>3. Len(t) < Len(b) => b[Len(t) + 1] \notin Bytes \ {"nl"}
    BY <1>1 DEF BeginsWithLine
  <2> QED
    BY <2>2, <2>3, <1>4 DEF IsSpan
<1>6. m = Len(t)
  BY <1>2, <1>5, SpanIs DEF FileText
<1> HIDE DEF m
<1>7. DOMAIN b = 1 .. Len(b)
  BY <1>2 DEF FileText
<1>8. ASSUME m < Len(b)
      PROVE  "nl" \in ToSet(b) /\ InLine(f, p + Len(w) - (Len(b) - m) + 1, n + 1, more)
  <2>1. m + 1 \in DOMAIN b /\ b[m + 1] = "nl"
    BY <1>1, <1>4, <1>6, <1>7, <1>8 DEF BeginsWithLine
  <2>2. p + Len(w) - (Len(b) - m) + 1 = e + 1 /\ e < Len(f)
    BY <1>1, <1>4, <1>6, <1>8
  <2>3. "nl" \in ToSet(b)
    BY <2>1 DEF ToSet
  <2> QED
    BY <2>2, <2>3, <1>3
<1>9. ASSUME m = Len(b)
      PROVE  "nl" \notin ToSet(b) /\ AllRead(f, more) /\ p + Len(w) = Len(f)
  <2>1. e = p + Len(w) /\ e = Len(f)
    BY <1>1, <1>4, <1>6, <1>9
  <2>2. \A i \in DOMAIN b : b[i] # "nl"
    BY <1>1, <1>6, <1>7, <1>9 DEF BeginsWithLine
  <2> QED
    BY <2>1, <2>2, <1>3 DEF ToSet
<1> QED
  BY <1>4, <1>6, <1>8, <1>9 DEF b, m

-----------------------------------------------------------------------------
(* The invariant of the parser.                                             *)

\* What has been parsed, in bytes.
Place == Len(file) - Len(window) - Len(rest)

\* What is buffered follows what is parsed, and the rest of the file follows that.
Buffered ==
  /\ file \in Files
  /\ AtPlace(file, Place, window)
  /\ rest \in FileText /\ Len(rest) <= Len(file)
  /\ AtPlace(file, Len(file) - Len(rest), rest)
  /\ exhausted \in BOOLEAN /\ (exhausted => rest = <<>>)

Rejected ==
  \E c \in LineStarts(file) : /\ Malformed(Line(file, c)) /\ line = LineNumber(file, c)
                              /\ Lists(records, file, c)

\* In every phase the records are those of the lines that have been read.
Parsing ==
  /\ phase \in {"next", "comment", "end", "failed"}
  /\ phase = "next" => \/ InLine(file, Place, line, records)
                       \/ Place = Len(file) /\ AllRead(file, records)
  /\ phase = "comment" => InComment(file, Place, line, records)
  /\ phase = "end" => AllRead(file, records)
  /\ phase = "failed" => Rejected

ReaderInv == Buffered /\ Parsing

\* Two sequences, one after the other.
LEMMA Joined ==
  \A s, t \in FileText :
    /\ s \o t \in FileText /\ Len(s \o t) = Len(s) + Len(t)
    /\ \A i \in 1 .. Len(s) : (s \o t)[i] = s[i]
    /\ \A i \in 1 .. Len(t) : (s \o t)[Len(s) + i] = t[i]
BY DEF FileText

\* The bytes b are the bytes w and then the first of the bytes r.
Joins(b, w, r, got) == b = w \o SubSeq(r, 1, got)

\* What there is after a read: the next bytes of the file, enough of them or all.
LEMMA ReadOn ==
  ASSUME NEW f, NEW p, NEW w, NEW r, NEW got \in 0 .. Len(r),
         AtPlace(f, p, w), AtPlace(f, Len(f) - Len(r), r), r \in FileText, f \in FileText,
         p = Len(f) - Len(w) - Len(r), NEW b, Joins(b, w, r, got)
  PROVE  /\ AtPlace(f, p, b)
         /\ Len(b) = Len(w) + got
         /\ AtPlace(f, Len(f) - Len(Drop(r, got)), Drop(r, got))
         /\ Len(Drop(r, got)) = Len(r) - got
         /\ Drop(r, got) \in FileText
<1>1. w \in Seq(Bytes) /\ r \in Seq(Bytes) /\ Len(w) \in Nat /\ Len(r) \in Nat /\ Len(f) \in Nat
      /\ p \in Nat /\ got \in Nat /\ got <= Len(r)
  BY DEF AtPlace, FileText
<1>2. PICK a : a = SubSeq(r, 1, got)
  OBVIOUS
<1>3. a \in Seq(Bytes) /\ Len(a) = got /\ \A i \in 1 .. got : a[i] = r[i]
  BY <1>1, <1>2, BeginningType
<1>4. b = w \o a
  BY <1>2 DEF Joins
<1>5. /\ b \in Seq(Bytes) /\ Len(b) = Len(w) + Len(a)
      /\ \A i \in 1 .. Len(w) : b[i] = w[i]
      /\ \A i \in 1 .. Len(a) : b[Len(w) + i] = a[i]
  <2>1. w \in Seq(Bytes) /\ a \in Seq(Bytes)
    BY <1>1, <1>3
  <2>2. /\ w \o a \in Seq(Bytes) /\ Len(w \o a) = Len(w) + Len(a)
        /\ \A i \in 1 .. Len(w) : (w \o a)[i] = w[i]
        /\ \A i \in 1 .. Len(a) : (w \o a)[Len(w) + i] = a[i]
    BY <2>1, Joined, Zenon DEF FileText
  <2> QED
    BY <2>2, <1>4, Zenon
<1>6. ASSUME NEW i \in 1 .. Len(b) PROVE b[i] = f[p + i]
  <2>1. CASE i <= Len(w)
    <3>1. i \in 1 .. Len(w)
      BY <2>1, <1>1
    <3> QED
      BY <3>1, <1>5 DEF AtPlace
  <2>2. CASE i > Len(w)
    <3>1. PICK j \in 1 .. got : i = Len(w) + j
      <4>1. i - Len(w) \in 1 .. got /\ i = Len(w) + (i - Len(w))
        BY <2>2, <1>1, <1>3, <1>5
      <4> QED
        BY <4>1
    <3>2. j \in 1 .. Len(r) /\ Len(f) - Len(r) + j = p + i
      BY <3>1, <1>1
    <3>3. b[i] = r[j]
      BY <3>1, <1>3, <1>5
    <3>4. r[j] = f[Len(f) - Len(r) + j]
      BY <3>2 DEF AtPlace
    <3> QED
      BY <3>2, <3>3, <3>4
  <2> QED
    BY <2>1, <2>2, <1>1, <1>5
<1>7. AtPlace(f, p, b)
  <2>1. p + Len(b) <= Len(f)
    BY <1>1, <1>3, <1>5
  <2> QED
    BY <2>1, <1>1, <1>5, <1>6 DEF AtPlace, FileText
<1>8. AtPlace(f, Len(f) - Len(r) + got, Drop(r, got)) /\ Len(Drop(r, got)) = Len(r) - got
  BY PlaceMoves
<1>9. Len(f) - Len(r) + got = Len(f) - Len(Drop(r, got))
  BY <1>1, <1>8
<1>10. Drop(r, got) \in FileText
  BY <1>8 DEF AtPlace
<1> QED
  BY <1>2, <1>3, <1>4, <1>5, <1>7, <1>8, <1>9, <1>10

\* The same of the buffer.
LEMMA RefilledIs ==
  ASSUME Buffered, NEW wanted \in Nat, NEW got \in Reads(wanted), Consume(got, wanted)
  PROVE  /\ AtPlace(file, Place, Refilled(got))
         /\ Len(Refilled(got)) >= wanted \/ Place + Len(Refilled(got)) = Len(file)
         /\ file' = file /\ rest' \in FileText /\ Len(rest') <= Len(file)
         /\ AtPlace(file, Len(file) - Len(rest'), rest')
         /\ exhausted' \in BOOLEAN /\ (exhausted' => rest' = <<>>)
         /\ Len(file) - Len(Refilled(got)) - Len(rest') = Place
<1>1. window \in FileText /\ rest \in FileText /\ file \in FileText /\ Len(window) \in Nat
      /\ Len(rest) \in Nat /\ Len(file) \in Nat /\ Place \in Nat
      /\ Place = Len(file) - Len(window) - Len(rest)
  BY FilesAssumption DEF Buffered, AtPlace, FileText, Place
<1>2. got \in 0 .. Len(rest)
  BY <1>1 DEF Reads
<1> DEFINE w == Refilled(got)
<1>3. /\ AtPlace(file, Place, w)
      /\ Len(w) = Len(window) + got
      /\ rest' = Drop(rest, got)
      /\ AtPlace(file, Len(file) - Len(rest'), rest')
      /\ Len(rest') = Len(rest) - got
      /\ rest' \in FileText
  <2>1. AtPlace(file, Place, window) /\ AtPlace(file, Len(file) - Len(rest), rest)
    BY DEF Buffered
  <2>4. PICK b : b = Refilled(got)
    OBVIOUS
  <2>5. Joins(b, window, rest, got)
    BY <2>4 DEF Refilled, Joins
  <2>2. /\ AtPlace(file, Place, b)
        /\ Len(b) = Len(window) + got
        /\ AtPlace(file, Len(file) - Len(Drop(rest, got)), Drop(rest, got))
        /\ Len(Drop(rest, got)) = Len(rest) - got
        /\ Drop(rest, got) \in FileText
    BY <1>1, <1>2, <2>1, <2>5, ReadOn
  <2>3. rest' = Drop(rest, got)
    BY DEF Consume
  <2> QED
    BY <2>2, <2>3, <2>4, Zenon
<1> HIDE DEF w
<1>4. Len(file) - Len(w) - Len(rest') = Place /\ Len(rest') <= Len(file) /\ Len(rest') \in Nat
      /\ Place + Len(w) = Len(file) - Len(rest') /\ Len(w) \in Nat
  BY <1>1, <1>2, <1>3
<1>5. Len(w) >= wanted \/ Len(rest') = 0
  <2>1. CASE Len(window) >= wanted \/ exhausted
    <3>1. got = 0
      BY <2>1 DEF Reads
    <3>2. exhausted => Len(rest) = 0
      BY DEF Buffered
    <3> QED
      BY <2>1, <3>1, <3>2, <1>1, <1>3
  <2>2. CASE ~(Len(window) >= wanted \/ exhausted)
    <3>1. got = Len(rest) \/ Len(window) + got >= wanted
      BY <2>2 DEF Reads
    <3> QED
      BY <3>1, <1>1, <1>3
  <2> QED
    BY <2>1, <2>2
<1>6. file' = file /\ exhausted' = (exhausted \/ Len(window) + got < wanted)
  BY DEF Consume
<1>7. exhausted' \in BOOLEAN
  BY <1>6 DEF Buffered
<1>8. ASSUME exhausted' PROVE rest' = <<>>
  <2>1. Len(rest') = 0
    <3>1. CASE exhausted
      <4>1. Len(rest) = 0
        BY <3>1 DEF Buffered
      <4>2. got = 0
        BY <4>1, <1>2
      <4> QED
        BY <4>1, <4>2, <1>3
    <3>2. CASE Len(w) < wanted
      BY <3>2, <1>4, <1>5
    <3> QED
      BY <3>1, <3>2, <1>3, <1>6, <1>8
  <2> QED
    BY <2>1, <1>3 DEF FileText
<1> QED
  BY <1>1, <1>3, <1>4, <1>5, <1>6, <1>7, <1>8 DEF w

\* Then some of what is buffered is parsed.
LEMMA BufferedNext ==
  ASSUME Buffered, NEW wanted \in Nat, NEW got \in Reads(wanted), Consume(got, wanted),
         NEW n \in 0 .. Len(Refilled(got)), window' = Drop(Refilled(got), n)
  PROVE  Buffered' /\ Place' = Place + n
<1> DEFINE w == Refilled(got)
<1>1. /\ AtPlace(file, Place, w)
      /\ file' = file /\ rest' \in FileText /\ Len(rest') <= Len(file)
      /\ AtPlace(file, Len(file) - Len(rest'), rest')
      /\ exhausted' \in BOOLEAN /\ (exhausted' => rest' = <<>>)
      /\ Len(file) - Len(w) - Len(rest') = Place
  BY RefilledIs
<1>2. file \in FileText
  BY FilesAssumption DEF Buffered, FileText
<1>3. AtPlace(file, Place + n, window') /\ Len(window') = Len(w) - n
  <2> HIDE DEF Place, w
  <2> QED
    BY <1>1, <1>2, PlaceMoves DEF w
<1>4. Len(file) \in Nat /\ Len(rest') \in Nat /\ Len(w) \in Nat /\ n \in Nat
  BY <1>1, <1>2 DEF AtPlace, FileText
<1>5. Place' = Place + n
  <2>1. Place' = Len(file) - Len(window') - Len(rest')
    BY <1>1 DEF Place
  <2> HIDE DEF w, Place
  <2> QED
    BY <2>1, <1>1, <1>3, <1>4
<1> QED
  BY <1>1, <1>3, <1>5 DEF Buffered

\* There are records of some lines in every phase.
LEMMA SomeLines ==
  ASSUME Parsing, file \in FileText
  PROVE  \E c \in Int : Lists(records, file, c)
<1>1. \A c \in LineStarts(file) : c \in Int
  BY DEF LineStarts, FileText
<1>2. Len(file) + 2 \in Int
  BY DEF FileText
<1> QED
  BY <1>1, <1>2 DEF Parsing, InLine, InComment, AllRead, Rejected

\* The invariant says what FaithfulParse does.
LEMMA InvariantIsFaithful == ReaderInv => FaithfulParse
<1> SUFFICES ASSUME ReaderInv PROVE FaithfulParse
  OBVIOUS
<1>1. file \in FileText /\ Parsing
  BY FilesAssumption DEF ReaderInv, Buffered, FileText
<1>2. /\ Len(records) <= Cardinality(RecordLines(file))
      /\ \A p \in RecordLines(file) :
           RecordNumber(file, p) <= Len(records)
           => records[RecordNumber(file, p)] = RecordAt(Body(Line(file, p)))
  BY <1>1, SomeLines, ListsTheFirst
<1>3. Len(file) + 2 \in Int /\ \A p \in RecordLines(file) : p < Len(file) + 2
  <2>1. Len(file) \in Nat
    BY <1>1 DEF FileText
  <2>2. RecordLines(file) \subseteq 1 .. Len(file) + 1
    BY DEF RecordLines, LineStarts
  <2> QED
    BY <2>1, <2>2
<1>4. ASSUME phase = "end"
      PROVE  Len(records) = Cardinality(RecordLines(file)) /\ FineBefore(file, Len(file) + 2)
  <2>1. Lists(records, file, Len(file) + 2)
    BY <1>1, <1>4 DEF Parsing, AllRead
  <2> QED
    BY <2>1, <1>1, <1>3, ListsTheFirst DEF Lists
<1>5. ASSUME phase = "failed"
      PROVE  /\ Len(records) = Cardinality(RecordLines(file))
             /\ \E p \in LineStarts(file) :
                  /\ Malformed(Line(file, p)) /\ FineBefore(file, p)
                  /\ line = LineNumber(file, p)
  <2>1. PICK c \in LineStarts(file) : /\ Malformed(Line(file, c)) /\ line = LineNumber(file, c)
                                      /\ Lists(records, file, c)
    BY <1>1, <1>5 DEF Parsing, Rejected
  <2>2. c \in Int
    BY <1>1 DEF LineStarts, FileText
  <2>3. ASSUME NEW p \in RecordLines(file) PROVE p < c
    <3>1. p \in Int /\ FineBefore(file, p + 1)
      BY <1>1 DEF RecordLines, LineStarts, FileText
    <3>2. ~(c < p + 1)
      BY <3>1, <2>1 DEF FineBefore
    <3> QED
      BY <3>1, <3>2, <2>2
  <2> QED
    BY <2>1, <2>2, <2>3, <1>1, ListsTheFirst DEF Lists
<1> QED
  BY <1>2, <1>4, <1>5 DEF FaithfulParse

-----------------------------------------------------------------------------
(* The turns of the parser.                                                 *)

\* Nothing is read yet.
LEMMA ReaderInvInit == ReaderInit => ReaderInv
<1> SUFFICES ASSUME ReaderInit PROVE ReaderInv
  OBVIOUS
<1>1. file \in FileText /\ file \in Seq(Bytes) /\ Len(file) \in Nat
  BY FilesAssumption DEF ReaderInit, FileText
<1>2. rest = file /\ window = <<>> /\ Len(window) = 0
  BY DEF ReaderInit
<1>3. Place = 0 /\ Len(file) - Len(rest) = 0
  BY <1>1, <1>2 DEF Place
<1>4. AtPlace(file, 0, file)
  BY <1>1 DEF AtPlace
<1>5. AtPlace(file, 0, window)
  <2>1. window \in FileText
    BY <1>2 DEF FileText
  <2> QED
    BY <2>1, <1>1, <1>2 DEF AtPlace
<1>6. Buffered
  <2>1. AtPlace(file, Place, window) /\ AtPlace(file, Len(file) - Len(rest), rest)
    BY <1>2, <1>3, <1>4, <1>5
  <2>2. rest \in FileText /\ Len(rest) <= Len(file)
    BY <1>1, <1>2
  <2>3. file \in Files /\ exhausted = FALSE
    BY DEF ReaderInit
  <2> QED
    BY <2>1, <2>2, <2>3 DEF Buffered
<1>7. InLine(file, 0, 1, <<>>)
  <2>1. Blank(file, 1, 0)
    BY DEF Blank
  <2>2. 0 \in 0 .. Len(file) /\ 1 <= 0 + 1
    BY <1>1
  <2>3. Lists(<<>>, file, 1) /\ 1 \in LineStarts(file) /\ 1 = LineNumber(file, 1)
    BY <1>1, NothingReadYet
  <2> QED
    BY <2>1, <2>2, <2>3 DEF InLine
<1>8. Parsing
  BY <1>3, <1>7 DEF Parsing, ReaderInit
<1> QED
  BY <1>6, <1>8 DEF ReaderInv

\* What a turn reads, and what it has then.
Turn(wanted, got) == Buffered /\ got \in Reads(wanted) /\ Consume(got, wanted)

LEMMA TurnHas ==
  ASSUME NEW wanted \in Nat, NEW got, Turn(wanted, got), NEW w, w = Refilled(got)
  PROVE  /\ AtPlace(file, Place, w) /\ file' = file /\ file \in FileText
         /\ w \in FileText /\ Len(w) \in Nat /\ Place \in Nat /\ Place + Len(w) <= Len(file)
         /\ Len(file) \in Nat
         /\ Len(w) >= wanted \/ Place + Len(w) = Len(file)
         /\ \A n \in 0 .. Len(w) : window' = Drop(w, n) => Buffered' /\ Place' = Place + n
<1>1. file \in FileText
  BY FilesAssumption DEF Turn, Buffered, FileText
<1>2. /\ AtPlace(file, Place, w) /\ file' = file
      /\ Len(w) >= wanted \/ Place + Len(w) = Len(file)
  BY RefilledIs DEF Turn
<1>3. ASSUME NEW n \in 0 .. Len(w), window' = Drop(w, n) PROVE Buffered' /\ Place' = Place + n
  BY <1>3, BufferedNext DEF Turn
<1> QED
  BY <1>1, <1>2, <1>3 DEF AtPlace, FileText

\* A turn of skip_comment().
LEMMA CommentStep ==
  ASSUME ReaderInv, CommentTurn
  PROVE  ReaderInv'
<1>1. PICK got \in Reads(1) :
        /\ Consume(got, 1)
        /\ window' = AfterLine(Refilled(got))
        /\ IF "nl" \in ToSet(Refilled(got))
           THEN line' = line + 1 /\ phase' = "next"
           ELSE line' = line /\ phase' = IF Refilled(got) = <<>> THEN "next" ELSE "comment"
  BY DEF CommentTurn
<1>2. PICK w : w = Refilled(got)
  OBVIOUS
<1>3. Turn(1, got) /\ records' = records /\ InComment(file, Place, line, records)
  BY <1>1 DEF Turn, ReaderInv, Parsing, CommentTurn
<1>4. /\ AtPlace(file, Place, w) /\ file' = file /\ file \in FileText
      /\ w \in FileText /\ Len(w) \in Nat /\ Place \in Nat /\ Place + Len(w) <= Len(file)
      /\ Len(file) \in Nat
      /\ Len(w) >= 1 \/ Place + Len(w) = Len(file)
      /\ \A n \in 0 .. Len(w) : window' = Drop(w, n) => Buffered' /\ Place' = Place + n
  BY <1>2, <1>3, TurnHas
<1>5. PICK m : m = Span(w, Bytes \ {"nl"})
  OBVIOUS
<1>6. IsSpan(w, Bytes \ {"nl"}, m) /\ m \in 0 .. Len(w)
  BY <1>4, <1>5, SpanIs DEF IsSpan, FileText
<1>7. window' = Drop(w, m + 1)
  BY <1>1, <1>2, <1>5 DEF AfterLine
<1>8. DOMAIN w = 1 .. Len(w) /\ \A i \in 1 .. Len(w) : w[i] \in Bytes
  BY <1>4 DEF FileText
<1>9. CASE m < Len(w)
  <2>1. m + 1 \in 0 .. Len(w) /\ m + 1 \in 1 .. Len(w) /\ Place + (m + 1) = Place + m + 1
    BY <1>4, <1>6, <1>9
  <2>2. Buffered' /\ Place' = Place + m + 1
    BY <2>1, <1>4, <1>7
  <2>3. w[m + 1] = "nl"
    BY <2>1, <1>6, <1>8, <1>9 DEF IsSpan
  <2>4. "nl" \in ToSet(w)
    BY <2>1, <2>3, <1>8 DEF ToSet
  <2>5. line' = line + 1 /\ phase' = "next"
    BY <2>4, <1>1, <1>2
  <2>6. InLine(file, Place + m + 1, line + 1, records)
    BY <1>3, <1>4, <1>6, <1>9, CommentEnds
  <2>7. Parsing'
    BY <2>2, <2>5, <2>6, <1>3, <1>4 DEF Parsing
  <2> QED
    BY <2>2, <2>7 DEF ReaderInv
<1>10. CASE m = Len(w)
  <2>1. window' = Drop(w, Len(w))
    BY <1>4, <1>7, <1>10, DropAll
  <2>2. Buffered' /\ Place' = Place + Len(w)
    BY <2>1, <1>4, <1>6, <1>10
  <2>3. "nl" \notin ToSet(w)
    <3>1. \A i \in 1 .. Len(w) : w[i] # "nl"
      BY <1>6, <1>10 DEF IsSpan
    <3> QED
      BY <3>1, <1>8 DEF ToSet
  <2>4. line' = line /\ phase' = IF w = <<>> THEN "next" ELSE "comment"
    BY <2>3, <1>1, <1>2
  <2>5. InComment(file, Place + Len(w), line, records)
    BY <1>3, <1>4, <1>6, <1>10, CommentGoesOn
  <2>6. ASSUME w = <<>> PROVE Place' = Len(file) /\ AllRead(file, records)
    <3>1. Len(w) = 0
      BY <2>6
    <3>2. Place + Len(w) = Len(file)
      BY <3>1, <1>4
    <3> QED
      BY <3>2, <2>2, <2>5, <1>4, CommentAtEnd
  <2>7. Parsing'
    BY <2>2, <2>4, <2>5, <2>6, <1>3, <1>4 DEF Parsing
  <2> QED
    BY <2>2, <2>7 DEF ReaderInv
<1> QED
  BY <1>6, <1>9, <1>10, <1>4

\* A turn of next() that only passes blanks.
LEMMA BlanksStep ==
  ASSUME NEW got, Turn(MaxRecordBytes, got), InLine(file, Place, line, records),
         NEW w, w = Refilled(got), phase = "next",
         EndOfFile(w) \/ OnlyBlanks(w) \/ StartComment(w)
  PROVE  ReaderInv'
<1>1. /\ AtPlace(file, Place, w) /\ file' = file /\ file \in FileText
      /\ w \in FileText /\ Len(w) \in Nat /\ Place \in Nat /\ Place + Len(w) <= Len(file)
      /\ Len(file) \in Nat
      /\ Len(w) >= MaxRecordBytes \/ Place + Len(w) = Len(file)
      /\ \A n \in 0 .. Len(w) : window' = Drop(w, n) => Buffered' /\ Place' = Place + n
  BY TurnHas, ReaderAssumption
<1>2. PICK k : k = Span(w, Leading)
  OBVIOUS
<1>3. IsSpan(w, Leading, k) /\ k \in 0 .. Len(w)
  BY <1>1, <1>2, SpanIs DEF IsSpan, FileText
<1> DEFINE b == Body(w)
<1>4. b \in FileText /\ Len(b) = Len(w) - k /\ \A i \in 1 .. Len(w) - k : b[i] = w[k + i]
  BY <1>1, <1>3, BodyIs
<1>5. b = Drop(w, k)
  BY <1>2 DEF Body
<1> HIDE DEF b
<1>6. InLine(file, Place + k, line + Skipped(w), records)
  BY <1>1, <1>3, AfterBlanks
<1>7. CASE EndOfFile(w)
  <2>1. Len(w) = 0 /\ window' = window /\ w = <<>>
    BY <1>7 DEF EndOfFile
  <2>2. Place + Len(w) = Len(file) /\ Place = Len(file)
    BY <2>1, <1>1, ReaderAssumption
  <2>3. window' = Drop(w, 0)
    <3>1. Len(window) = 0 /\ window \in Seq(Bytes)
      <4>1. AtPlace(file, Place, window) /\ Place = Len(file) - Len(window) - Len(rest)
            /\ rest \in FileText
        BY DEF Turn, Buffered, Place
      <4>2. window \in Seq(Bytes) /\ Place + Len(window) <= Len(file)
        BY <4>1 DEF AtPlace, FileText
      <4> QED
        BY <4>2, <2>2, <1>1
    <3>2. window = <<>>
      BY <3>1
    <3>3. Drop(w, Len(w)) = <<>>
      BY <1>1, DropAll
    <3> QED
      BY <3>2, <3>3, <2>1
  <2>4. Buffered'
    BY <2>1, <2>3, <1>1
  <2>5. AllRead(file, records)
    BY <2>2, <1>1, EndIsReached
  <2>6. Parsing'
    BY <2>5, <1>1, <1>7 DEF Parsing, EndOfFile
  <2> QED
    BY <2>4, <2>6 DEF ReaderInv
<1>8. CASE OnlyBlanks(w)
  <2>1. Len(b) = 0 /\ window' = <<>> /\ line' = line + Skipped(w) /\ records' = records
        /\ phase' = "next"
    BY <1>8 DEF OnlyBlanks, b
  <2>2. k = Len(w)
    BY <2>1, <1>1, <1>3, <1>4
  <2>3. window' = Drop(w, k)
    BY <2>1, <2>2, <1>1, DropAll
  <2>4. Buffered' /\ Place' = Place + k
    BY <2>3, <1>1, <1>3
  <2>5. Parsing'
    BY <2>1, <2>4, <1>1, <1>6 DEF Parsing
  <2> QED
    BY <2>4, <2>5 DEF ReaderInv
<1>9. CASE StartComment(w)
  <2>1. b # <<>> /\ b[1] = "#" /\ window' = b /\ line' = line + Skipped(w) /\ records' = records
        /\ phase' = "comment"
    BY <1>9 DEF StartComment, b
  <2>2. Buffered' /\ Place' = Place + k
    BY <2>1, <1>1, <1>3, <1>5
  <2>3. Len(b) # 0
    BY <2>1, <1>4 DEF FileText
  <2>4. 1 \in 1 .. Len(w) - k /\ k + 1 \in 1 .. Len(w) /\ Place + (k + 1) = Place + k + 1
        /\ Place + k + 1 <= Len(file)
    BY <2>3, <1>1, <1>3, <1>4
  <2>5. file[Place + k + 1] = "#"
    <3>1. w[k + 1] = file[Place + (k + 1)]
      BY <2>4, <1>1 DEF AtPlace
    <3> QED
      BY <3>1, <2>1, <2>4, <1>4
  <2>6. InComment(file, Place + k, line + Skipped(w), records)
    <3>1. PICK p : p = Place + k
      OBVIOUS
    <3>2. PICK c \in LineStarts(file) : c <= p + 1 /\ Blank(file, c, p)
            /\ line + Skipped(w) = LineNumber(file, c) /\ Lists(records, file, c)
      BY <3>1, <1>6 DEF InLine
    <3>3. c \in Int /\ p \in Nat /\ p + 1 \in c .. p + 1 /\ p + 1 - 1 = p /\ p + 1 <= Len(file)
          /\ p \in 0 .. Len(file) /\ \A i \in p + 1 .. p : FALSE
      BY <3>1, <3>2, <2>4, <1>1, <1>3 DEF LineStarts, FileText
    <3>4. file[p + 1] = "#"
      BY <2>5, <3>1
    <3>5. InComment(file, p, line + Skipped(w), records)
      BY <3>2, <3>3, <3>4 DEF InComment
    <3> QED
      BY <3>1, <3>5
  <2>7. Parsing'
    BY <2>1, <2>2, <2>6, <1>1 DEF Parsing
  <2> QED
    BY <2>2, <2>7 DEF ReaderInv
<1> QED
  BY <1>7, <1>8, <1>9

\* A turn of next() that finds a record, or what should have been one.
LEMMA RecordStep ==
  ASSUME FitsLookAhead(file),
         NEW got, Turn(MaxRecordBytes, got), InLine(file, Place, line, records),
         NEW w, w = Refilled(got), phase = "next",
         ReturnRecord(w) \/ Reject(w)
  PROVE  ReaderInv'
<1>1. /\ AtPlace(file, Place, w) /\ file' = file /\ file \in FileText
      /\ w \in FileText /\ Len(w) \in Nat /\ Place \in Nat /\ Place + Len(w) <= Len(file)
      /\ Len(file) \in Nat
      /\ Len(w) >= MaxRecordBytes \/ Place + Len(w) = Len(file)
      /\ \A n \in 0 .. Len(w) : window' = Drop(w, n) => Buffered' /\ Place' = Place + n
  BY TurnHas, ReaderAssumption
<1>2. PICK k : k = Span(w, Leading)
  OBVIOUS
<1>3. IsSpan(w, Leading, k) /\ k \in 0 .. Len(w)
  BY <1>1, <1>2, SpanIs DEF IsSpan, FileText
<1> DEFINE b == Body(w)
<1>4. b \in FileText /\ Len(b) = Len(w) - k
  BY <1>1, <1>3, BodyIs
<1>5. b = Drop(w, k)
  BY <1>2 DEF Body
<1>6. b # <<>> /\ b[1] # "#"
  BY DEF ReturnRecord, Reject, WellFormed
<1>7. PICK c, e : Holds(file, Place, w, line + Skipped(w), records, c, e)
  BY <1>1, <1>6, HoldsALine DEF Enough
<1> HIDE DEF b
<1>8. CASE ReturnRecord(w)
  <2>1. /\ WellFormed(b) /\ records' = Append(records, RecordAt(b))
        /\ window' = AfterLine(b)
        /\ line' = line + Skipped(w) + (IF "nl" \in ToSet(b) THEN 1 ELSE 0)
        /\ phase' = "next"
    BY <1>8 DEF ReturnRecord, b
  <2>2. PICK m : m = Span(b, Bytes \ {"nl"})
    OBVIOUS
  <2>3. /\ m \in 0 .. Len(b)
        /\ m < Len(b) => /\ "nl" \in ToSet(b)
                         /\ InLine(file, Place + Len(w) - (Len(b) - m) + 1, line + Skipped(w) + 1, records')
        /\ m = Len(b) => "nl" \notin ToSet(b) /\ AllRead(file, records') /\ Place + Len(w) = Len(file)
    BY <2>1, <2>2, <1>1, <1>7, RecordTaken DEF b
  <2>4. window' = Drop(b, m + 1)
    BY <2>1, <2>2 DEF AfterLine
  <2>5. CASE m < Len(b)
    <3>1. Len(b) \in Nat /\ m + 1 \in 0 .. Len(b) /\ k + (m + 1) \in 0 .. Len(w)
          /\ Place + Len(w) - (Len(b) - m) + 1 = Place + (k + (m + 1))
      BY <2>3, <2>5, <1>1, <1>3, <1>4
    <3>2. Drop(b, m + 1) = Drop(w, k + (m + 1))
      BY <3>1, <1>1, <1>3, <1>5, DropTwice
    <3>3. Buffered' /\ Place' = Place + (k + (m + 1))
      BY <3>1, <3>2, <2>4, <1>1
    <3>4. line' = line + Skipped(w) + 1
      BY <2>1, <2>3, <2>5
    <3>5. InLine(file, Place', line', records')
      BY <3>1, <3>3, <3>4, <2>3, <2>5
    <3>6. Parsing'
      BY <3>5, <2>1, <1>1 DEF Parsing
    <3> QED
      BY <3>3, <3>6 DEF ReaderInv
  <2>6. CASE m = Len(b)
    <3>1. window' = Drop(w, Len(w))
      BY <2>4, <2>6, <1>1, <1>4, DropAll
    <3>2. Len(w) \in 0 .. Len(w)
      BY <1>1
    <3>3. Buffered' /\ Place' = Place + Len(w)
      BY <3>1, <3>2, <1>1
    <3>4. Place' = Len(file) /\ AllRead(file, records')
      BY <3>3, <2>3, <2>6
    <3>5. Parsing'
      BY <3>4, <2>1, <1>1 DEF Parsing
    <3> QED
      BY <3>3, <3>5 DEF ReaderInv
  <2>7. m < Len(b) \/ m = Len(b)
    BY <2>3, <1>4, <1>1
  <2> QED
    BY <2>5, <2>6, <2>7
<1>9. CASE Reject(w)
  <2>1. /\ ~WellFormed(b) /\ window' = b /\ line' = line + Skipped(w)
        /\ phase' = "failed" /\ records' = records
    BY <1>9 DEF Reject, b
  <2>2. Buffered'
    BY <2>1, <1>1, <1>3, <1>5
  <2>3. /\ c \in LineStarts(file) /\ Malformed(Line(file, c))
        /\ line + Skipped(w) = LineNumber(file, c) /\ Lists(records, file, c)
    <3>1. ~WellFormed(Body(w)) /\ BeginsWithLine(Body(w), Body(Line(file, c)))
          /\ Body(Line(file, c)) # <<>>
      BY <2>1, <1>7 DEF Holds, b
    <3>2. ~WellFormed(Body(Line(file, c)))
      BY <3>1, RecordOfLine
    <3> QED
      BY <3>2, <1>7 DEF Holds, Malformed
  <2>4. Rejected'
    BY <2>1, <2>3, <1>1 DEF Rejected
  <2>5. Parsing'
    BY <2>1, <2>4 DEF Parsing
  <2> QED
    BY <2>2, <2>5 DEF ReaderInv
<1> QED
  BY <1>8, <1>9

\* Every turn.
LEMMA ReaderInvNext ==
  ASSUME \A f \in Files : FitsLookAhead(f), ReaderInv, [ReaderNext]_readerVars
  PROVE  ReaderInv'
<1>1. CASE CommentTurn
  BY <1>1, CommentStep
<1>2. CASE NextTurn
  <2>1. PICK got \in Reads(MaxRecordBytes) :
          /\ Consume(got, MaxRecordBytes)
          /\ \/ EndOfFile(Refilled(got)) \/ OnlyBlanks(Refilled(got)) \/ StartComment(Refilled(got))
             \/ ReturnRecord(Refilled(got)) \/ Reject(Refilled(got))
    BY <1>2 DEF NextTurn
  <2>2. PICK w : w = Refilled(got)
    OBVIOUS
  <2>3. phase = "next" /\ Turn(MaxRecordBytes, got) /\ FitsLookAhead(file)
    BY <1>2, <2>1 DEF NextTurn, Turn, ReaderInv, Buffered
  <2>4. CASE InLine(file, Place, line, records)
    BY <2>1, <2>2, <2>3, <2>4, BlanksStep, RecordStep
  <2>5. CASE Place = Len(file) /\ AllRead(file, records)
    <3>1. /\ AtPlace(file, Place, w) /\ file' = file /\ file \in FileText
          /\ w \in FileText /\ Len(w) \in Nat /\ Place \in Nat /\ Place + Len(w) <= Len(file)
          /\ Len(file) \in Nat
          /\ \A n \in 0 .. Len(w) : window' = Drop(w, n) => Buffered' /\ Place' = Place + n
      BY <2>2, <2>3, TurnHas, ReaderAssumption
    <3>2. Len(w) = 0
      BY <3>1, <2>5
    <3>3. w = <<>>
      BY <3>1, <3>2 DEF FileText
    <3>4. Body(w) = <<>>
      <4>1. Span(w, Leading) = 0
        <5>1. IsSpan(w, Leading, Span(w, Leading))
          BY <3>1, SpanIs DEF FileText
        <5>2. Span(w, Leading) \in 0 .. Len(w)
          BY <5>1 DEF IsSpan
        <5> QED
          BY <5>2, <3>2
      <4>2. Body(w) = Drop(w, Len(w))
        BY <4>1, <3>2 DEF Body
      <4> QED
        BY <4>2, <3>1, DropAll
    <3>5. EndOfFile(w)
      BY <3>3, <3>4, <2>1, <2>2 DEF OnlyBlanks, StartComment, ReturnRecord, Reject
    <3>6. window' = Drop(w, 0)
      <4>1. AtPlace(file, Place, window)
        BY <2>3 DEF Turn, Buffered
      <4>2. Len(window) = 0 /\ window \in Seq(Bytes)
        BY <4>1, <3>1, <2>5 DEF AtPlace, FileText
      <4>3. window = <<>>
        BY <4>2
      <4>4. Drop(w, Len(w)) = <<>>
        BY <3>1, DropAll
      <4> QED
        BY <4>3, <4>4, <3>2, <3>5 DEF EndOfFile
    <3>7. Buffered'
      BY <3>1, <3>2, <3>6
    <3>8. Parsing'
      BY <3>1, <3>5, <2>5 DEF Parsing, EndOfFile
    <3> QED
      BY <3>7, <3>8 DEF ReaderInv
  <2> QED
    BY <2>3, <2>4, <2>5 DEF ReaderInv, Parsing
<1>3. CASE UNCHANGED readerVars
  BY <1>3 DEF readerVars, ReaderInv, Buffered, Parsing, Rejected, Place
<1> QED
  BY <1>1, <1>2, <1>3 DEF ReaderNext

\* Wherever the buffer ends and however short the reads are, the records are those of
\* the lines of the file: for every set of files whose lines fit the look-ahead.
THEOREM ParseIsFaithful ==
  ASSUME \A f \in Files : FitsLookAhead(f)
  PROVE  ReaderSpec => []FaithfulParse
<1>1. ReaderInv /\ [ReaderNext]_readerVars => ReaderInv'
  BY ReaderInvNext
<1> QED
  BY <1>1, ReaderInvInit, InvariantIsFaithful, PTL DEF ReaderSpec
=============================================================================
