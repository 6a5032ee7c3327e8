------------------------------ MODULE Perfsim ------------------------------
(***************************************************************************)
(* One run of the perfsim executable (src/main.cpp): the command line, the   *)
(* configuration file, the simulation, the report and the results.  What the *)
(* simulation computes is in module Simulator, which configurations are      *)
(* accepted in Config, when a trace is malformed in TraceReader; here each is *)
(* an outcome.  The process writes to two places, its standard output and one *)
(* file, and both are sequences of items as in Json.                        *)
(***************************************************************************)
EXTENDS JsonTexts

CONSTANTS
  Scenarios,    \* sets of command lines and of what the files they name are like
  Spelling,     \* the characters of the words that are paths
  Accepts(_),   \* the documents that Config::from_json accepts
  Measured,     \* the times and rates a run may measure
  NoFile        \* the contents of a file that does not exist

ASSUME PerfsimAssumption == Measured \subseteq Numerals \ {Infinity}

VARIABLES call,     \* how perfsim is invoked
          words,    \* the words of the command line that are still to be read
          options,  \* struct Options
          place,    \* where main() is
          results,  \* the document with the results
          stdout,   \* what has been printed
          file,     \* the file that --json names
          status    \* the exit status

vars == <<call, words, options, place, results, stdout, file, status>>

Before == <<"before">>

NoOptions == [config |-> "", trace |-> "", json |-> "", quiet |-> FALSE, benchmark |-> FALSE,
              accesses |-> "10000000", pattern |-> "random"]

\* A command line, what --config and --trace name, and whether the file that --json
\* names takes what is written to it, cannot be opened, or is on a full disk.
Init == /\ \E scenario \in Scenarios :
             call \in [words : scenario.lines, config : scenario.configs,
                       trace : scenario.traces, disk : scenario.disks]
        /\ words = call.words
        /\ options = NoOptions
        /\ place = "arguments"
        /\ results = Null
        /\ stdout = <<>>
        /\ file = Before
        /\ status = -1

Goto(next) == place' = next /\ UNCHANGED status
Exit(code) == place' = "exit" /\ status' = code

-----------------------------------------------------------------------------
(* parse_arguments.                                                         *)

TakesValue == ("--config" :> "config") @@ ("--trace" :> "trace") @@ ("--json" :> "json")
              @@ ("--accesses" :> "accesses") @@ ("--pattern" :> "pattern")
Switches   == ("--quiet" :> "quiet") @@ ("--benchmark" :> "benchmark")

\* require_value takes the next word, whatever it is.
ValueOption ==
  /\ Head(words) \in DOMAIN TakesValue
  /\ IF Len(words) = 1
     THEN Exit(1) /\ UNCHANGED <<words, options>>
     ELSE /\ options' = [options EXCEPT ![TakesValue[Head(words)]] = words[2]]
          /\ words' = SubSeq(words, 3, Len(words))
          /\ Goto("arguments")
  /\ UNCHANGED stdout

Switch == /\ Head(words) \in DOMAIN Switches
          /\ options' = [options EXCEPT ![Switches[Head(words)]] = TRUE]
          /\ words' = Tail(words)
          /\ Goto("arguments")
          /\ UNCHANGED stdout

Help == /\ Head(words) \in {"--help", "-h"}
        /\ stdout' = Append(stdout, "usage")
        /\ Exit(0)
        /\ UNCHANGED <<words, options>>

UnknownOption == /\ Head(words) \notin DOMAIN TakesValue \union DOMAIN Switches \union {"--help", "-h"}
                 /\ Exit(1)
                 /\ UNCHANGED <<words, options, stdout>>

Argument == /\ place = "arguments" /\ words # <<>>
            /\ ValueOption \/ Switch \/ Help \/ UnknownOption
            /\ UNCHANGED <<call, results, file>>

EndArguments == /\ place = "arguments" /\ words = <<>>
                /\ IF options.benchmark \/ options.trace # "" THEN Goto("configure") ELSE Exit(1)
                /\ UNCHANGED <<call, words, options, results, stdout, file>>

-----------------------------------------------------------------------------
(* main().                                                                  *)

\* parse_file and from_json throw, and the handler at the end of main exits with 1.
Configurable == LET document == Parse(call.config)
                IN  call.config # NoFile /\ document.ok /\ Accepts(document.value)

Configure == /\ place = "configure"
             /\ IF options.config = "" \/ Configurable THEN Goto("simulate") ELSE Exit(1)
             /\ UNCHANGED <<call, words, options, results, stdout, file>>

Key(name) == <<name>>

\* results.to_json() with what main() adds to it: the trace it names and one number
\* for all the others; a wall clock time.
ResultsOf(name, number) ==
  Set(Set(Set(Object, Key("trace"), String(name)), Key("ipc"), Number(number)),
      Key("simulator"), Set(Object, Key("wall_seconds"), Number(number)))

\* Mutant: a malformed line ends the trace.
SimulateWhatCanBeRead ==
  /\ place = "simulate"
  /\ IF (IF options.benchmark THEN options.pattern \in {"sequential", "random", "pointer_chase"}
                              ELSE call.trace # "missing")
     THEN /\ \E number \in Measured :
               results' = ResultsOf(IF options.benchmark THEN <<"benchmark:", options.pattern>>
                                                         ELSE Spelling[options.trace], number)
          /\ Goto("report")
     ELSE Exit(1) /\ UNCHANGED results
  /\ UNCHANGED <<call, words, options, stdout, file>>

\* A trace is read to its end or ends the run with an exception; a benchmark has a
\* pattern of its own and reads no trace.
Simulate ==
  /\ place = "simulate"
  /\ IF (IF options.benchmark THEN options.pattern \in {"sequential", "random", "pointer_chase"}
                              ELSE call.trace = "wellformed")
     THEN /\ \E number \in Measured :
               results' = ResultsOf(IF options.benchmark THEN <<"benchmark:", options.pattern>>
                                                         ELSE Spelling[options.trace], number)
          /\ Goto("report")
     ELSE Exit(1) /\ UNCHANGED results
  /\ UNCHANGED <<call, words, options, stdout, file>>

Report == /\ place = "report"
          /\ stdout' = IF options.quiet THEN stdout ELSE Append(stdout, "report")
          /\ Goto("write")
          /\ UNCHANGED <<call, words, options, results, file>>

\* write_json, or no results asked for: a file that cannot be opened is an error, one
\* that cannot be written is not noticed.
WriteJson ==
  /\ place = "write"
  /\ CASE options.json = ""  -> Exit(0) /\ UNCHANGED <<stdout, file>>
       [] options.json = "-" -> Exit(0) /\ stdout' = stdout \o Dump(results, TRUE) /\ UNCHANGED file
       [] OTHER -> /\ UNCHANGED stdout
                   /\ CASE call.disk = "ready"   -> Exit(0) /\ file' = Dump(results, TRUE)
                        [] call.disk = "refuses" -> Exit(1) /\ UNCHANGED file
                        [] call.disk = "full"    -> Exit(0) /\ file' = <<>>
  /\ UNCHANGED <<call, words, options, results>>

Next == Argument \/ EndArguments \/ Configure \/ Simulate \/ Report \/ WriteJson

Spec == Init /\ [][Next]_vars

-----------------------------------------------------------------------------

\* The configuration is understood as its text means it and a text that means nothing
\* is refused: no separator, quote or bracket too many or too few gets through, escapes
\* stand for their characters, and of two equal keys the last counts (json.cpp:60-142).
TextUnderstood ==
  place = "configure" /\ call.config # NoFile =>
    LET document == Parse(call.config)
    IN  Meanings(call.config, FALSE) = IF document.ok THEN {document.value} ELSE {}

\* A document as it comes back from its text: numbers as printed.
RECURSIVE AsPrinted(_)
AsPrinted(v) ==
  CASE v.type = "number" /\ v.number = Infinity -> Null
    [] v.type = "number" -> Number(Printed[v.number])
    [] v.type = "array"  -> [v EXCEPT !.elements = [i \in DOMAIN @ |-> AsPrinted(@[i])]]
    [] v.type = "object" -> [v EXCEPT !.fields = [i \in DOMAIN @ |-> Field(@[i].key, AsPrinted(@[i].value))]]
    [] OTHER -> v

\* What the scripts rely on (experiments/perfsim.py:124-132): the results, in a file or
\* on a standard output that is kept quiet, are one text that a strict reader takes for
\* the results of this run, whatever quotes, backslashes and line ends the name of the
\* trace has.  (Any other control character in it is written as it is, see README.md.)
ResultsReadBack ==
  LET written == IF options.json = "-" THEN stdout ELSE file
  IN  (/\ status = 0 /\ stdout # <<"usage">>
       /\ options.json # "" /\ (options.json = "-" => options.quiet)
       /\ \A v \in {results.fields[1].value} : "backspace" \notin ToSet(v.string))
      => Meanings(written, TRUE) = {AsPrinted(results)}

\* The exit status tells whether there are results: a run that fails has written none,
\* on the standard output or over an older file, and a run that succeeds had a
\* configuration that means something, a whole trace or a benchmark, and has written
\* the results wherever they were asked for (main.cpp:160-213).
OutputsMatchStatus ==
  /\ status = 1 => file = Before /\ stdout \in {<<>>, <<"report">>}
  /\ status = 0 =>
       \/ stdout = <<"usage">> /\ file = Before
       \/ /\ results # Null
          /\ options.benchmark \/ call.trace = "wellformed"
          /\ options.config # "" => \E v \in Meanings(call.config, FALSE) : Accepts(v)
          /\ (file # Before) <=> options.json \notin {"", "-"}
          /\ ("report" \in ToSet(stdout)) <=> ~options.quiet
=============================================================================
