------------------------------ MODULE Tracegen ------------------------------
(***************************************************************************)
(* tracegen: the loop over its arguments, the checks and the exit status       *)
(* (workloads/main.cpp), the workload as a trace or run natively, and the      *)
(* TraceWriter that buffers what it emits (src/trace.cpp).  A write may fail   *)
(* half way, which makes flush throw; the exception unwinds through the        *)
(* destructor of the writer, which closes and so flushes again.              *)
(*                                                                         *)
(* An argument is an option with its value, as strtoull has read it.          *)
(***************************************************************************)
EXTENDS Workloads

CONSTANTS CommandLines,    \* what tracegen is called with: sequences of arguments
          Defaults,        \* the parameters it starts from (struct Params)
          MatrixDimension, \* what --n is for the matrix kernel when it is not given
          Missing,         \* the value of an option that ends the command line
          BufferRecords,   \* kBufferSize, in records
          Failures         \* what may fail: "open", "flush", "close"

ASSUME TracegenAssumption ==
  BufferRecords \in Nat \ {0} /\ Failures \subseteq {"open", "flush", "close"}

\* The initial values in struct Params, and those of main.
ASSUME DefaultsAssumption ==
  /\ MatrixDimension \in Nat \ {0}
  /\ {Defaults.n, Defaults.block, Defaults.stride, Defaults.iterations} \subseteq Nat
  /\ Defaults = [workload |-> "", mode |-> "trace", out |-> "-",
                  n |-> Defaults.n, nGiven |-> FALSE,
                  block |-> Defaults.block, stride |-> Defaults.stride,
                  iterations |-> Defaults.iterations, draws |-> Defaults.draws]

\* strtoull returns a natural number.
ASSUME ArgumentsAssumption ==
  \A arguments \in CommandLines :
    /\ arguments \in Seq({arguments[x] : x \in DOMAIN arguments})
    /\ \A x \in DOMAIN arguments :
         arguments[x].option \in {"--n", "--block", "--stride", "--iterations"}
           /\ arguments[x].value # Missing
         => arguments[x].value \in Nat

\* The options that set a parameter.
Valued == {"--mode", "--n", "--block", "--stride", "--seed", "--iterations", "--out"}

Workload == {"sequential", "random_access", "pointer_chase", "strided", "matrix"}

-----------------------------------------------------------------------------
(* What a command line asks for.                                            *)

\* The last value it gives to an option, or else what there is without it.
LastValue(arguments, option, otherwise) ==
  LET places == {x \in DOMAIN arguments : arguments[x].option = option}
  IN  IF places = {} THEN otherwise ELSE arguments[Max(places)].value

AskedBy(arguments) ==
  LET name  == LastValue(arguments, "name", "")
      given == \E x \in DOMAIN arguments : arguments[x].option = "--n"
  IN  [workload   |-> name,
       mode       |-> LastValue(arguments, "--mode", "trace"),
       out        |-> LastValue(arguments, "--out", "-"),
       n          |-> LastValue(arguments, "--n", IF name = "matrix" THEN MatrixDimension
                                                  ELSE Defaults.n),
       nGiven     |-> given,
       block      |-> LastValue(arguments, "--block", Defaults.block),
       stride     |-> LastValue(arguments, "--stride", Defaults.stride),
       iterations |-> LastValue(arguments, "--iterations", Defaults.iterations),
       draws      |-> LastValue(arguments, "--seed", Defaults.draws)]

\* The draws stand for a seed as far as the workload calls next_random().
ASSUME DrawsAssumption ==
  \A arguments \in CommandLines :
    (\A x \in DOMAIN arguments : arguments[x].option \in Valued => arguments[x].value # Missing)
    => LET job == AskedBy(arguments)
       IN  job.workload \in Workload =>
             \A h \in 1 .. Draws(job) : job.draws[h] \in Nat

-----------------------------------------------------------------------------

VARIABLES line,     \* the command line
          rest,     \* what the loop over it has not looked at yet
          job,      \* params, the name, the mode and the path of the trace
          todo,     \* what the workload has not emitted yet
          buffer,   \* buffer_
          file,     \* what has been handed to the file
          printed,  \* the checksums written to stdout
          status    \* "start", "emitting", "unwinding", "usage" (after --list
                    \* or --help), or the exit status

vars == <<line, rest, job, todo, buffer, file, printed, status>>

Init == /\ line \in CommandLines
        /\ rest = line
        /\ job = Defaults
        /\ todo = <<>>
        /\ buffer = <<>>
        /\ file = <<>>
        /\ printed = <<>>
        /\ status = "start"

-----------------------------------------------------------------------------
(* The arguments.                                                           *)

\* The parameter an option sets.
Field(option) ==
  CASE option = "--mode" -> "mode"        [] option = "--n" -> "n"
    [] option = "--block" -> "block"      [] option = "--stride" -> "stride"
    [] option = "--seed" -> "draws"       [] option = "--iterations" -> "iterations"
    [] option = "--out" -> "out"

Fail == /\ status' = "exit 1"
        /\ UNCHANGED job

Argument ==
  /\ status = "start" /\ rest # <<>>
  /\ rest' = Tail(rest)
  /\ LET option == Head(rest).option
         value  == Head(rest).value
     IN  \/ /\ option \in Valued /\ value # Missing
            /\ job' = [job EXCEPT ![Field(option)] = value,
                                  !.nGiven = @ \/ option = "--n"]
            /\ UNCHANGED status
         \/ /\ option = "name" /\ job.workload = ""
            /\ job' = [job EXCEPT !.workload = value]
            /\ UNCHANGED status
         \/ /\ option = "--list"
            /\ status' = "usage"
            /\ UNCHANGED job
         \/ option = "name" /\ job.workload # "" /\ Fail
         \/ option \in Valued /\ value = Missing /\ Fail
         \/ option \notin Valued \union {"name", "--list"} /\ Fail
  /\ UNCHANGED <<line, todo, buffer, file, printed>>

Accepts(j) == /\ j.workload \in Workload
              /\ j.n > 0 /\ j.iterations > 0
              /\ j.stride > 0 /\ j.stride % ElementSize = 0

\* The matrix kernel has a dimension of its own when none is given.
Parameters == IF job.workload = "matrix" /\ ~job.nGiven
              THEN [job EXCEPT !.n = MatrixDimension] ELSE job

Checked == status = "start" /\ rest = <<>>

Reject == /\ Checked
          /\ \/ ~Accepts(job)
             \/ job.mode \notin {"trace", "native"}
             \/ job.mode = "trace" /\ job.out # "-" /\ "open" \in Failures
          /\ status' = "exit 1"
          /\ UNCHANGED <<line, rest, job, todo, buffer, file, printed>>

\* --mode native: the kernel is run and its result written to stdout.
RunNative == /\ Checked /\ Accepts(job) /\ job.mode = "native"
             /\ job' = Parameters
             /\ printed' = <<Native(Parameters).checksum>>
             /\ status' = "exit 0"
             /\ UNCHANGED <<line, rest, todo, buffer, file>>

-----------------------------------------------------------------------------
(* The trace.                                                               *)

\* The two lines of comment a trace begins with.
Header == <<Record("#", 1), Record("#", 2)>>

Open == /\ Checked /\ Accepts(job) /\ job.mode = "trace"
        /\ job' = Parameters
        /\ buffer' = Header
        /\ todo' = Emission(Parameters)
        /\ status' = "emitting"
        /\ UNCHANGED <<line, rest, file, printed>>

\* Mutant: what has been written stays in the buffer.
FlushedKept(pending) == /\ file' = file \o pending
                        /\ buffer' = pending

\* All of this is written.
Flushed(pending) == /\ file' = file \o pending
                    /\ buffer' = <<>>

\* Only the beginning of it is: flush throws and leaves the buffer as it is.
FlushThrows(pending) ==
  /\ "flush" \in Failures
  /\ \E n \in 0 .. Len(pending) - 1 : file' = file \o SubSeq(pending, 1, n)
  /\ buffer' = pending

\* emit: one more record, and a flush when the buffer is full.
Emit == /\ status = "emitting" /\ todo # <<>>
        /\ todo' = Tail(todo)
        /\ LET pending == Append(buffer, Head(todo))
           IN  \/ /\ Len(pending) < BufferRecords
                  /\ buffer' = pending
                  /\ UNCHANGED <<file, status>>
               \/ /\ Len(pending) >= BufferRecords
                  /\ Flushed(pending)
                  /\ UNCHANGED status
               \/ /\ Len(pending) >= BufferRecords
                  /\ FlushThrows(pending)
                  /\ status' = "unwinding"
        /\ UNCHANGED <<line, rest, job, printed>>

\* fclose, whose result is ignored: what the C library still held may be lost.
Close(written) == file' \in {written} \union
                    (IF "close" \in Failures
                     THEN {SubSeq(written, 1, n) : n \in 0 .. Len(written)} ELSE {})

\* main calls close() when the workload is done.
Finish == /\ status = "emitting" /\ todo = <<>>
          /\ Close(file \o buffer)
          /\ buffer' = <<>>
          /\ status' = "exit 0"
          /\ UNCHANGED <<line, rest, job, todo, printed>>

FinishThrows == /\ status = "emitting" /\ todo = <<>> /\ buffer # <<>>
                /\ FlushThrows(buffer)
                /\ status' = "unwinding"
                /\ UNCHANGED <<line, rest, job, todo, printed>>

\* ~TraceWriter calls close() while the exception is on its way to main.
Destroy == /\ status = "unwinding"
           /\ Close(file \o buffer)
           /\ buffer' = <<>>
           /\ status' = "exit 1"
           /\ UNCHANGED <<line, rest, job, todo, printed>>

\* A second exception, out of a destructor: std::terminate.
DestroyThrows == /\ status = "unwinding"
                 /\ FlushThrows(buffer)
                 /\ status' = "aborted"
                 /\ UNCHANGED <<line, rest, job, todo, printed>>

Next == \/ Argument \/ Reject \/ RunNative
        \/ Open \/ Emit \/ Finish \/ FinishThrows \/ Destroy \/ DestroyThrows

Spec == Init /\ [][Next]_vars

-----------------------------------------------------------------------------

Succeeded == status = "exit 0"

Asked == AskedBy(line)

\* When tracegen reports success the trace of the parameters that were asked for
\* is all there, once and in order, or else the result of the native run is:
\* what ensure_trace relies on when it writes the stamp (experiments/perfsim.py:
\* 104-105).  An error of a write must reach the exit status through emit, flush,
\* the destructor and main (trace.cpp:202-220, main.cpp:147-150).
SuccessIsComplete ==
  Succeeded =>
    CASE Asked.mode = "trace"  -> file = Header \o Emission(Asked) /\ printed = <<>>
      [] Asked.mode = "native" -> file = <<>> /\ Len(printed) = 1
      [] OTHER                 -> FALSE

\* The records of a trace that are accesses.
AccessesIn(trace) ==
  FlattenSeq([p \in DOMAIN trace |-> IF trace[p].type \in {"R", "W", "L"}
                                     THEN <<trace[p]>> ELSE <<>>])

Accesses == AccessesIn(file)

\* The trace makes the accesses of the real kernel, load by load and store by
\* store, over memory in which its arrays lie element after element and no two of
\* them share a page.  Each workload is written twice, and keeping both in one file
\* is "what stops the trace and the real kernel from drifting apart"
\* (workloads.hpp:6-7 and 61-62, README.md:241-243).
TraceIsKernel ==
  Succeeded /\ job.mode = "trace" =>
    LET trace  == Accesses
        kernel == Native(job).accesses
        page(p) == trace[p].value \div PageSize
    IN  /\ Len(trace) = Len(kernel)
        /\ \A p \in DOMAIN trace : (trace[p].type = "W") <=> (kernel[p].kind = "store")
        /\ \A p, q \in DOMAIN trace :
             IF kernel[p].array = kernel[q].array
             THEN trace[p].value - trace[q].value
                    = (kernel[p].index - kernel[q].index) * ElementSize
             ELSE page(p) # page(q)

\* The chase is one cycle: between two visits of an element come all the others,
\* whatever the seed, "so the chase can never fall into a short loop"
\* (pointer_chase.cpp:20-21).
ChaseIsOneCycle ==
  Succeeded /\ job.mode = "trace" /\ job.workload = "pointer_chase" =>
    /\ Len(Accesses) = Total(job)
    /\ \A p \in 0 .. job.iterations - 1 :
         {Accesses[p * job.n + h].value : h \in 1 .. job.n}
           = {Element(x) : x \in 0 .. job.n - 1}

\* Whatever the block, the matrix kernel multiplies: its checksum is the sum of the
\* elements of the product, once per iteration, whether or not the block divides
\* the dimension; that is why a "mismatched checksum [is] a real bug signal"
\* (matrix.cpp:27-28 and 69-70, README.md:254-256).
MatrixIsProduct ==
  Succeeded /\ job.mode = "native" /\ job.workload = "matrix" =>
    LET indices  == 0 .. job.n - 1
        a(i, k)  == job.draws[2 * (i * job.n + k) + 1] % 65536
        b(k, j)  == job.draws[2 * (k * job.n + j) + 2] % 65536
        products == [v \in indices \X indices \X indices |-> a(v[1], v[2]) * b(v[2], v[3])]
    IN  printed = <<job.iterations * Sum(products)>>
=============================================================================
