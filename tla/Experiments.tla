---------------------------- MODULE Experiments ----------------------------
(***************************************************************************)
(* One sweep of an experiment script and the files it shares with the ones   *)
(* before and after it (experiments/perfsim.py, run_sweep and main in        *)
(* experiments/run_experiments.py): the trace of the workload, its stamp, the *)
(* configurations of the runs and the table of results.  A script reads       *)
(* WORKLOADS when it starts, generates the trace up front, lets a pool of     *)
(* threads do the runs of the plan, each in a perfsim process of its own, and  *)
(* writes the table.  Scripts run one after the other; between two of them,    *)
(* or while one runs, WORKLOADS may be edited.                              *)
(*                                                                         *)
(* A file is what was written to it and whether that was all; the stamp is the *)
(* text of the .params file.  A crash stops the script with all its threads    *)
(* and processes (an interrupt from the terminal does), and leaves the files   *)
(* as they are.                                                            *)
(***************************************************************************)
EXTENDS Integers, FiniteSets

CONSTANTS Specs,     \* the parameters the workload may be given
          Edits,     \* the pairs of parameters, old and new, of an edit
          Runs,      \* the length of the plan
          Workers,   \* the threads of the pool
          Main,      \* the main thread
          Names,     \* the names mkstemp may give
          NoFile,    \* the contents of a file that does not exist
          Empty,     \* those of one that was opened and not written yet
          Failures   \* whether scripts may crash and processes may fail

Plan == 1 .. Runs

ASSUME ExperimentsAssumption ==
  /\ Main \notin Workers
  /\ Edits \subseteq Specs \X Specs
  /\ {NoFile, Empty} \intersect (Specs \union Plan) = {} /\ NoFile # Empty
  /\ Runs \in Nat \ {0} /\ IsFiniteSet(Names) /\ Cardinality(Names) >= Cardinality(Workers)
  /\ Failures \in BOOLEAN

VARIABLES workloads,  \* the parameters in the source of perfsim.py
          wanted,     \* those the running script has read
          trace,      \* the .trace file
          stamp,      \* the .params file
          pc,         \* where each thread of the script is
          futures,    \* what has become of each run of the plan
          job,        \* the run a thread is at, its configuration file, its outcome
          config,     \* the configuration files: the run each is for
          table       \* the table in results/

sources == <<workloads, wanted>>
traces  == <<trace, stamp>>
pool    == <<futures, job, config>>
vars    == <<sources, traces, pc, pool, table>>

Threads == {Main} \union Workers

Trace(spec, complete) == [spec |-> spec, complete |-> complete]

\* A run that is over has read the configuration of some run and some trace.
Future(state, run, read) == [state |-> state, run |-> run, trace |-> read]
Unread  == Trace(NoFile, FALSE)
Pending == Future("pending", 0, Unread)
Running == Future("running", 0, Unread)
Failed  == Future("failed", 0, Unread)
Cancel  == Future("cancelled", 0, Unread)

Job(run, name, outcome) == [run |-> run, name |-> name, outcome |-> outcome]
NoJob == Job(0, NoFile, Pending)

Init == /\ workloads \in Specs
        /\ wanted = workloads
        /\ trace = Unread
        /\ stamp = NoFile
        /\ pc = [t \in Threads |-> "idle"]
        /\ futures = [r \in Plan |-> Pending]
        /\ job = [w \in Workers |-> NoJob]
        /\ config = [n \in Names |-> NoFile]
        /\ table = [rows |-> [r \in Plan |-> Pending], spec |-> NoFile, complete |-> FALSE]

Goto(t, place) == pc' = [pc EXCEPT ![t] = place]

-----------------------------------------------------------------------------
(* ensure_trace.                                                            *)

Cached == trace # Unread /\ stamp = wanted

Check(t) == /\ pc[t] = "check"
            /\ Goto(t, IF Cached THEN "ready" ELSE "generate")
            /\ UNCHANGED <<sources, traces, pool, table>>

\* Mutant: the stamp is written when the generation starts.
OpenTraceStamped(t) == /\ pc[t] = "generate"
                       /\ trace' = Trace(wanted, FALSE)
                       /\ stamp' = wanted
                       /\ Goto(t, "write")
                       /\ UNCHANGED <<sources, pool, table>>

\* tracegen opens the file for writing, which truncates it.
OpenTrace(t) == /\ pc[t] = "generate"
                /\ trace' = Trace(wanted, FALSE)
                /\ Goto(t, "write")
                /\ UNCHANGED <<sources, stamp, pool, table>>

FinishTrace(t) == /\ pc[t] = "write"
                  /\ trace' = Trace(wanted, TRUE)
                  /\ Goto(t, "stamp")
                  /\ UNCHANGED <<sources, stamp, pool, table>>

\* stamp.write_text opens, and so empties, the file and then writes it.
OpenStamp(t) == /\ pc[t] = "stamp" /\ stamp # Empty
                /\ stamp' = Empty
                /\ UNCHANGED <<sources, trace, pc, pool, table>>

WriteStamp(t) == /\ pc[t] = "stamp" /\ stamp = Empty
                 /\ stamp' = wanted
                 /\ Goto(t, "ready")
                 /\ UNCHANGED <<sources, trace, pool, table>>

EnsureTrace(t) == Check(t) \/ OpenTrace(t) \/ FinishTrace(t) \/ OpenStamp(t) \/ WriteStamp(t)

\* Where ensure_trace may fail: tracegen exits with an error, before or after it opened
\* the file, of which check=True makes an exception; or the stamp cannot be written.
Generating == {"generate", "write", "stamp"}

-----------------------------------------------------------------------------
(* run_simulation in a thread of the pool.                                   *)

\* Runs are taken in the order of the plan; each calls ensure_trace again.
Take(w) ==
  \E run \in Plan :
    /\ pc[Main] \in {"ready", "failed"} /\ pc[w] = "idle"
    /\ futures[run] = Pending
    /\ \A r \in Plan : futures[r] = Pending => run <= r
    /\ futures' = [futures EXCEPT ![run] = Running]
    /\ job' = [job EXCEPT ![w] = Job(run, NoFile, Pending)]
    /\ Goto(w, "check")
    /\ UNCHANGED <<sources, traces, config, table>>

Holding(w, name, outcome) == job' = [job EXCEPT ![w] = Job(job[w].run, name, outcome)]

\* Mutant: the configuration goes to a file of a fixed name.
MkstempFixed(w) ==
  LET name == CHOOSE n \in Names : TRUE
  IN  /\ pc[w] = "ready"
      /\ config' = [config EXCEPT ![name] = Empty]
      /\ Holding(w, name, Running)
      /\ Goto(w, "configure")
      /\ UNCHANGED <<sources, traces, futures, table>>

\* mkstemp creates a file of a name that no file has.
Mkstemp(w) ==
  \E name \in Names :
    /\ pc[w] = "ready"
    /\ config[name] = NoFile
    /\ config' = [config EXCEPT ![name] = Empty]
    /\ Holding(w, name, Running)
    /\ Goto(w, "configure")
    /\ UNCHANGED <<sources, traces, futures, table>>

WriteConfig(w) == /\ pc[w] = "configure"
                  /\ config' = [config EXCEPT ![job[w].name] = job[w].run]
                  /\ Goto(w, "launch")
                  /\ UNCHANGED <<sources, traces, futures, job, table>>

\* perfsim reads its configuration, and fails when there is none.
ReadConfig(w) ==
  LET read == config[job[w].name]
  IN  /\ pc[w] = "launch"
      /\ IF read \in Plan
         THEN Holding(w, job[w].name, Future("running", read, Unread)) /\ Goto(w, "simulate")
         ELSE Holding(w, job[w].name, Failed) /\ Goto(w, "unlink")
      /\ UNCHANGED <<sources, traces, futures, config, table>>

\* perfsim has read the trace to its end and exits with 0.
ReadTrace(w) == /\ pc[w] = "simulate"
                /\ Holding(w, job[w].name, Future("done", job[w].outcome.run, trace))
                /\ Goto(w, "unlink")
                /\ UNCHANGED <<sources, traces, futures, config, table>>

\* The finally clause; after it the future has the row or the exception.
Unlink(w) ==
  LET name == job[w].name
  IN  /\ pc[w] = "unlink"
      /\ config' = [config EXCEPT ![name] = NoFile]
      /\ futures' = [futures EXCEPT ![job[w].run] =
                       IF config[name] = NoFile THEN Failed ELSE job[w].outcome]
      /\ job' = [job EXCEPT ![w] = NoJob]
      /\ Goto(w, "idle")
      /\ UNCHANGED <<sources, traces, table>>

WorkerStep(w) == \/ Take(w) \/ EnsureTrace(w) \/ Mkstemp(w) \/ WriteConfig(w)
                 \/ ReadConfig(w) \/ ReadTrace(w) \/ Unlink(w)

\* Mutant: an exception ends the thread and nobody hears of it.
FailSilently(w) ==
  /\ Failures
  /\ \/ /\ pc[w] \in Generating
        /\ job' = [job EXCEPT ![w] = NoJob]
        /\ Goto(w, "idle")
     \/ /\ pc[w] \in {"configure", "launch", "simulate"}
        /\ Holding(w, job[w].name, Running)
        /\ Goto(w, "unlink")
  /\ UNCHANGED <<sources, traces, futures, config, table>>

\* ensure_trace fails; or the configuration cannot be written, or perfsim fails, of
\* which check=True makes an exception, and the finally clause is still to come.
FailRun(w) ==
  /\ Failures
  /\ \/ /\ pc[w] \in Generating
        /\ futures' = [futures EXCEPT ![job[w].run] = Failed]
        /\ job' = [job EXCEPT ![w] = NoJob]
        /\ Goto(w, "idle")
     \/ /\ pc[w] \in {"configure", "launch", "simulate"}
        /\ Holding(w, job[w].name, Failed)
        /\ Goto(w, "unlink")
        /\ UNCHANGED futures
  /\ UNCHANGED <<sources, traces, config, table>>

-----------------------------------------------------------------------------
(* The script.                                                              *)

\* Python imports perfsim, and main calls ensure_trace.
Start == /\ \A t \in Threads : pc[t] = "idle"
         /\ wanted' = workloads
         /\ futures' = [r \in Plan |-> Pending]
         /\ Goto(Main, "check")
         /\ UNCHANGED <<workloads, traces, job, config, table>>

\* The trace cannot be generated, or the table not written: the script ends.
FailMain == /\ Failures /\ pc[Main] \in Generating \union {"tabulate"}
            /\ Goto(Main, "idle")
            /\ UNCHANGED <<sources, traces, pool, table>>

\* list(pool.map(...)) asks the futures in order; the first exception cancels the runs
\* that nobody has begun.
Raise == /\ pc[Main] = "ready"
         /\ \E r \in Plan : /\ futures[r] = Failed
                            /\ \A q \in 1 .. r-1 : futures[q].state = "done"
         /\ futures' = [r \in Plan |-> IF futures[r] = Pending THEN Cancel ELSE futures[r]]
         /\ Goto(Main, "failed")
         /\ UNCHANGED <<sources, traces, job, config, table>>

\* Leaving the pool waits for the threads; then the exception ends the script.
Abandon == /\ pc[Main] = "failed"
           /\ \A w \in Workers : pc[w] = "idle"
           /\ Goto(Main, "idle")
           /\ UNCHANGED <<sources, traces, pool, table>>

\* All rows are there: write_table opens, and so empties, the file and writes it.
OpenTable == /\ pc[Main] = "ready"
             /\ \A r \in Plan : futures[r].state = "done"
             /\ table' = [rows |-> futures, spec |-> wanted, complete |-> FALSE]
             /\ Goto(Main, "tabulate")
             /\ UNCHANGED <<sources, traces, pool>>

FinishTable == /\ pc[Main] = "tabulate"
               /\ table' = [table EXCEPT !.complete = TRUE]
               /\ Goto(Main, "idle")
               /\ UNCHANGED <<sources, traces, pool>>

MainStep == EnsureTrace(Main) \/ Raise \/ Abandon \/ OpenTable \/ FinishTable

\* Everything stops at once.  Configuration files that are left over keep their names
\* and are never looked at again, so that they can be forgotten.
Crash == /\ Failures
         /\ pc[Main] # "idle"
         /\ pc' = [t \in Threads |-> "idle"]
         /\ job' = [w \in Workers |-> NoJob]
         /\ config' = [n \in Names |-> NoFile]
         /\ UNCHANGED <<sources, traces, futures, table>>

Edit == /\ \E edit \in Edits : workloads = edit[1] /\ workloads' = edit[2]
        /\ UNCHANGED <<wanted, traces, pc, pool, table>>

Next == \/ Start \/ MainStep \/ FailMain \/ Crash \/ Edit
        \/ \E w \in Workers : WorkerStep(w) \/ FailRun(w)

\* Threads are scheduled and the processes they wait for end.
Spec == Init /\ [][Next]_vars /\ WF_vars(MainStep) /\ \A w \in Workers : WF_vars(WorkerStep(w))

-----------------------------------------------------------------------------

\* Whoever has asked for the trace and is not done with it has a complete trace of the
\* parameters the script has read: "changing a workload's parameters regenerates it
\* rather than silently reusing stale data" (README.md:731-733, perfsim.py:87-88), and
\* no thread of the pool writes it while another reads.
SimulatesWanted ==
  \A t \in Threads :
    pc[t] \in {"ready", "configure", "launch", "simulate"} => trace = Trace(wanted, TRUE)

\* A complete table has one row for every run of the plan, in its order, and each row is
\* that of a simulation of its own configuration and of the whole trace the script wanted:
\* no run has read the file of another, none has failed, none is missing.  A sweep that
\* fails leaves the table of an earlier one alone (run_experiments.py:119-155).
TableIsThePlan ==
  table.complete =>
    \A r \in Plan : table.rows[r] = Future("done", r, Trace(table.spec, TRUE))

\* A script ends, with its table or without: no exception in a thread leaves the main
\* thread waiting for a run that will not come (run_experiments.py:144-145).
SweepEnds == pc[Main] # "idle" ~> pc[Main] = "idle"
=============================================================================
