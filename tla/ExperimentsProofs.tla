------------------------- MODULE ExperimentsProofs -------------------------
(***************************************************************************)
(* Theorems about Experiments: as long as parameters once given up do not    *)
(* come back, nothing but the whole trace of the wanted parameters is         *)
(* simulated and a complete table is that of the plan, for any parameters,    *)
(* any plan and any number of threads, wherever scripts crash and processes   *)
(* fail.  And one about Perfcount, which the scripts measure commands with: a *)
(* reported value covers the whole command, for any number of counters and   *)
(* whichever of its two processes is killed.                                 *)
(***************************************************************************)
EXTENDS Experiments, Perfcount, TLAPS

\* Edits order the parameters they lead through: no sequence of them leads back.
ForwardEdits ==
  /\ \A spec \in Specs : <<spec, spec>> \notin Edits
  /\ \A old, mid, new \in Specs :
       <<old, mid>> \in Edits /\ <<mid, new>> \in Edits => <<old, new>> \in Edits

\* One is the other or was edited into it.
UpTo(old, new) == old = new \/ <<old, new>> \in Edits

-----------------------------------------------------------------------------
(* The inductive invariant.                                                 *)

Places == {"idle", "check", "generate", "write", "stamp", "ready", "configure", "launch",
           "simulate", "unlink", "failed", "tabulate"}

SomeTrace  == [spec : Specs \union {NoFile}, complete : BOOLEAN]
SomeFuture == [state : {"pending", "running", "failed", "cancelled", "done"},
               run : 0 .. Runs, trace : SomeTrace]
SomeJob    == [run : 0 .. Runs, name : Names \union {NoFile}, outcome : SomeFuture]

Typed == /\ workloads \in Specs /\ wanted \in Specs
         /\ trace \in SomeTrace /\ (trace.spec = NoFile => trace = Unread)
         /\ stamp \in Specs \union {NoFile, Empty}
         /\ pc \in [Threads -> Places]
         /\ futures \in [Plan -> SomeFuture]
         /\ job \in [Workers -> SomeJob]
         /\ config \in [Names -> Plan \union {NoFile, Empty}]
         /\ table \in [rows : [Plan -> SomeFuture], spec : Specs \union {NoFile},
                       complete : BOOLEAN]

\* The trace and its stamp are never ahead of the script, nor the stamp of the trace; and
\* a stamp that vouches for the parameters of a trace vouches for a whole one.
FilesInOrder ==
  /\ UpTo(wanted, workloads)
  /\ trace # Unread => UpTo(trace.spec, wanted)
  /\ stamp \in Specs => /\ trace # Unread /\ UpTo(stamp, trace.spec)
                        /\ stamp = trace.spec => trace.complete

\* Where the main thread can be, and how far the trace is then.
Generated == trace = Trace(wanted, TRUE) /\ stamp = wanted

MainPlace ==
  \/ pc[Main] \in {"idle", "check"}
  \/ pc[Main] = "generate" /\ ~Cached
  \/ pc[Main] = "write" /\ trace = Trace(wanted, FALSE)
  \/ pc[Main] = "stamp" /\ trace = Trace(wanted, TRUE)
  \/ pc[Main] \in {"ready", "failed", "tabulate"} /\ Generated

\* The threads of the pool are at work only while the main thread waits for them, so
\* that they find the trace generated.
Atwork(w) == pc[w] # "idle"

WorkerPlace(w) ==
  /\ pc[w] \in {"idle", "check", "ready", "configure", "launch", "simulate", "unlink"}
  /\ Atwork(w) => pc[Main] \in {"ready", "failed"}

\* Every thread at work has a run and, once it asked for one, a file of its own.
HasFile(w) == pc[w] \in {"configure", "launch", "simulate", "unlink"}

OwnRun(w) ==
  Atwork(w) => /\ job[w].run \in Plan /\ futures[job[w].run] = Running
               /\ \A v \in Workers \ {w} : Atwork(v) => job[v].run # job[w].run

OwnFile(w) ==
  HasFile(w) => /\ job[w].name \in Names /\ config[job[w].name] # NoFile
                /\ \A v \in Workers \ {w} : HasFile(v) => job[v].name # job[w].name

\* What has been read is that of the run.
Row(r, spec) == Future("done", r, Trace(spec, TRUE))

OwnRow(w) ==
  /\ pc[w] = "launch" => config[job[w].name] = job[w].run
  /\ pc[w] = "simulate" => job[w].outcome.run = job[w].run
  /\ pc[w] = "unlink" => job[w].outcome \in {Failed, Row(job[w].run, wanted)}

RowsRight ==
  /\ \A r \in Plan : futures[r].state = "done" => futures[r] = Row(r, wanted)
  /\ table.complete \/ pc[Main] = "tabulate" =>
       \A r \in Plan : table.rows[r] = Row(r, table.spec)

PoolRight == \A w \in Workers : WorkerPlace(w) /\ OwnRun(w) /\ OwnFile(w) /\ OwnRow(w)

Inv == Typed /\ FilesInOrder /\ MainPlace /\ RowsRight /\ PoolRight

-----------------------------------------------------------------------------
(* Facts used by every step.                                                *)

\* The names that stand for files without contents are not parameters.
LEMMA Distinct == /\ NoFile \notin Specs /\ Empty \notin Specs /\ NoFile # Empty
                  /\ NoFile \notin Plan /\ Empty \notin Plan /\ Main \notin Workers
  BY ExperimentsAssumption

\* The outcomes of runs are outcomes.
LEMMA OutcomesTyped ==
  /\ {Pending, Running, Failed, Cancel} \subseteq SomeFuture
  /\ \A r \in 0 .. Runs, spec \in Specs, complete \in BOOLEAN :
       Future("done", r, Trace(spec, complete)) \in SomeFuture
  /\ \A r \in 0 .. Runs : Future("running", r, Unread) \in SomeFuture
  /\ 0 \in 0 .. Runs /\ Plan \subseteq 0 .. Runs
<1>1. 0 \in 0 .. Runs /\ Plan \subseteq 0 .. Runs
  BY ExperimentsAssumption DEF Plan
<1> QED
  BY <1>1 DEF SomeFuture, SomeTrace, Pending, Running, Failed, Cancel, Future, Unread, Trace

\* With no thread at work there is nothing to say about the pool.
LEMMA IdlePool ==
  ASSUME \A w \in Workers : pc'[w] = "idle"
  PROVE  PoolRight'
  BY DEF PoolRight, WorkerPlace, OwnRun, OwnFile, OwnRow, Atwork, HasFile

\* No thread is at work unless the main thread waits for them.
LEMMA NobodyAtwork ==
  ASSUME Inv, pc[Main] \notin {"ready", "failed"}
  PROVE  \A w \in Workers : pc[w] = "idle"
  BY DEF Inv, PoolRight, WorkerPlace, Atwork

\* Init establishes the invariant.
LEMMA InitEstablishesInv == Init => Inv
<1> SUFFICES ASSUME Init PROVE Inv
  OBVIOUS
<1>1. /\ \A w \in Workers : pc[w] = "idle"
      /\ pc[Main] = "idle"
  BY DEF Init, Threads
<1>2. Typed
  <2>1. Pending \in SomeFuture /\ NoJob \in SomeJob /\ Unread \in SomeTrace
    BY OutcomesTyped DEF NoJob, Job, SomeJob, Unread, Trace, SomeTrace
  <2>2. /\ workloads \in Specs /\ wanted \in Specs /\ stamp \in Specs \union {NoFile, Empty}
        /\ trace \in SomeTrace /\ (trace.spec = NoFile => trace = Unread)
    BY <2>1 DEF Init
  <2>5. pc \in [Threads -> Places]
    BY DEF Init, Places
  <2>6. config \in [Names -> Plan \union {NoFile, Empty}]
    BY DEF Init
  <2>3. futures \in [Plan -> SomeFuture] /\ job \in [Workers -> SomeJob]
    BY <2>1 DEF Init
  <2>4. table \in [rows : [Plan -> SomeFuture], spec : Specs \union {NoFile}, complete : BOOLEAN]
    BY <2>1 DEF Init
  <2> QED
    BY <2>2, <2>3, <2>4, <2>5, <2>6 DEF Typed
<1>3. FilesInOrder
  BY Distinct DEF Init, FilesInOrder, UpTo
<1>4. MainPlace
  BY <1>1 DEF MainPlace
<1>5. RowsRight
  BY <1>1 DEF Init, RowsRight, Pending, Future
<1>6. PoolRight
  BY <1>1 DEF PoolRight, WorkerPlace, OwnRun, OwnFile, OwnRow, Atwork, HasFile
<1> QED
  BY <1>2, <1>3, <1>4, <1>5, <1>6 DEF Inv

-----------------------------------------------------------------------------
(* ensure_trace.                                                            *)

\* A trace that is taken for the wanted one is: the stamp is not ahead of the trace nor
\* the trace ahead of the script.
LEMMA CachedIsGenerated == ForwardEdits /\ Inv /\ Cached => Generated
<1> SUFFICES ASSUME ForwardEdits, Inv, Cached PROVE Generated
  OBVIOUS
<1>1. trace # Unread /\ stamp = wanted /\ wanted \in Specs
  BY DEF Cached, Inv, Typed
<1>2. trace \in SomeTrace /\ trace.spec \in Specs
  BY <1>1 DEF Inv, Typed, SomeTrace
<1>3. UpTo(wanted, trace.spec) /\ UpTo(trace.spec, wanted)
  BY <1>1 DEF Inv, FilesInOrder
<1>4. trace.spec = wanted
  BY <1>1, <1>2, <1>3 DEF UpTo, ForwardEdits
<1>5. trace.complete = TRUE
  BY <1>1, <1>2, <1>4 DEF Inv, FilesInOrder, SomeTrace
<1> QED
  BY <1>1, <1>2, <1>4, <1>5 DEF Generated, Trace, SomeTrace

\* Until then the stamp is one that the parameters have left behind.
LEMMA StaleStamp == ASSUME ForwardEdits, Inv, ~Cached, stamp \in Specs
                    PROVE  stamp # wanted /\ UpTo(stamp, wanted)
<1>1. trace # Unread /\ UpTo(stamp, trace.spec) /\ UpTo(trace.spec, wanted)
  BY DEF Inv, FilesInOrder
<1>2. trace.spec \in Specs /\ wanted \in Specs
  BY <1>1 DEF Inv, Typed, SomeTrace
<1> QED
  BY <1>1, <1>2 DEF Cached, UpTo, ForwardEdits

\* In the main thread: the stamp stays behind the trace until the trace is whole.
LEMMA MainGenerates == ForwardEdits /\ Inv /\ EnsureTrace(Main) => Inv'
<1> SUFFICES ASSUME ForwardEdits, Inv, EnsureTrace(Main) PROVE Inv'
  OBVIOUS
<1>1. /\ Main \in Threads /\ UNCHANGED <<sources, pool, table>>
      /\ pc[Main] \in {"check", "generate", "write", "stamp"}
  BY DEF EnsureTrace, Check, OpenTrace, FinishTrace, OpenStamp, WriteStamp, Threads,
         traces, pool, sources
<1>2. UNCHANGED <<workloads, wanted, futures, job, config, table>>
  BY <1>1 DEF sources, pool
<1>3. pc[Main] # "ready" /\ pc[Main] # "failed"
  BY <1>1
<1>4. \A w \in Workers : pc[w] = "idle"
  BY <1>3, NobodyAtwork
<1>5. wanted \in Specs /\ Typed /\ FilesInOrder /\ MainPlace /\ RowsRight
  BY DEF Inv, Typed
<1>6. ASSUME pc' \in [Threads -> Places], \A w \in Workers : pc'[w] = pc[w],
             trace' \in SomeTrace, trace'.spec = NoFile => trace' = Unread,
             stamp' \in Specs \union {NoFile, Empty},
             FilesInOrder', MainPlace', pc'[Main] # "tabulate"
      PROVE  Inv'
  <2>1. Typed'
    BY <1>2, <1>5, <1>6 DEF Typed
  <2>2. RowsRight'
    BY <1>2, <1>5, <1>6 DEF RowsRight
  <2>3. PoolRight'
    BY <1>4, <1>6, IdlePool
  <2> QED
    BY <1>6, <2>1, <2>2, <2>3 DEF Inv
<1>7. pc \in [Threads -> Places] /\ Main \notin Workers /\ Workers \subseteq Threads
  BY <1>5, Distinct DEF Typed, Threads
<1>8. CASE Check(Main)
  <2>1. Goto(Main, IF Cached THEN "ready" ELSE "generate") /\ trace' = trace /\ stamp' = stamp
    BY <1>8 DEF Check, traces
  <2>2. /\ pc' \in [Threads -> Places] /\ pc'[Main] = IF Cached THEN "ready" ELSE "generate"
        /\ \A w \in Workers : pc'[w] = pc[w]
    BY <1>1, <1>7, <2>1 DEF Goto, Places
  <2>3. MainPlace'
    BY <1>2, <2>1, <2>2, CachedIsGenerated DEF MainPlace, Generated, Cached
  <2>4. FilesInOrder'
    BY <1>2, <1>5, <2>1 DEF FilesInOrder
  <2> QED
    BY <1>5, <1>6, <2>1, <2>2, <2>3, <2>4 DEF Typed
<1>9. CASE OpenTrace(Main)
  <2>1. /\ pc[Main] = "generate" /\ trace' = Trace(wanted, FALSE) /\ stamp' = stamp
        /\ Goto(Main, "write")
    BY <1>9 DEF OpenTrace
  <2>2. /\ pc' \in [Threads -> Places] /\ pc'[Main] = "write"
        /\ \A w \in Workers : pc'[w] = pc[w]
    BY <1>1, <1>7, <2>1 DEF Goto, Places
  <2>3. MainPlace'
    BY <1>2, <2>1, <2>2 DEF MainPlace
  <2>4. ~Cached
    BY <1>5, <2>1 DEF MainPlace
  <2>5. trace' # Unread /\ trace'.spec = wanted
    BY <1>5, <2>1, Distinct DEF Unread, Trace
  <2>6. FilesInOrder'
    BY <1>2, <1>5, <2>1, <2>4, <2>5, StaleStamp DEF FilesInOrder, UpTo
  <2> QED
    BY <1>5, <1>6, <2>1, <2>2, <2>3, <2>5, <2>6, Distinct DEF Typed, SomeTrace, Trace
<1>10. CASE FinishTrace(Main)
  <2>1. /\ pc[Main] = "write" /\ trace' = Trace(wanted, TRUE) /\ stamp' = stamp
        /\ Goto(Main, "stamp")
    BY <1>10 DEF FinishTrace
  <2>2. /\ pc' \in [Threads -> Places] /\ pc'[Main] = "stamp"
        /\ \A w \in Workers : pc'[w] = pc[w]
    BY <1>1, <1>7, <2>1 DEF Goto, Places
  <2>3. MainPlace'
    BY <1>2, <2>1, <2>2 DEF MainPlace
  <2>4. trace.spec = wanted /\ trace'.spec = wanted /\ trace'.complete /\ trace' # Unread
    BY <1>5, <2>1, Distinct DEF MainPlace, Trace, Unread
  <2>5. FilesInOrder'
    BY <1>2, <1>5, <2>1, <2>4 DEF FilesInOrder, UpTo
  <2> QED
    BY <1>5, <1>6, <2>1, <2>2, <2>3, <2>4, <2>5, Distinct DEF Typed, SomeTrace, Trace
<1>11. CASE OpenStamp(Main)
  <2>1. pc[Main] = "stamp" /\ stamp' = Empty /\ trace' = trace /\ pc' = pc
    BY <1>11 DEF OpenStamp
  <2>2. MainPlace'
    BY <1>2, <1>5, <2>1 DEF MainPlace
  <2>3. FilesInOrder'
    BY <1>2, <1>5, <2>1, Distinct DEF FilesInOrder
  <2> QED
    BY <1>5, <1>6, <2>1, <2>2, <2>3 DEF Typed
<1>12. CASE WriteStamp(Main)
  <2>1. /\ pc[Main] = "stamp" /\ stamp' = wanted /\ trace' = trace /\ Goto(Main, "ready")
    BY <1>12 DEF WriteStamp
  <2>2. /\ pc' \in [Threads -> Places] /\ pc'[Main] = "ready"
        /\ \A w \in Workers : pc'[w] = pc[w]
    BY <1>1, <1>7, <2>1 DEF Goto, Places
  <2>3. trace = Trace(wanted, TRUE)
    BY <1>5, <2>1 DEF MainPlace
  <2>4. MainPlace'
    BY <1>2, <2>1, <2>2, <2>3 DEF MainPlace, Generated
  <2>5. trace.spec = wanted /\ trace.complete /\ trace # Unread
    BY <1>5, <2>3, Distinct DEF Trace, Unread
  <2>6. FilesInOrder'
    BY <1>2, <1>5, <2>1, <2>5 DEF FilesInOrder, UpTo
  <2> QED
    BY <1>5, <1>6, <2>1, <2>2, <2>4, <2>6 DEF Typed
<1> QED
  BY <1>8, <1>9, <1>10, <1>11, <1>12 DEF EnsureTrace

-----------------------------------------------------------------------------
(* The other steps of the script.                                           *)

\* Beginning a script: what was to do is forgotten, and the parameters are the new ones.
LEMMA StartKeepsInv == ForwardEdits /\ Inv /\ Start => Inv'
<1> SUFFICES ASSUME ForwardEdits, Inv, Start PROVE Inv'
  OBVIOUS
<1>1. /\ wanted' = workloads /\ futures' = [r \in Plan |-> Pending]
      /\ UNCHANGED <<workloads, trace, stamp, job, config, table>>
      /\ pc' = [pc EXCEPT ![Main] = "check"] /\ \A t \in Threads : pc[t] = "idle"
  BY DEF Start, Goto, traces
<1>2. Typed /\ FilesInOrder /\ RowsRight
  BY DEF Inv
<1>3. /\ pc' \in [Threads -> Places] /\ pc'[Main] = "check"
      /\ \A w \in Workers : pc'[w] = "idle"
  BY <1>1, <1>2, Distinct DEF Typed, Threads, Places
<1>4. Typed'
  <2>1. futures' \in [Plan -> SomeFuture]
    BY <1>1, OutcomesTyped
  <2> QED
    BY <1>1, <1>2, <1>3, <2>1 DEF Typed
<1>5. FilesInOrder'
  <2>1. trace # Unread => trace.spec \in Specs
    BY <1>2 DEF Typed, SomeTrace
  <2>2. trace # Unread => UpTo(trace.spec, workloads)
    BY <1>2, <2>1 DEF Typed, FilesInOrder, UpTo, ForwardEdits
  <2> QED
    BY <1>1, <1>2, <2>2 DEF FilesInOrder, UpTo
<1>6. MainPlace'
  BY <1>3 DEF MainPlace
<1>7. RowsRight'
  <2>1. \A r \in Plan : futures'[r].state # "done"
    BY <1>1 DEF Pending, Future
  <2>2. pc[Main] = "idle"
    BY <1>1 DEF Threads
  <2> QED
    BY <1>1, <1>2, <1>3, <2>1, <2>2 DEF RowsRight
<1>8. PoolRight'
  BY <1>3, IdlePool
<1> QED
  BY <1>4, <1>5, <1>6, <1>7, <1>8 DEF Inv

\* WORKLOADS may move on at any time; nothing else does.
LEMMA EditKeepsInv == ForwardEdits /\ Inv /\ Edit => Inv'
<1> SUFFICES ASSUME ForwardEdits, Inv, Edit PROVE Inv'
  OBVIOUS
<1>1. PICK edit \in Edits : workloads = edit[1] /\ workloads' = edit[2]
  BY DEF Edit
<1>2. UNCHANGED <<wanted, trace, stamp, pc, futures, job, config, table>>
  BY DEF Edit, traces, pool
<1>3. workloads' \in Specs /\ <<workloads, workloads'>> \in Edits
  BY <1>1, ExperimentsAssumption
<1>4. UpTo(wanted, workloads')
  BY <1>3 DEF Inv, Typed, FilesInOrder, UpTo, ForwardEdits
<1>5. Typed' /\ FilesInOrder'
  BY <1>2, <1>3, <1>4 DEF Inv, Typed, FilesInOrder
<1>6. MainPlace' /\ RowsRight'
  BY <1>2 DEF Inv, MainPlace, Generated, Cached, RowsRight
<1>7. PoolRight'
  BY <1>2 DEF Inv, PoolRight, WorkerPlace, OwnRun, OwnFile, OwnRow, Atwork, HasFile
<1> QED
  BY <1>5, <1>6, <1>7 DEF Inv

\* The script is at its end, whatever brought it there.
LEMMA EndKeepsInv ==
  ASSUME Inv, pc' \in [Threads -> Places], \A t \in Threads : pc'[t] = "idle",
         UNCHANGED <<workloads, wanted, trace, stamp, futures>>,
         job' \in [Workers -> SomeJob], config' \in [Names -> Plan \union {NoFile, Empty}],
         table' = table \/ (pc[Main] = "tabulate" /\ table' = [table EXCEPT !.complete = TRUE])
  PROVE  Inv'
<1>1. Typed /\ FilesInOrder /\ RowsRight
  BY DEF Inv
<1>2. pc'[Main] = "idle" /\ \A w \in Workers : pc'[w] = "idle"
  BY DEF Threads
<1>3. table.rows = table'.rows /\ table'.spec = table.spec
  BY <1>1 DEF Typed
<1>4. table' \in [rows : [Plan -> SomeFuture], spec : Specs \union {NoFile}, complete : BOOLEAN]
  BY <1>1 DEF Typed
<1>5. Typed'
  BY <1>1, <1>4 DEF Typed
<1>6. FilesInOrder' /\ MainPlace'
  BY <1>1, <1>2 DEF FilesInOrder, MainPlace
<1>7. RowsRight'
  BY <1>1, <1>2, <1>3 DEF RowsRight
<1>8. PoolRight'
  BY <1>2, IdlePool
<1> QED
  BY <1>5, <1>6, <1>7, <1>8 DEF Inv

\* The ways a script ends.
LEMMA EndsKeepInv == Inv /\ (FailMain \/ Crash \/ Abandon \/ FinishTable) => Inv'
<1> SUFFICES ASSUME Inv, FailMain \/ Crash \/ Abandon \/ FinishTable PROVE Inv'
  OBVIOUS
<1>1. /\ pc \in [Threads -> Places] /\ Threads = {Main} \union Workers
      /\ job \in [Workers -> SomeJob] /\ config \in [Names -> Plan \union {NoFile, Empty}]
  BY DEF Inv, Typed, Threads
<1>2. CASE Crash
  <2>1. pc' \in [Threads -> Places] /\ \A t \in Threads : pc'[t] = "idle"
    BY <1>2 DEF Crash, Places
  <2>2. NoJob \in SomeJob
    BY OutcomesTyped DEF NoJob, Job, SomeJob
  <2>3. job' \in [Workers -> SomeJob] /\ config' \in [Names -> Plan \union {NoFile, Empty}]
    BY <1>2, <2>2 DEF Crash
  <2> QED
    BY <1>2, <2>1, <2>3, EndKeepsInv DEF Crash, sources, traces
<1>3. CASE FailMain \/ Abandon \/ FinishTable
  <2>1. /\ pc' = [pc EXCEPT ![Main] = "idle"]
        /\ UNCHANGED <<workloads, wanted, trace, stamp, futures, job, config>>
        /\ table' = table \/ (pc[Main] = "tabulate" /\ table' = [table EXCEPT !.complete = TRUE])
    BY <1>3 DEF FailMain, Abandon, FinishTable, Goto, sources, traces, pool
  <2>2. \A w \in Workers : pc[w] = "idle"
    <3>1. CASE Abandon
      BY <3>1 DEF Abandon
    <3>2. CASE FailMain \/ FinishTable
      <4>1. pc[Main] # "ready" /\ pc[Main] # "failed"
        BY <3>2 DEF FailMain, FinishTable, Generating
      <4> QED
        BY <4>1, NobodyAtwork
    <3> QED
      BY <1>3, <3>1, <3>2
  <2>3. pc' \in [Threads -> Places] /\ \A t \in Threads : pc'[t] = "idle"
    BY <1>1, <2>1, <2>2 DEF Places
  <2> QED
    BY <1>1, <2>1, <2>3, EndKeepsInv
<1> QED
  BY <1>2, <1>3

\* An exception: the runs that nobody has begun are cancelled, the others go on.
LEMMA RaiseKeepsInv == Inv /\ Raise => Inv'
<1> SUFFICES ASSUME Inv, Raise PROVE Inv'
  OBVIOUS
<1>1. /\ pc[Main] = "ready" /\ pc' = [pc EXCEPT ![Main] = "failed"]
      /\ futures' = [r \in Plan |-> IF futures[r] = Pending THEN Cancel ELSE futures[r]]
      /\ UNCHANGED <<workloads, wanted, trace, stamp, job, config, table>>
  BY DEF Raise, Goto, sources, traces
<1>2. Typed /\ FilesInOrder /\ MainPlace /\ RowsRight /\ PoolRight
  BY DEF Inv
<1>3. /\ pc' \in [Threads -> Places] /\ pc'[Main] = "failed"
      /\ \A w \in Workers : pc'[w] = pc[w]
  BY <1>1, <1>2, Distinct DEF Typed, Threads, Places
<1>4. Typed'
  <2>1. futures' \in [Plan -> SomeFuture]
    BY <1>1, <1>2, OutcomesTyped DEF Typed
  <2> QED
    BY <1>1, <1>2, <1>3, <2>1 DEF Typed
<1>5. FilesInOrder' /\ MainPlace'
  BY <1>1, <1>2, <1>3 DEF FilesInOrder, MainPlace, Generated
<1>6. \A r \in Plan : /\ futures'[r].state = "done" => futures'[r] = futures[r]
                      /\ futures[r] = Running => futures'[r] = Running
  BY <1>1 DEF Cancel, Running, Pending, Future
<1>7. RowsRight'
  BY <1>1, <1>2, <1>3, <1>6 DEF RowsRight
<1>8. PoolRight'
  BY <1>1, <1>2, <1>3, <1>6
     DEF PoolRight, WorkerPlace, OwnRun, OwnFile, OwnRow, Atwork, HasFile
<1> QED
  BY <1>4, <1>5, <1>7, <1>8 DEF Inv

\* When every run is done, no thread is at work and the rows are those of the plan.
LEMMA OpenTableKeepsInv == Inv /\ OpenTable => Inv'
<1> SUFFICES ASSUME Inv, OpenTable PROVE Inv'
  OBVIOUS
<1>1. /\ pc[Main] = "ready" /\ pc' = [pc EXCEPT ![Main] = "tabulate"]
      /\ \A r \in Plan : futures[r].state = "done"
      /\ table' = [rows |-> futures, spec |-> wanted, complete |-> FALSE]
      /\ UNCHANGED <<workloads, wanted, trace, stamp, futures, job, config>>
  BY DEF OpenTable, Goto, sources, traces, pool
<1>2. Typed /\ FilesInOrder /\ MainPlace /\ RowsRight /\ PoolRight
  BY DEF Inv
<1>3. \A w \in Workers : pc[w] = "idle"
  <2>1. \A r \in Plan : futures[r] # Running
    BY <1>1 DEF Running, Future
  <2> QED
    BY <1>2, <2>1 DEF PoolRight, OwnRun, Atwork
<1>4. /\ pc' \in [Threads -> Places] /\ pc'[Main] = "tabulate"
      /\ \A w \in Workers : pc'[w] = "idle"
  BY <1>1, <1>2, <1>3, Distinct DEF Typed, Threads, Places
<1>5. Typed'
  BY <1>1, <1>2, <1>4 DEF Typed
<1>6. FilesInOrder' /\ MainPlace'
  BY <1>1, <1>2, <1>4 DEF FilesInOrder, MainPlace, Generated
<1>7. RowsRight'
  BY <1>1, <1>2 DEF RowsRight
<1>8. PoolRight'
  BY <1>4, IdlePool
<1> QED
  BY <1>5, <1>6, <1>7, <1>8 DEF Inv

-----------------------------------------------------------------------------
(* The threads of the pool.                                                 *)

WithFile == {"configure", "launch", "simulate", "unlink"}

\* A thread has moved, with this job, and has left the others their runs and files.
LEMMA OthersUndisturbed ==
  ASSUME Inv, NEW w \in Workers, pc[Main] \in {"ready", "failed"},
         NEW place \in {"idle", "check", "ready"} \union WithFile, NEW new \in SomeJob,
         UNCHANGED <<workloads, wanted, trace, stamp, table>>,
         pc' = [pc EXCEPT ![w] = place], job' = [job EXCEPT ![w] = new],
         futures' \in [Plan -> SomeFuture], config' \in [Names -> Plan \union {NoFile, Empty}],
         \A v \in Workers \ {w} : Atwork(v) => futures'[job[v].run] = Running,
         \A v \in Workers \ {w} : HasFile(v) => config'[job[v].name] = config[job[v].name],
         \A r \in Plan : futures'[r].state = "done" => futures'[r] = Row(r, wanted),
         place # "idle" =>
           /\ new.run \in Plan /\ futures'[new.run] = Running
           /\ \A v \in Workers \ {w} : Atwork(v) => job[v].run # new.run,
         place \in WithFile =>
           /\ new.name \in Names /\ config'[new.name] # NoFile
           /\ \A v \in Workers \ {w} : HasFile(v) => job[v].name # new.name,
         place = "launch" => config'[new.name] = new.run,
         place = "simulate" => new.outcome.run = new.run,
         place = "unlink" => new.outcome \in {Failed, Row(new.run, wanted)}
  PROVE  Inv'
<1>1. Typed /\ FilesInOrder /\ MainPlace /\ RowsRight /\ PoolRight
  BY DEF Inv
<1>2. /\ pc' \in [Threads -> Places] /\ pc'[w] = place /\ pc'[Main] = pc[Main]
      /\ \A v \in Workers \ {w} : pc'[v] = pc[v]
  BY <1>1, Distinct DEF Typed, Threads, Places, WithFile
<1>3. /\ job' \in [Workers -> SomeJob] /\ job'[w] = new
      /\ \A v \in Workers \ {w} : job'[v] = job[v]
  BY <1>1 DEF Typed
<1>4. Typed'
  BY <1>1, <1>2, <1>3 DEF Typed
<1>5. FilesInOrder' /\ MainPlace'
  BY <1>1, <1>2 DEF FilesInOrder, MainPlace, Generated, Cached
<1>6. RowsRight'
  BY <1>1, <1>2 DEF RowsRight
<1>7. ASSUME NEW v \in Workers
      PROVE  WorkerPlace(v)' /\ OwnRun(v)' /\ OwnFile(v)' /\ OwnRow(v)'
  <2>1. CASE v = w
    <3>1. WorkerPlace(w)'
      BY <1>2 DEF WorkerPlace, WithFile
    <3>2. OwnRun(w)'
      BY <1>2, <1>3 DEF OwnRun, Atwork
    <3>3. OwnFile(w)'
      BY <1>2, <1>3 DEF OwnFile, HasFile, WithFile
    <3>4. OwnRow(w)'
      BY <1>2, <1>3 DEF OwnRow
    <3> QED
      BY <2>1, <3>1, <3>2, <3>3, <3>4
  <2>2. CASE v # w
    <3>1. pc'[v] = pc[v] /\ job'[v] = job[v]
      BY <1>2, <1>3, <2>2
    <3>2. WorkerPlace(v) /\ OwnRun(v) /\ OwnFile(v) /\ OwnRow(v)
      BY <1>1 DEF PoolRight
    <3>3. WorkerPlace(v)'
      BY <1>2, <3>1, <3>2 DEF WorkerPlace, Atwork
    <3>4. OwnRun(v)'
      <4>1. Atwork(v) /\ place # "idle" => new.run # job[v].run
        BY <2>2
      <4> QED
        BY <1>2, <1>3, <2>2, <3>1, <3>2, <4>1 DEF OwnRun, Atwork
    <3>5. OwnFile(v)'
      <4>1. HasFile(v) /\ place \in WithFile => new.name # job[v].name
        BY <2>2
      <4> QED
        BY <1>2, <1>3, <2>2, <3>1, <3>2, <4>1 DEF OwnFile, HasFile, WithFile
    <3>6. OwnRow(v)'
      BY <2>2, <3>1, <3>2 DEF OwnRow, HasFile
    <3> QED
      BY <3>3, <3>4, <3>5, <3>6
  <2> QED
    BY <2>1, <2>2
<1> QED
  BY <1>4, <1>5, <1>6, <1>7 DEF Inv, PoolRight

\* What a thread at work knows.
LEMMA AtworkKnows ==
  ASSUME Inv, NEW w \in Workers, pc[w] # "idle"
  PROVE  /\ pc[Main] \in {"ready", "failed"} /\ Generated /\ Cached
         /\ pc[w] \in {"check", "ready"} \union WithFile
         /\ job[w] \in SomeJob /\ job[w].run \in Plan /\ futures[job[w].run] = Running
<1>1. WorkerPlace(w) /\ OwnRun(w) /\ MainPlace /\ Typed
  BY DEF Inv, PoolRight
<1>2. pc[Main] \in {"ready", "failed"}
  BY <1>1 DEF WorkerPlace, Atwork
<1>3. Generated /\ wanted # NoFile
  BY <1>1, <1>2, Distinct DEF MainPlace, Typed
<1>4. Cached
  BY <1>3 DEF Generated, Cached, Unread, Trace
<1> QED
  BY <1>1, <1>2, <1>3, <1>4 DEF WorkerPlace, OwnRun, Atwork, WithFile, Typed

\* A thread takes a run that nobody has.
LEMMA TakeKeepsInv == ASSUME Inv, NEW w \in Workers, Take(w) PROVE Inv'
<1>1. PICK run \in Plan :
        /\ pc[Main] \in {"ready", "failed"} /\ pc[w] = "idle" /\ futures[run] = Pending
        /\ futures' = [futures EXCEPT ![run] = Running]
        /\ job' = [job EXCEPT ![w] = Job(run, NoFile, Pending)]
        /\ pc' = [pc EXCEPT ![w] = "check"]
        /\ UNCHANGED <<workloads, wanted, trace, stamp, config, table>>
  BY DEF Take, Goto, sources, traces
<1> DEFINE new == Job(run, NoFile, Pending)
<1>2. Pending # Running
  BY DEF Pending, Running, Future
<1>3. new \in SomeJob /\ new.run = run /\ job' = [job EXCEPT ![w] = new]
  BY <1>1, <1>2, OutcomesTyped DEF Job, SomeJob
<1> HIDE DEF new
<1>4. Typed /\ RowsRight /\ \A v \in Workers : OwnRun(v)
  BY DEF Inv, PoolRight
<1>5. futures' \in [Plan -> SomeFuture] /\ futures'[new.run] = Running
  BY <1>1, <1>2, <1>3, <1>4, OutcomesTyped DEF Typed
<1>6. \A v \in Workers \ {w} : Atwork(v) => futures'[job[v].run] = Running /\ job[v].run # new.run
  BY <1>1, <1>2, <1>3, <1>4 DEF OwnRun, Typed
<1>7. \A r \in Plan : futures'[r].state = "done" => futures'[r] = Row(r, wanted)
  BY <1>1, <1>2, <1>4 DEF RowsRight, Typed, Running, Future
<1>8. config' \in [Names -> Plan \union {NoFile, Empty}]
  BY <1>1, <1>4 DEF Typed
<1>9. "check" \in {"idle", "check", "ready"} \union WithFile /\ "check" \notin WithFile
  BY DEF WithFile
<1>10. UNCHANGED <<workloads, wanted, trace, stamp, table>> /\ config' = config
  BY <1>1
<1>11. pc[Main] \in {"ready", "failed"} /\ pc' = [pc EXCEPT ![w] = "check"]
  BY <1>1
<1>12. new.run \in Plan
  BY <1>3
<1> QED
  BY <1>3, <1>5, <1>6, <1>7, <1>8, <1>9, <1>10, <1>11, <1>12, OthersUndisturbed

\* The pool only reads the trace: its threads find it generated.
LEMMA PoolFindsTrace == ASSUME Inv, NEW w \in Workers, EnsureTrace(w) PROVE Inv'
<1>1. pc[w] \in {"check", "generate", "write", "stamp"}
  BY DEF EnsureTrace, Check, OpenTrace, FinishTrace, OpenStamp, WriteStamp
<1>2. pc[w] # "idle"
  BY <1>1
<1>3. /\ pc[Main] \in {"ready", "failed"} /\ Cached /\ pc[w] \in {"check", "ready"} \union WithFile
      /\ job[w] \in SomeJob /\ job[w].run \in Plan /\ futures[job[w].run] = Running
  BY <1>2, AtworkKnows
<1>4. pc[w] = "check"
  BY <1>1, <1>3 DEF WithFile
<1>5. /\ pc' = [pc EXCEPT ![w] = "ready"]
      /\ UNCHANGED <<workloads, wanted, trace, stamp, futures, job, config, table>>
  BY <1>3, <1>4 DEF EnsureTrace, Check, OpenTrace, FinishTrace, OpenStamp, WriteStamp, Goto,
                    sources, traces, pool
<1>6. Typed /\ RowsRight /\ \A v \in Workers : OwnRun(v)
  BY DEF Inv, PoolRight
<1>7. job' = [job EXCEPT ![w] = job[w]]
  BY <1>5, <1>6 DEF Typed
<1>8. \A v \in Workers \ {w} : Atwork(v) => futures'[job[v].run] = Running /\ job[v].run # job[w].run
  BY <1>2, <1>5, <1>6 DEF OwnRun, Atwork
<1>9. futures' \in [Plan -> SomeFuture] /\ config' \in [Names -> Plan \union {NoFile, Empty}]
  BY <1>5, <1>6 DEF Typed
<1>10. \A r \in Plan : futures'[r].state = "done" => futures'[r] = Row(r, wanted)
  BY <1>5, <1>6 DEF RowsRight
<1> QED
  BY <1>3, <1>5, <1>7, <1>8, <1>9, <1>10, OthersUndisturbed DEF WithFile

\* A thread goes on with its run and a file.
LEMMA GoesOnKeepsInv ==
  ASSUME Inv, NEW w \in Workers, pc[w] # "idle",
         NEW place \in WithFile, NEW name \in Names, NEW outcome \in SomeFuture,
         UNCHANGED <<workloads, wanted, trace, stamp, futures, table>>,
         pc' = [pc EXCEPT ![w] = place], Holding(w, name, outcome),
         config' \in [Names -> Plan \union {NoFile, Empty}], config'[name] # NoFile,
         \A v \in Workers \ {w} :
           HasFile(v) => job[v].name # name /\ config'[job[v].name] = config[job[v].name],
         place = "launch" => config'[name] = job[w].run,
         place = "simulate" => outcome.run = job[w].run,
         place = "unlink" => outcome \in {Failed, Row(job[w].run, wanted)}
  PROVE  Inv'
<1> DEFINE new == Job(job[w].run, name, outcome)
<1>1. /\ pc[Main] \in {"ready", "failed"}
      /\ job[w] \in SomeJob /\ job[w].run \in Plan /\ futures[job[w].run] = Running
  BY AtworkKnows
<1>2. /\ new \in SomeJob /\ new.run = job[w].run /\ new.name = name
      /\ new.outcome = outcome /\ job' = [job EXCEPT ![w] = new]
  BY <1>1 DEF Job, SomeJob, Holding
<1> HIDE DEF new
<1>3. Typed /\ RowsRight /\ \A v \in Workers : OwnRun(v)
  BY DEF Inv, PoolRight
<1>4. \A v \in Workers \ {w} : Atwork(v) => futures'[job[v].run] = Running /\ job[v].run # new.run
  BY <1>2, <1>3 DEF OwnRun, Atwork
<1>5. futures' \in [Plan -> SomeFuture]
  BY <1>3 DEF Typed
<1>6. \A r \in Plan : futures'[r].state = "done" => futures'[r] = Row(r, wanted)
  BY <1>3 DEF RowsRight
<1> QED
  BY <1>1, <1>2, <1>4, <1>5, <1>6, OthersUndisturbed DEF WithFile

\* mkstemp: a file that nobody has.
LEMMA MkstempKeepsInv == ASSUME Inv, NEW w \in Workers, Mkstemp(w) PROVE Inv'
<1>1. PICK name \in Names :
        /\ pc[w] = "ready" /\ config[name] = NoFile
        /\ config' = [config EXCEPT ![name] = Empty]
        /\ Holding(w, name, Running) /\ pc' = [pc EXCEPT ![w] = "configure"]
        /\ UNCHANGED <<workloads, wanted, trace, stamp, futures, table>>
  BY DEF Mkstemp, Goto, sources, traces
<1>2. Typed /\ \A v \in Workers : OwnFile(v)
  BY DEF Inv, PoolRight
<1>3. config' \in [Names -> Plan \union {NoFile, Empty}] /\ config'[name] # NoFile
  BY <1>1, <1>2, Distinct DEF Typed
<1>4. \A v \in Workers \ {w} :
        HasFile(v) => job[v].name # name /\ config'[job[v].name] = config[job[v].name]
  BY <1>1, <1>2 DEF OwnFile, Typed
<1> QED
  BY <1>1, <1>3, <1>4, OutcomesTyped, GoesOnKeepsInv DEF WithFile

\* What a thread that has a file knows of it.
LEMMA FileIsOwn ==
  ASSUME Inv, NEW w \in Workers, pc[w] \in WithFile
  PROVE  /\ job[w].name \in Names /\ config[job[w].name] # NoFile
         /\ \A v \in Workers \ {w} : HasFile(v) => job[v].name \in Names /\ job[v].name # job[w].name
         /\ config \in [Names -> Plan \union {NoFile, Empty}]
         /\ pc[w] = "launch" => config[job[w].name] = job[w].run
         /\ pc[w] = "simulate" => job[w].outcome.run = job[w].run
         /\ pc[w] = "unlink" => job[w].outcome \in {Failed, Row(job[w].run, wanted)}
<1>1. Typed /\ OwnRow(w) /\ \A v \in Workers : OwnFile(v)
  BY DEF Inv, PoolRight
<1> QED
  BY <1>1 DEF Typed, OwnRow, OwnFile, HasFile, WithFile

\* The configuration is that of the run.
LEMMA WriteConfigKeepsInv == ASSUME Inv, NEW w \in Workers, WriteConfig(w) PROVE Inv'
<1>1. /\ pc[w] = "configure" /\ pc' = [pc EXCEPT ![w] = "launch"]
      /\ config' = [config EXCEPT ![job[w].name] = job[w].run]
      /\ UNCHANGED <<workloads, wanted, trace, stamp, futures, job, table>>
  BY DEF WriteConfig, Goto, sources, traces
<1>2. /\ job[w].name \in Names /\ config \in [Names -> Plan \union {NoFile, Empty}]
      /\ \A v \in Workers \ {w} : HasFile(v) => job[v].name # job[w].name
  BY <1>1, FileIsOwn DEF WithFile
<1>3. job[w] \in SomeJob /\ job[w].run \in Plan
  BY <1>1, AtworkKnows
<1>4. /\ config' \in [Names -> Plan \union {NoFile, Empty}]
      /\ config'[job[w].name] = job[w].run /\ config'[job[w].name] # NoFile
      /\ \A v \in Workers \ {w} :
           HasFile(v) => job[v].name # job[w].name /\ config'[job[v].name] = config[job[v].name]
  <2>1. \A v \in Workers \ {w} : HasFile(v) => job[v].name \in Names
    BY <1>1, FileIsOwn DEF WithFile
  <2> QED
    BY <1>1, <1>2, <1>3, <2>1, Distinct
<1>5. Holding(w, job[w].name, job[w].outcome) /\ job[w].outcome \in SomeFuture
  BY <1>1, <1>3 DEF Holding, Job, Inv, Typed, SomeJob
<1> QED
  BY <1>1, <1>2, <1>4, <1>5, GoesOnKeepsInv DEF WithFile

\* perfsim reads the configuration of the run, and all of the trace.
LEMMA ReadsKeepInv == ASSUME Inv, NEW w \in Workers, ReadConfig(w) \/ ReadTrace(w) PROVE Inv'
<1>1. /\ pc[w] \in {"launch", "simulate"}
      /\ UNCHANGED <<workloads, wanted, trace, stamp, futures, config, table>>
  BY DEF ReadConfig, ReadTrace, sources, traces
<1>2. pc[w] \in WithFile /\ pc[w] # "idle" /\ pc[w] # "unlink"
  BY <1>1 DEF WithFile
<1>3. /\ job[w].name \in Names /\ config[job[w].name] # NoFile
      /\ config' \in [Names -> Plan \union {NoFile, Empty}]
      /\ \A v \in Workers \ {w} :
           HasFile(v) => job[v].name # job[w].name /\ config'[job[v].name] = config[job[v].name]
      /\ pc[w] = "launch" => config[job[w].name] = job[w].run
      /\ pc[w] = "simulate" => job[w].outcome.run = job[w].run
  BY <1>1, <1>2, FileIsOwn
<1>4. job[w].run \in Plan /\ Generated /\ wanted \in Specs
  BY <1>2, AtworkKnows DEF Inv, Typed
<1>5. CASE ReadConfig(w)
  <2> DEFINE outcome == Future("running", job[w].run, Unread)
  <2>1. pc[w] = "launch" /\ config[job[w].name] = job[w].run
    BY <1>3, <1>5 DEF ReadConfig
  <2>2. Holding(w, job[w].name, outcome) /\ pc' = [pc EXCEPT ![w] = "simulate"]
    BY <1>4, <1>5, <2>1 DEF ReadConfig, Goto
  <2>3. outcome \in SomeFuture /\ outcome.run = job[w].run
    BY <1>4, OutcomesTyped DEF Future
  <2> HIDE DEF outcome
  <2> QED
    BY <1>1, <1>2, <1>3, <2>2, <2>3, GoesOnKeepsInv DEF WithFile
<1>6. CASE ReadTrace(w)
  <2> DEFINE outcome == Row(job[w].run, wanted)
  <2>1. pc[w] = "simulate" /\ job[w].outcome.run = job[w].run
    BY <1>3, <1>6 DEF ReadTrace
  <2>2. Holding(w, job[w].name, outcome) /\ pc' = [pc EXCEPT ![w] = "unlink"]
    BY <1>4, <1>6, <2>1 DEF ReadTrace, Goto, Generated, Row
  <2>3. outcome \in SomeFuture
    BY <1>4, OutcomesTyped DEF Row
  <2> HIDE DEF outcome
  <2>4. outcome \in {Failed, Row(job[w].run, wanted)}
    BY DEF outcome
  <2> QED
    BY <1>1, <1>2, <1>3, <2>2, <2>3, <2>4, GoesOnKeepsInv DEF WithFile
<1> QED
  BY <1>5, <1>6

\* A run is over: its future has the row or the exception, and its thread is free.
LEMMA RunEndsKeepsInv ==
  ASSUME Inv, NEW w \in Workers, pc[w] # "idle",
         NEW outcome \in {Failed, Row(job[w].run, wanted)},
         UNCHANGED <<workloads, wanted, trace, stamp, table>>,
         pc' = [pc EXCEPT ![w] = "idle"], job' = [job EXCEPT ![w] = NoJob],
         futures' = [futures EXCEPT ![job[w].run] = outcome],
         config' \in [Names -> Plan \union {NoFile, Empty}],
         \A v \in Workers \ {w} : HasFile(v) => config'[job[v].name] = config[job[v].name]
  PROVE  Inv'
<1>1. pc[Main] \in {"ready", "failed"} /\ job[w].run \in Plan /\ wanted \in Specs
  BY AtworkKnows DEF Inv, Typed
<1>2. Typed /\ RowsRight /\ OwnRun(w) /\ \A v \in Workers : OwnRun(v)
  BY DEF Inv, PoolRight
<1>3. outcome \in SomeFuture
  BY <1>1, OutcomesTyped DEF Row
<1>4. futures' \in [Plan -> SomeFuture]
  BY <1>2, <1>3 DEF Typed
<1>5. \A v \in Workers \ {w} : Atwork(v) => futures'[job[v].run] = Running
  BY <1>1, <1>2 DEF OwnRun, Atwork, Typed
<1>6. ASSUME NEW r \in Plan, futures'[r].state = "done" PROVE futures'[r] = Row(r, wanted)
  <2>1. CASE r = job[w].run
    <3>1. futures'[r] = outcome
      BY <1>1, <1>2, <2>1 DEF Typed
    <3>2. outcome # Failed
      BY <1>6, <3>1 DEF Failed, Future
    <3> QED
      BY <2>1, <3>1, <3>2
  <2>2. CASE r # job[w].run
    BY <1>2, <1>6, <2>2 DEF RowsRight, Typed
  <2> QED
    BY <2>1, <2>2
<1>7. NoJob \in SomeJob
  BY OutcomesTyped DEF NoJob, Job, SomeJob
<1> QED
  BY <1>1, <1>4, <1>5, <1>6, <1>7, OthersUndisturbed DEF WithFile

\* The file is removed; it was the thread's own.
LEMMA UnlinkKeepsInv == ASSUME Inv, NEW w \in Workers, Unlink(w) PROVE Inv'
<1>1. /\ pc[w] = "unlink" /\ pc' = [pc EXCEPT ![w] = "idle"]
      /\ config' = [config EXCEPT ![job[w].name] = NoFile]
      /\ futures' = [futures EXCEPT ![job[w].run] =
                       IF config[job[w].name] = NoFile THEN Failed ELSE job[w].outcome]
      /\ job' = [job EXCEPT ![w] = NoJob]
      /\ UNCHANGED <<workloads, wanted, trace, stamp, table>>
  BY DEF Unlink, Goto, sources, traces
<1>2. /\ job[w].name \in Names /\ config[job[w].name] # NoFile
      /\ config \in [Names -> Plan \union {NoFile, Empty}]
      /\ \A v \in Workers \ {w} : HasFile(v) => job[v].name \in Names /\ job[v].name # job[w].name
      /\ job[w].outcome \in {Failed, Row(job[w].run, wanted)}
  BY <1>1, FileIsOwn DEF WithFile
<1>3. config' \in [Names -> Plan \union {NoFile, Empty}]
  BY <1>1, <1>2
<1>4. \A v \in Workers \ {w} : HasFile(v) => config'[job[v].name] = config[job[v].name]
  BY <1>1, <1>2
<1>5. futures' = [futures EXCEPT ![job[w].run] = job[w].outcome]
  BY <1>1, <1>2
<1> QED
  BY <1>1, <1>2, <1>3, <1>4, <1>5, RunEndsKeepsInv

\* A run that fails ends, at once or when its file is removed.
LEMMA FailRunKeepsInv == ASSUME Inv, NEW w \in Workers, FailRun(w) PROVE Inv'
<1>1. UNCHANGED <<workloads, wanted, trace, stamp, config, table>>
  BY DEF FailRun, sources, traces
<1>2. config' \in [Names -> Plan \union {NoFile, Empty}]
  BY <1>1 DEF Inv, Typed
<1>3. CASE pc[w] \in Generating
  <2>1. /\ pc' = [pc EXCEPT ![w] = "idle"] /\ job' = [job EXCEPT ![w] = NoJob]
        /\ futures' = [futures EXCEPT ![job[w].run] = Failed]
    BY <1>3 DEF FailRun, Generating, Goto
  <2>2. pc[w] # "idle"
    BY <1>3 DEF Generating
  <2> QED
    BY <1>1, <1>2, <2>1, <2>2, RunEndsKeepsInv
<1>4. CASE pc[w] \in {"configure", "launch", "simulate"}
  <2>1. /\ pc' = [pc EXCEPT ![w] = "unlink"] /\ Holding(w, job[w].name, Failed)
        /\ UNCHANGED futures
    BY <1>4 DEF FailRun, Generating, Goto
  <2>2. pc[w] \in WithFile /\ pc[w] # "idle"
    BY <1>4 DEF WithFile
  <2>3. /\ job[w].name \in Names /\ config'[job[w].name] # NoFile
        /\ \A v \in Workers \ {w} :
             HasFile(v) => job[v].name # job[w].name /\ config'[job[v].name] = config[job[v].name]
    BY <1>1, <2>2, FileIsOwn
  <2> QED
    BY <1>1, <1>2, <2>1, <2>2, <2>3, OutcomesTyped, GoesOnKeepsInv DEF WithFile
<1> QED
  BY <1>3, <1>4 DEF FailRun

-----------------------------------------------------------------------------
(* The theorems.                                                            *)

\* Every step keeps the invariant.
LEMMA StepKeepsInv == ForwardEdits /\ Inv /\ [Next]_vars => Inv'
<1> SUFFICES ASSUME ForwardEdits, Inv, [Next]_vars PROVE Inv'
  OBVIOUS
<1>1. CASE UNCHANGED vars
  <2>1. UNCHANGED <<workloads, wanted, trace, stamp, pc, futures, job, config, table>>
    BY <1>1 DEF vars, sources, traces, pool
  <2>2. Typed' /\ FilesInOrder' /\ MainPlace' /\ RowsRight'
    BY <2>1 DEF Inv, Typed, FilesInOrder, MainPlace, Generated, Cached, RowsRight
  <2>3. PoolRight'
    BY <2>1 DEF Inv, PoolRight, WorkerPlace, OwnRun, OwnFile, OwnRow, Atwork, HasFile
  <2> QED
    BY <2>2, <2>3 DEF Inv
<1>2. CASE Start \/ Edit \/ FailMain \/ Crash
  BY <1>2, StartKeepsInv, EditKeepsInv, EndsKeepInv
<1>3. CASE MainStep
  BY <1>3, MainGenerates, RaiseKeepsInv, OpenTableKeepsInv, EndsKeepInv DEF MainStep
<1>4. CASE \E w \in Workers : WorkerStep(w) \/ FailRun(w)
  BY <1>4, TakeKeepsInv, PoolFindsTrace, MkstempKeepsInv, WriteConfigKeepsInv, ReadsKeepInv,
     UnlinkKeepsInv, FailRunKeepsInv DEF WorkerStep
<1> QED
  BY <1>1, <1>2, <1>3, <1>4 DEF Next

\* The invariant holds in every reachable state, if edits only lead forwards.
THEOREM Invariance == Spec => [](ForwardEdits => Inv)
<1>1. Init => (ForwardEdits => Inv)
  BY InitEstablishesInv
<1>2. (ForwardEdits => Inv) /\ [Next]_vars => (ForwardEdits => Inv)'
  BY StepKeepsInv DEF ForwardEdits
<1> QED
  BY <1>1, <1>2, PTL DEF Spec

\* No thread simulates anything but the whole trace of the wanted parameters
\* (perfsim.py:87-88 and 98-106), for any number of threads, wherever scripts crash.
THEOREM WantedIsSimulated == Spec => [](ForwardEdits => SimulatesWanted)
<1>1. Inv => SimulatesWanted
  <2> SUFFICES ASSUME Inv, NEW t \in Threads,
                      pc[t] \in {"ready", "configure", "launch", "simulate"}
               PROVE  trace = Trace(wanted, TRUE)
    BY DEF SimulatesWanted
  <2>1. CASE t = Main
    BY <2>1 DEF Inv, MainPlace, Generated
  <2>2. CASE t \in Workers
    BY <2>2, AtworkKnows DEF Generated
  <2> QED
    BY <2>1, <2>2 DEF Threads
<1> QED
  BY <1>1, Invariance, PTL

\* A complete table has the row of every run of the plan, each of its own configuration
\* and of one whole trace (run_experiments.py:119-155), for any plan and any number of
\* threads, wherever runs fail.
THEOREM TablesAreThePlan == Spec => [](ForwardEdits => TableIsThePlan)
<1>1. Inv => TableIsThePlan
  BY DEF Inv, RowsRight, Row, TableIsThePlan
<1> QED
  BY <1>1, Invariance, PTL

-----------------------------------------------------------------------------
(* perfcount.                                                               *)

\* What can become of a counter.
CounterStates == {"untried", "armed", "failed", "value", "unread"}

\* Nothing can have passed the pipe yet: it is empty, and the parent keeps it open.
NotReleased == /\ pipe = 0 /\ "parent" \in writers
               /\ child \notin {"released", "command", "reaped"}
               /\ missed = {}

\* The inductive invariant.  Counters are armed only while the child cannot have
\* passed the pipe, so that none is armed once the command has begun; and they are
\* read only after the child was waited for, so that the command of a child that is
\* not yet reaped finds no counter read.
CountersInv ==
  /\ counter \in [Counters -> CounterStates]
  /\ parent \in {"start", "arm"} => NotReleased
  /\ parent = "read" => child = "reaped"
  /\ In("value") # {} => child = "reaped"
  /\ (In("armed") \cup In("value")) \intersect missed = {}

\* Init establishes the invariant.
LEMMA InitEstablishesCountersInv == PerfcountInit => CountersInv
  BY DEF PerfcountInit, CountersInv, In, NotReleased, CounterStates

\* Setting one counter moves that counter and no other.
LEMMA CounterMoves ==
  ASSUME counter \in [Counters -> CounterStates], NEW c \in Counters, NEW new \in CounterStates,
         counter' = [counter EXCEPT ![c] = new]
  PROVE  /\ counter' \in [Counters -> CounterStates]
         /\ \A state \in CounterStates :
              In(state)' = IF state = new THEN In(state) \cup {c} ELSE In(state) \ {c}
  BY DEF In

\* No step of the parent breaks the invariant.
LEMMA ParentKeepsCountersInv == CountersInv /\ ParentStep => CountersInv'
<1> SUFFICES ASSUME CountersInv, ParentStep PROVE CountersInv'
  OBVIOUS
<1> USE DEF CountersInv
<1>1. CASE Fork
  BY <1>1 DEF Fork, NotReleased, In
<1>2. CASE ForkFails
  BY <1>2 DEF ForkFails, In
<1>3. CASE Arm
  <2>1. PICK c \in NextIn("untried"), outcome \in {"armed", "failed"} :
          counter' = [counter EXCEPT ![c] = outcome]
    BY <1>3 DEF Arm
  <2>2. c \in Counters
    BY DEF NextIn, In
  <2>3. /\ counter' \in [Counters -> CounterStates]
        /\ In("value")' = In("value") \ {c}
    BY <2>1, <2>2, CounterMoves DEF CounterStates
  <2>4. missed' = {}
    BY <1>3 DEF Arm, NotReleased
  <2> QED
    BY <1>3, <2>3, <2>4 DEF Arm, NotReleased
<1>4. CASE Release
  BY <1>4 DEF Release, In
<1>5. CASE BrokenPipe
  BY <1>5 DEF BrokenPipe, In
<1>6. CASE CloseWriteEnd
  BY <1>6 DEF CloseWriteEnd, In
<1>7. CASE Waitpid
  BY <1>7 DEF Waitpid, In
<1>8. CASE ReadCounter
  <2>1. PICK c \in NextIn("armed"), outcome \in {"value", "unread"} :
          counter' = [counter EXCEPT ![c] = outcome]
    BY <1>8 DEF ReadCounter
  <2>2. c \in In("armed") /\ c \in Counters
    BY DEF NextIn, In
  <2>3. /\ counter' \in [Counters -> CounterStates]
        /\ \A state \in CounterStates :
             In(state)' = IF state = outcome THEN In(state) \cup {c} ELSE In(state) \ {c}
    <3>1. outcome \in CounterStates
      BY DEF CounterStates
    <3> QED
      BY <2>1, <2>2, <3>1, CounterMoves
  <2>4. /\ In("armed")' = In("armed") \ {c}
        /\ In("value")' \subseteq In("value") \cup {c}
    BY <2>3 DEF CounterStates
  <2> QED
    BY <1>8, <2>2, <2>3, <2>4 DEF ReadCounter
<1>9. CASE Report
  BY <1>9 DEF Report, In
<1> QED
  BY <1>1, <1>2, <1>3, <1>4, <1>5, <1>6, <1>7, <1>8, <1>9 DEF ParentStep

\* Nor does a step of the child.
LEMMA ChildKeepsCountersInv == CountersInv /\ ChildStep => CountersInv'
<1> SUFFICES ASSUME CountersInv, ChildStep PROVE CountersInv'
  OBVIOUS
<1> USE DEF CountersInv
<1>1. CASE DropWriteEnd
  BY <1>1 DEF DropWriteEnd, NotReleased, In
<1>2. CASE ReadPipe
  BY <1>2 DEF ReadPipe, NotReleased, In
<1>3. CASE Exec
  <2>1. In("value") = {}
    BY <1>3 DEF Exec
  <2> QED
    BY <1>3, <2>1 DEF Exec, NotReleased, In
<1>4. CASE ExecFails
  BY <1>4 DEF ExecFails, NotReleased, In
<1>5. CASE CommandEnds
  BY <1>5 DEF CommandEnds, NotReleased, In
<1> QED
  BY <1>1, <1>2, <1>3, <1>4, <1>5 DEF ChildStep

\* Nor does the end of a process from outside, or a step that leaves all as it is.
LEMMA StepKeepsCountersInv == CountersInv /\ [PerfcountNext]_perfcountVars => CountersInv'
<1> SUFFICES ASSUME CountersInv, [PerfcountNext]_perfcountVars PROVE CountersInv'
  OBVIOUS
<1>1. CASE KillParent
  BY <1>1 DEF KillParent, CountersInv, In
<1>2. CASE KillChild
  BY <1>2 DEF KillChild, CountersInv, NotReleased, In
<1>3. CASE UNCHANGED perfcountVars
  BY <1>3 DEF perfcountVars, CountersInv, NotReleased, In
<1> QED
  BY <1>1, <1>2, <1>3, ParentKeepsCountersInv, ChildKeepsCountersInv DEF PerfcountNext

\* The invariant holds in every reachable state.
THEOREM CountersInvariance == PerfcountSpec => []CountersInv
<1> QED
  BY InitEstablishesCountersInv, StepKeepsCountersInv, PTL DEF PerfcountSpec

\* A value that perfcount reports was counted from the first to the last instruction
\* of the command (perfcount.cpp:109, 141-142, 158-179).
THEOREM ValuesCoverCommand == PerfcountSpec => []ValueCoversCommand
<1>1. CountersInv => ValueCoversCommand
  BY DEF CountersInv, ValueCoversCommand
<1> QED
  BY <1>1, CountersInvariance, PTL
=============================================================================
