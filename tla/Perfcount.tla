----------------------------- MODULE Perfcount -----------------------------
(***************************************************************************)
(* tools/perfcount.cpp: a parent forks, arms hardware counters on its child  *)
(* and releases it over a pipe; the child waits for the byte and executes the *)
(* measured command; the parent waits for it and reads the counters.  The two *)
(* processes interleave at every system call, and either may be killed from   *)
(* outside at any point.  A system call that is interrupted is repeated       *)
(* (EINTR), which changes nothing and is left out.                           *)
(*                                                                         *)
(* The specification has a name of its own, PerfcountSpec, so that the        *)
(* theorems about it can stand beside those about the scripts.               *)
(***************************************************************************)
EXTENDS Integers

CONSTANTS CounterCount,   \* the number of counters that make_counters() returns
          Kills           \* which of the two processes may be killed

ASSUME PerfcountAssumption ==
  /\ CounterCount \in Nat \ {0}
  /\ Kills \subseteq {"parent", "child"}

Counters == 1 .. CounterCount

VARIABLES parent,     \* where the parent is
          child,      \* where the child is
          pipe,       \* the bytes in the pipe
          writers,    \* the processes that hold its write end
          counter,    \* what became of each counter
          missed      \* history: counters not armed when the command began

perfcountVars == <<parent, child, pipe, writers, counter, missed>>

PerfcountInit ==
  /\ parent = "start"
  /\ child = "none"
  /\ pipe = 0
  /\ writers = {"parent"}
  /\ counter = [c \in Counters |-> "untried"]
  /\ missed = {}

In(state) == {c \in Counters : counter[c] = state}

\* Counters are tried and read in order.
NextIn(state) == {c \in In(state) : \A d \in In(state) : c <= d}

-----------------------------------------------------------------------------
(* The parent.                                                              *)

\* pipe and fork; the child inherits both ends of the pipe.
Fork == /\ parent = "start"
        /\ parent' = "arm" /\ child' = "born"
        /\ writers' = {"parent", "child"}
        /\ UNCHANGED <<pipe, counter, missed>>

\* pipe or fork fails: an error message and exit status 1.
ForkFails == /\ parent = "start"
             /\ parent' = "done"
             /\ writers' = {}
             /\ UNCHANGED <<child, pipe, counter, missed>>

\* perf_event_open of the next counter, which the host may not have.
Arm == /\ parent = "arm"
       /\ \E c \in NextIn("untried"), outcome \in {"armed", "failed"} :
            counter' = [counter EXCEPT ![c] = outcome]
       /\ UNCHANGED <<parent, child, pipe, writers, missed>>

\* write of the byte, to a child that holds the read end.
Release == /\ parent = "arm" /\ In("untried") = {}
           /\ child \notin {"zombie", "reaped"}
           /\ pipe' = pipe + 1
           /\ parent' = "close"
           /\ UNCHANGED <<child, writers, counter, missed>>

\* The same write when nobody holds the read end any more: SIGPIPE, which the
\* program does not catch, ends it.
BrokenPipe == /\ parent = "arm" /\ In("untried") = {}
              /\ child = "zombie"
              /\ parent' = "sigpipe"
              /\ writers' = writers \ {"parent"}
              /\ UNCHANGED <<child, pipe, counter, missed>>

CloseWriteEnd == /\ parent = "close"
                 /\ writers' = writers \ {"parent"}
                 /\ parent' = "wait"
                 /\ UNCHANGED <<child, pipe, counter, missed>>

\* Mutant: waitpid does not block.
WaitpidNoHang == /\ parent = "wait"
                 /\ parent' = "read"
                 /\ child' = IF child = "zombie" THEN "reaped" ELSE child
                 /\ UNCHANGED <<pipe, writers, counter, missed>>

Waitpid == /\ parent = "wait" /\ child = "zombie"
           /\ child' = "reaped"
           /\ parent' = "read"
           /\ UNCHANGED <<pipe, writers, counter, missed>>

\* The next counter that could be opened is disabled and read.
ReadCounter == /\ parent = "read"
               /\ \E c \in NextIn("armed"), outcome \in {"value", "unread"} :
                    counter' = [counter EXCEPT ![c] = outcome]
               /\ UNCHANGED <<parent, child, pipe, writers, missed>>

Report == /\ parent = "read" /\ In("armed") = {}
          /\ parent' = "done"
          /\ UNCHANGED <<child, pipe, writers, counter, missed>>

ParentStep == \/ Fork \/ ForkFails \/ Arm \/ Release \/ BrokenPipe
              \/ CloseWriteEnd \/ Waitpid \/ ReadCounter \/ Report

-----------------------------------------------------------------------------
(* The child and the command it becomes.                                    *)

\* Mutant: the child keeps its own copy of the write end.
KeepWriteEnd == /\ child = "born"
                /\ child' = "blocked"
                /\ UNCHANGED <<parent, pipe, writers, counter, missed>>

DropWriteEnd == /\ child = "born"
                /\ writers' = writers \ {"child"}
                /\ child' = "blocked"
                /\ UNCHANGED <<parent, pipe, counter, missed>>

\* read returns the byte, or 0 when every write end is closed; the child goes on
\* in either case.
ReadPipe == /\ child = "blocked"
            /\ pipe > 0 \/ writers = {}
            /\ pipe' = IF pipe > 0 THEN pipe - 1 ELSE pipe
            /\ child' = "released"
            /\ UNCHANGED <<parent, writers, counter, missed>>

\* execvp, which enables the counters (enable_on_exec).
Exec == /\ child = "released"
        /\ child' = "command"
        /\ missed' = Counters \ In("armed")
        /\ UNCHANGED <<parent, pipe, writers, counter>>

\* There is no such command: exit status 127.
ExecFails == /\ child = "released"
             /\ child' = "zombie"
             /\ UNCHANGED <<parent, pipe, writers, counter, missed>>

CommandEnds == /\ child = "command"
               /\ child' = "zombie"
               /\ UNCHANGED <<parent, pipe, writers, counter, missed>>

ChildStep == DropWriteEnd \/ ReadPipe \/ Exec \/ ExecFails \/ CommandEnds

-----------------------------------------------------------------------------

KillParent == /\ "parent" \in Kills /\ parent \notin {"done", "sigpipe", "killed"}
              /\ parent' = "killed"
              /\ writers' = writers \ {"parent"}
              /\ UNCHANGED <<child, pipe, counter, missed>>

KillChild == /\ "child" \in Kills /\ child \notin {"none", "zombie", "reaped"}
             /\ child' = "zombie"
             /\ writers' = writers \ {"child"}
             /\ UNCHANGED <<parent, pipe, counter, missed>>

PerfcountNext == ParentStep \/ ChildStep \/ KillParent \/ KillChild

\* Both processes run, and the measured command ends.
PerfcountSpec ==
  /\ PerfcountInit /\ [][PerfcountNext]_perfcountVars
  /\ WF_perfcountVars(ParentStep) /\ WF_perfcountVars(ChildStep)

-----------------------------------------------------------------------------

\* A reported value covers the whole command: the counter was armed when it began,
\* "counters are armed before it execs" (perfcount.cpp:109), and read after it ended
\* (perfcount.cpp:141-142, 158-179).
ValueCoversCommand ==
  In("value") # {} => /\ child = "reaped"
                      /\ In("value") \intersect missed = {}

\* No process is left waiting for the other: the child gets past the pipe even when
\* the parent is killed, and the parent ends even when the child is.
NobodyWaitsForever == /\ child = "blocked" ~> child # "blocked"
                      /\ <>(parent \in {"done", "sigpipe", "killed"})
=============================================================================
