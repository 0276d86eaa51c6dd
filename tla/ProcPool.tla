------------------------------ MODULE ProcPool ------------------------------
(***************************************************************************)
(* 5.26/CtrlProc: a parent that creates children, hands each its tasks     *)
(* through a pipe of its own, and at the end closes the pipes one after    *)
(* the other, waiting for each child in between.                           *)
(*                                                                         *)
(* A pipe is the sequence of tasks in it and the processes that hold its   *)
(* write and its read end.  A forked child inherits every descriptor of    *)
(* the parent, and a reader sees the end of the pipe only when nobody      *)
(* holds the write end.  A task is its number in the order of writing; a   *)
(* pipe never fills up, for it takes far more than EXE_NUM integers.       *)
(***************************************************************************)
EXTENDS Integers, Sequences, FiniteSets

CONSTANTS
    CHILD_NUM,  \* how many children are created
    EXE_NUM     \* how many tasks the parent gives, and a child takes, at most

ASSUME ProcPoolAssumption == CHILD_NUM \in Nat \ {0} /\ EXE_NUM \in Nat \ {0}

Children == 1 .. CHILD_NUM
Parent == 0
Procs == {Parent} \cup Children
NoPid == -1

VARIABLES
    ppc,       \* where the parent is
    i,         \* the loop index of CreatProcesses, then of WaitProcess
    pids,      \* pids[k]: _child_pid of the k-th end point
    procs,     \* the end point written to last, counted from 0
    n,         \* how many tasks have been given
    writers,   \* writers[k]: the processes that hold the write end of pipe k
    readers,   \* readers[k]: those that hold its read end
    pipe,      \* pipe[k]: the tasks in it
    cpc,       \* cpc[k]: where child k is
    fds,       \* fds[k]: the write end that child k closes next
    done       \* done[k]: the tasks child k has executed

parentVars == <<ppc, i, pids, procs, n>>
childVars == <<cpc, fds, done>>
vars == <<parentVars, writers, readers, pipe, childVars>>

Init ==
    /\ ppc = "pipe" /\ i = 1 /\ pids = [k \in Children |-> NoPid]
    /\ procs = 0 /\ n = 0
    /\ writers = [k \in Children |-> {}] /\ readers = [k \in Children |-> {}]
    /\ pipe = [k \in Children |-> <<>>]
    /\ cpc = [k \in Children |-> "none"] /\ fds = [k \in Children |-> 1]
    /\ done = [k \in Children |-> <<>>]

-----------------------------------------------------------------------------
(* CreatProcesses *)

MakePipe ==
    /\ ppc = "pipe"
    /\ writers' = [writers EXCEPT ![i] = {Parent}]
    /\ readers' = [readers EXCEPT ![i] = {Parent}]
    /\ ppc' = "fork"
    /\ UNCHANGED <<i, pids, procs, n, pipe, childVars>>

\* The child holds what the parent holds.
Inherit(ends) == [k \in Children |-> IF Parent \in ends[k] THEN ends[k] \cup {i} ELSE ends[k]]

Fork ==
    /\ ppc = "fork"
    /\ writers' = Inherit(writers) /\ readers' = Inherit(readers)
    /\ cpc' = [cpc EXCEPT ![i] = "close"]
    /\ pids' = [pids EXCEPT ![i] = i]
    /\ ppc' = "forked"
    /\ UNCHANGED <<i, procs, n, pipe, fds, done>>

\* The return value -1 is stored like any other process id.
ForkError ==
    /\ ppc = "fork"
    /\ pids' = [pids EXCEPT ![i] = NoPid]
    /\ ppc' = "forked"
    /\ UNCHANGED <<i, procs, n, writers, readers, pipe, childVars>>

CloseReadEnd ==
    /\ ppc = "forked"
    /\ readers' = [readers EXCEPT ![i] = @ \ {Parent}]
    /\ IF i < CHILD_NUM THEN ppc' = "pipe" /\ i' = i + 1
                        ELSE ppc' = "ctrl" /\ i' = 1
    /\ UNCHANGED <<pids, procs, n, writers, pipe, childVars>>

-----------------------------------------------------------------------------
(* CtrlProcess *)

Target == (procs + 1) % CHILD_NUM   \* an index of end_points, from 0

\* The user enters a task: it is written to the pipe of the next child.
GiveTask ==
    /\ ppc = "ctrl" /\ n < EXE_NUM
    /\ procs' = Target
    /\ readers[Target + 1] # {}
    /\ pipe' = [pipe EXCEPT ![Target + 1] = Append(@, n + 1)]
    /\ n' = n + 1
    /\ UNCHANGED <<ppc, i, pids, writers, readers, childVars>>

\* Nobody can read what is written: SIGPIPE ends the parent.
BrokenPipe ==
    /\ ppc = "ctrl" /\ n < EXE_NUM
    /\ procs' = Target
    /\ readers[Target + 1] = {}
    /\ ppc' = "killed"
    /\ writers' = [k \in Children |-> writers[k] \ {Parent}]
    /\ UNCHANGED <<i, pids, n, readers, pipe, childVars>>

\* The user enters 3, or all tasks have been given.
StopGiving ==
    /\ ppc = "ctrl"
    /\ ppc' = "close"
    /\ UNCHANGED <<i, pids, procs, n, writers, readers, pipe, childVars>>

-----------------------------------------------------------------------------
(* WaitProcess *)

CloseWriteEnd ==
    /\ ppc = "close"
    /\ writers' = [writers EXCEPT ![i] = @ \ {Parent}]
    /\ ppc' = "wait"
    /\ UNCHANGED <<i, pids, procs, n, readers, pipe, childVars>>

Next_i == IF i < CHILD_NUM THEN ppc' = "close" /\ i' = i + 1
                           ELSE ppc' = "done" /\ i' = i

\* waitpid of a child, or, with -1, of any.
WaitPid ==
    /\ ppc = "wait"
    /\ \E k \in Children :
          /\ cpc[k] = "exited" /\ pids[i] \in {k, NoPid}
          /\ cpc' = [cpc EXCEPT ![k] = "reaped"]
    /\ Next_i
    /\ UNCHANGED <<pids, procs, n, writers, readers, pipe, fds, done>>

\* There is no such child (any more).
WaitPidError ==
    /\ ppc = "wait"
    /\ \A k \in Children : pids[i] \in {k, NoPid} => cpc[k] \in {"none", "reaped"}
    /\ Next_i
    /\ UNCHANGED <<pids, procs, n, writers, readers, pipe, childVars>>

-----------------------------------------------------------------------------
(* A child *)

\* Mutant (5.25/CtrlProc): the child closes its own write end only.
CloseInheritedNot(k) ==
    /\ cpc[k] = "close"
    /\ writers' = [writers EXCEPT ![k] = @ \ {k}]
    /\ cpc' = [cpc EXCEPT ![k] = "read"] /\ UNCHANGED fds
    /\ UNCHANGED <<parentVars, readers, pipe, done>>

\* It closes the write ends of the pipes made before its own, then its own.
CloseInherited(k) ==
    /\ cpc[k] = "close"
    /\ writers' = [writers EXCEPT ![fds[k]] = @ \ {k}]
    /\ IF fds[k] < k THEN fds' = [fds EXCEPT ![k] = @ + 1] /\ UNCHANGED cpc
                     ELSE cpc' = [cpc EXCEPT ![k] = "read"] /\ UNCHANGED fds
    /\ UNCHANGED <<parentVars, readers, pipe, done>>

\* Mutant: the tasks are thought to be dealt out evenly.
ReadTaskShare(k) ==
    /\ cpc[k] = "read" /\ Len(done[k]) < EXE_NUM \div CHILD_NUM /\ pipe[k] # <<>>
    /\ done' = [done EXCEPT ![k] = Append(@, Head(pipe[k]))]
    /\ pipe' = [pipe EXCEPT ![k] = Tail(@)]
    /\ cpc' = [cpc EXCEPT ![k] =
                   IF Len(done'[k]) < EXE_NUM \div CHILD_NUM THEN "read" ELSE "leave"]
    /\ UNCHANGED <<parentVars, writers, readers, fds>>

\* WaitCmd
ReadTask(k) ==
    /\ cpc[k] = "read" /\ Len(done[k]) < EXE_NUM /\ pipe[k] # <<>>
    /\ done' = [done EXCEPT ![k] = Append(@, Head(pipe[k]))]
    /\ pipe' = [pipe EXCEPT ![k] = Tail(@)]
    /\ cpc' = [cpc EXCEPT ![k] = IF Len(done'[k]) < EXE_NUM THEN "read" ELSE "leave"]
    /\ UNCHANGED <<parentVars, writers, readers, fds>>

\* Mutant: a pipe that is empty for the moment is taken for a closed one.
ReadEndEmpty(k) ==
    /\ cpc[k] = "read" /\ Len(done[k]) < EXE_NUM /\ pipe[k] = <<>>
    /\ cpc' = [cpc EXCEPT ![k] = "leave"]
    /\ UNCHANGED <<parentVars, writers, readers, pipe, fds, done>>

ReadEnd(k) ==
    /\ cpc[k] = "read" /\ Len(done[k]) < EXE_NUM /\ pipe[k] = <<>> /\ writers[k] = {}
    /\ cpc' = [cpc EXCEPT ![k] = "leave"]
    /\ UNCHANGED <<parentVars, writers, readers, pipe, fds, done>>

Exit(k) ==
    /\ cpc[k] = "leave"
    /\ cpc' = [cpc EXCEPT ![k] = "exited"]
    /\ writers' = [j \in Children |-> writers[j] \ {k}]
    /\ readers' = [j \in Children |-> readers[j] \ {k}]
    /\ UNCHANGED <<parentVars, pipe, fds, done>>

-----------------------------------------------------------------------------
ParentStep == \/ MakePipe \/ Fork \/ ForkError \/ CloseReadEnd
              \/ GiveTask \/ BrokenPipe \/ StopGiving
              \/ CloseWriteEnd \/ WaitPid \/ WaitPidError

ChildStep(k) == CloseInherited(k) \/ ReadTask(k) \/ ReadEnd(k) \/ Exit(k)

Next == ParentStep \/ \E k \in Children : ChildStep(k)

Spec == Init /\ [][Next]_vars

\* Every process keeps running; what the user enters, and whether, is left open.
FairSpec == /\ Spec
            /\ WF_vars(ppc # "ctrl" /\ ParentStep)
            /\ \A k \in Children : WF_vars(ChildStep(k))

-----------------------------------------------------------------------------
TypeOK ==
    /\ ppc \in {"pipe", "fork", "forked", "ctrl", "close", "wait", "done", "killed"}
    /\ i \in Children /\ pids \in [Children -> Children \cup {NoPid}]
    /\ procs \in 0 .. CHILD_NUM - 1 /\ n \in 0 .. EXE_NUM
    /\ writers \in [Children -> SUBSET Procs] /\ readers \in [Children -> SUBSET Procs]
    /\ pipe \in [Children -> Seq(1 .. EXE_NUM)]
    /\ cpc \in [Children -> {"none", "close", "read", "leave", "exited", "reaped"}]
    /\ fds \in [Children -> Children] /\ done \in [Children -> Seq(1 .. EXE_NUM)]

(***************************************************************************)
(* proc.cc:181: only the parent can write to a child; no other child keeps *)
(* a descriptor of its pipe.  Once a child has left its prologue it holds  *)
(* no write end, its own included.                                         *)
(***************************************************************************)
OnlyParentWrites ==
    \A k \in Children : cpc[k] \in {"read", "leave", "exited", "reaped"} =>
        \A j \in Children : k \notin writers[j]

(***************************************************************************)
(* The parent never writes to a child that has stopped reading: a child    *)
(* takes as many tasks as the parent gives altogether, and sees the end of *)
(* its pipe only when the parent has stopped.  If a write kills the parent *)
(* it was meant for a child that fork failed to create.                    *)
(***************************************************************************)
NoBrokenPipe == ppc = "killed" => cpc[procs + 1] = "none"

(***************************************************************************)
(* When a child is gone, every task written to it has been executed: what  *)
(* is in the pipe when it is closed is still read.                         *)
(***************************************************************************)
NoTaskLost ==
    \A k \in Children : cpc[k] \in {"exited", "reaped"} => pipe[k] = <<>>

(***************************************************************************)
(* WaitProcess ends and leaves no zombie behind (proc.cc:146-147 and 155), *)
(* provided every fork has succeeded.                                      *)
(***************************************************************************)
AllReaped ==
    (ppc = "close" /\ \A k \in Children : cpc[k] # "none")
        ~> (ppc = "done" /\ \A k \in Children : cpc[k] = "reaped")

(***************************************************************************)
(* The same promise as the comments make it, with no word of a failed      *)
(* fork: the parent closes the write ends to let the children exit, reaps  *)
(* them and goes on.                                                       *)
(***************************************************************************)
WaitEnds == (ppc = "close") ~> (ppc = "done")
=============================================================================
