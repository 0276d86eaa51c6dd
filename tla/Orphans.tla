------------------------------ MODULE Orphans ------------------------------
(***************************************************************************)
(* The two programs of 5.25 with anonymous pipes.  "CtrlProc" (the process *)
(* pool before 5.26): main makes a pipe and a child for each end point,    *)
(* writes tasks at random and never closes or waits.  "pipe": one child    *)
(* writes, main reads.                                                     *)
(***************************************************************************)
EXTENDS Naturals

CONSTANTS CHILD_NUM,
          MaxWritten        \* bound: tasks in a pipe

VARIABLES
    program,
    pc,             \* of main (0) and of the children
    holders,        \* of each pipe: the processes that have its write end
    unread          \* of each pipe: what is in it

vars == <<program, pc, holders, unread>>

Children == 1 .. CHILD_NUM

Init == /\ program \in {"CtrlProc", "pipe"}
        /\ pc = [p \in 0 .. CHILD_NUM |-> IF p = 0 THEN "create" ELSE "none"]
        /\ holders = [i \in Children |-> {}]
        /\ unread = [i \in Children |-> 0]

\* The process ends: its write ends are closed.
Ends(p, how) == /\ pc' = [pc EXCEPT ![p] = how]
                /\ holders' = [i \in Children |-> holders[i] \ {p}]

Dead == {"none", "done", "killed"}

-----------------------------------------------------------------------------
Made(i) == i \in Children /\ (i > 1 => holders[i - 1] # {}) /\ holders[i] = {}

\* Mutant: the child does not close its own write end.
CreatChildKeepsEnd(i) ==
    /\ program = "CtrlProc" /\ pc[0] = "create" /\ Made(i)
    /\ holders' = [j \in Children |-> IF j < i THEN holders[j] \cup {i} ELSE IF j = i THEN {0, i} ELSE {}]
    /\ pc' = [pc EXCEPT ![i] = "read", ![0] = IF i = CHILD_NUM THEN "write" ELSE "create"]
    /\ UNCHANGED <<program, unread>>

\* The child also gets the write ends of all earlier pipes.
CreatChild(i) ==
    /\ program = "CtrlProc" /\ pc[0] = "create" /\ Made(i)
    /\ holders' = [j \in Children |-> IF j < i THEN holders[j] \cup {i} ELSE IF j = i THEN {0} ELSE {}]
    /\ pc' = [pc EXCEPT ![i] = "read", ![0] = IF i = CHILD_NUM THEN "write" ELSE "create"]
    /\ UNCHANGED <<program, unread>>

\* fork fails and main keeps an end point that nobody reads.
ForkFails(i) ==
    /\ program = "CtrlProc" /\ pc[0] = "create" /\ Made(i)
    /\ holders' = [holders EXCEPT ![i] = {0}]
    /\ pc' = [pc EXCEPT ![0] = IF i = CHILD_NUM THEN "write" ELSE "create"]
    /\ UNCHANGED <<program, unread>>

PipeFails ==
    /\ program = "CtrlProc" /\ pc[0] = "create"
    /\ pc' = [pc EXCEPT ![0] = "write"]
    /\ UNCHANGED <<program, holders, unread>>

CreatProcesses == PipeFails \/ \E i \in Children : CreatChild(i) \/ ForkFails(i)

\* SIGPIPE ends main when the reader is dead, SIGFPE when there is no end point.
WriteTask ==
    /\ program = "CtrlProc" /\ pc[0] = "write"
    /\ \/ \E i \in Children :
             /\ 0 \in holders[i]
             /\ IF pc[i] \in Dead
                THEN Ends(0, "killed") /\ UNCHANGED unread
                ELSE /\ unread[i] < MaxWritten
                     /\ unread' = [unread EXCEPT ![i] = @ + 1] /\ UNCHANGED <<pc, holders>>
       \/ holders[1] = {} /\ Ends(0, "killed") /\ UNCHANGED unread
    /\ UNCHANGED program

Execute(i) ==
    /\ program = "CtrlProc" /\ pc[i] = "read" /\ unread[i] > 0
    /\ unread' = [unread EXCEPT ![i] = @ - 1]
    /\ UNCHANGED <<program, pc, holders>>

\* read returns 0 once nobody has the write end.
WaitCmdEnds(i) ==
    /\ program = "CtrlProc" /\ pc[i] = "read" /\ unread[i] = 0 /\ holders[i] = {}
    /\ Ends(i, "done") /\ UNCHANGED <<program, unread>>

WaitCmd(i) == Execute(i) \/ WaitCmdEnds(i)

-----------------------------------------------------------------------------
(* "pipe": child 1 has the only write end of pipe 1 *)

PipeMain ==
    /\ program = "pipe"
    /\ \/ /\ pc[0] = "create"
          /\ pc' = [pc EXCEPT ![0] = "read", ![1] = "write"] /\ holders' = [holders EXCEPT ![1] = {1}]
          /\ UNCHANGED unread
       \/ /\ pc[0] = "read" /\ unread[1] > 0 /\ unread' = [unread EXCEPT ![1] = 0]
          /\ UNCHANGED <<pc, holders>>
    /\ UNCHANGED program

PipeChild ==
    /\ program = "pipe" /\ pc[1] = "write"
    /\ IF pc[0] = "killed"
       THEN Ends(1, "killed") /\ UNCHANGED unread
       ELSE unread[1] < MaxWritten /\ unread' = [unread EXCEPT ![1] = @ + 1] /\ UNCHANGED <<pc, holders>>
    /\ UNCHANGED program

Killed(p) == /\ pc[p] \notin Dead
             /\ Ends(p, "killed") /\ UNCHANGED <<program, unread>>

Next == \/ CreatProcesses \/ WriteTask \/ PipeMain \/ PipeChild
        \/ \E i \in Children : WaitCmd(i)
        \/ \E p \in 0 .. CHILD_NUM : Killed(p)

\* What goes on as long as it can: the children.
System == PipeChild \/ \E i \in Children : WaitCmd(i)

-----------------------------------------------------------------------------
(***************************************************************************)
(* main never closes its ends, and each child has the ends of the pipes    *)
(* made before it; yet when main is gone, all children end, one after the  *)
(* other.                                                                  *)
(***************************************************************************)
Settled == pc[0] = "killed" => \A i \in Children : pc[i] \in Dead
=============================================================================
