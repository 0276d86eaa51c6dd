------------------------------- MODULE Reaper -------------------------------
(***************************************************************************)
(* Programs that wait for children: 6.18 with a handler of SIGCHLD         *)
(* ("wait") or with SIGCHLD ignored ("sigchld"), and 6.11/Core ("core"),   *)
(* which asks what ended its only child.                                   *)
(***************************************************************************)
EXTENDS Naturals

CONSTANT MaxForks   \* children forked: 10 in the code

VARIABLES
    program,
    pc,             \* main: it forks, then pauses; "core": waits, then ends
    child,          \* state of each child
    signalled,      \* SIGCHLD is pending: one bit however many children ended
    handling        \* the handler runs; SIGCHLD is blocked

vars == <<program, pc, child, signalled, handling>>

Forks == 1 .. IF program = "core" THEN 1 ELSE MaxForks

Init == /\ program \in {"wait", "sigchld", "core"}
        /\ pc = "fork" /\ child = [i \in 1 .. MaxForks |-> "none"]
        /\ signalled = FALSE /\ handling = FALSE

Left(i) == child[i] \in {"alive", "zombie"}

-----------------------------------------------------------------------------
\* main is held up while its handler runs.  A fork that fails is passed over.
Fork ==
    /\ pc = "fork" /\ ~ handling
    /\ \E i \in Forks :
          /\ child[i] = "none" /\ \A j \in 1 .. i - 1 : child[j] # "none"
          /\ \E forked \in {"alive", "gone"} : child' = [child EXCEPT ![i] = forked]
          /\ pc' = IF i + 1 \in Forks THEN "fork" ELSE "wait"
    /\ UNCHANGED <<program, signalled, handling>>

\* The child has printed its lines, or crashed ("core").
Exit(i) ==
    /\ child[i] = "alive"
    /\ child' = [child EXCEPT ![i] = IF program = "sigchld" THEN "gone" ELSE "zombie"]
    /\ signalled' = (program = "wait")
    /\ UNCHANGED <<program, pc, handling>>

Deliver ==
    /\ signalled /\ ~ handling
    /\ signalled' = FALSE /\ handling' = TRUE /\ UNCHANGED <<program, pc, child>>

\* Mutant: one signal, one child.
HandlerOnce ==
    /\ handling
    /\ \E i \in Forks : child[i] = "zombie" /\ child' = [child EXCEPT ![i] = "gone"]
    /\ handling' = FALSE /\ UNCHANGED <<program, pc, signalled>>

\* waitpid blocks while there are children but none has ended.
Handler ==
    /\ handling
    /\ \/ /\ \E i \in Forks : child[i] = "zombie" /\ child' = [child EXCEPT ![i] = "gone"]
          /\ UNCHANGED handling
       \/ (\A i \in Forks : ~ Left(i)) /\ handling' = FALSE /\ UNCHANGED child
    /\ UNCHANGED <<program, pc, signalled>>

\* waitpid(pid) of "core", also with the pid of a failed fork, and its report.
CoreMain ==
    /\ program = "core" /\ pc = "wait" /\ child[1] \in {"zombie", "gone"}
    /\ child' = [child EXCEPT ![1] = "gone"] /\ pc' = "done"
    /\ UNCHANGED <<program, signalled, handling>>

Next == Fork \/ (\E i \in Forks : Exit(i)) \/ Deliver \/ Handler \/ CoreMain

\* What goes on as long as it can: everything.
System == Next

-----------------------------------------------------------------------------
(***************************************************************************)
(* No child stays a zombie, although signals of children that end during   *)
(* the handler or together are merged into one, and the handler may come   *)
(* before the last child is forked.                                        *)
(***************************************************************************)
Settled == \A i \in Forks : child[i] = "gone"
=============================================================================
