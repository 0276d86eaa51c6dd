----------------------------- MODULE ThreadDemos -----------------------------
(***************************************************************************)
(* Two programs with threads.  6.28/detach: main joins a thread that       *)
(* detaches itself.  7.3/mythread: threads wait on a condition without a   *)
(* predicate, main broadcasts every second.                                *)
(***************************************************************************)
EXTENDS Naturals

CONSTANTS Waiters,      \* the threads of 7.3/mythread
          Lines         \* what a thread of 6.28/detach prints: 5 in the code

VARIABLES
    program,
    pc,
    owner,      \* who holds the mutex, or "nobody"
    detached, cnt, ret      \* of 6.28/detach: the thread, its counter, join's result

vars == <<program, pc, owner, detached, cnt, ret>>

EINVAL == 22
ESRCH == 3

Init == /\ owner = "nobody" /\ detached = FALSE /\ ret = 0
        /\ \/ /\ program = "detach" /\ cnt = Lines
              /\ pc = [p \in {"main", "thread"} |-> IF p = "main" THEN "join" ELSE "start"]
           \/ program = "broadcast" /\ cnt = 0 /\ pc = [t \in Waiters |-> "lock"]

Goto(p, l) == pc' = [pc EXCEPT ![p] = l]
Running == program = "detach" /\ pc["main"] # "done"

-----------------------------------------------------------------------------
\* With main in pthread_join already, detaching does nothing.
Detach ==
    /\ Running /\ pc["thread"] = "start"
    /\ detached' = (pc["main"] = "join") /\ Goto("thread", "print")
    /\ UNCHANGED <<program, owner, cnt, ret>>

PrintLine ==
    /\ Running /\ pc["thread"] = "print"
    /\ IF cnt > 0 THEN cnt' = cnt - 1 /\ UNCHANGED pc ELSE Goto("thread", "ended") /\ UNCHANGED cnt
    /\ UNCHANGED <<program, owner, detached, ret>>

\* join fails on a detached thread; one that has ended as well is forgotten.
JoinCalled ==
    /\ Running /\ pc["main"] = "join"
    /\ IF detached
       THEN Goto("main", "done") /\ ret' \in {EINVAL} \cup (IF pc["thread"] = "ended" THEN {ESRCH} ELSE {})
       ELSE Goto("main", "joining") /\ UNCHANGED ret
    /\ UNCHANGED <<program, owner, detached, cnt>>

\* Mutant: main does not wait.
JoinedEarly ==
    /\ Running /\ pc["main"] = "joining"
    /\ Goto("main", "done") /\ UNCHANGED <<program, owner, detached, cnt, ret>>

Joined ==
    /\ Running /\ pc["main"] = "joining" /\ pc["thread"] = "ended"
    /\ Goto("main", "done") /\ UNCHANGED <<program, owner, detached, cnt, ret>>

DetachMain == JoinCalled \/ Joined
DetachThread == Detach \/ PrintLine

-----------------------------------------------------------------------------
\* pthread_mutex_lock, then pthread_cond_wait gives the mutex back.
WaitCond(t) ==
    /\ program = "broadcast" /\ pc[t] = "lock" /\ owner = "nobody"
    /\ Goto(t, "wait") /\ UNCHANGED <<program, owner, detached, cnt, ret>>

\* A waiter that was woken has to get the mutex again.
Woken(t) ==
    /\ program = "broadcast" /\ pc[t] = "woken" /\ owner = "nobody"
    /\ owner' = t /\ Goto(t, "print") /\ UNCHANGED <<program, detached, cnt, ret>>

PrintUnlock(t) ==
    /\ program = "broadcast" /\ pc[t] = "print"
    /\ owner' = "nobody" /\ Goto(t, "lock") /\ UNCHANGED <<program, detached, cnt, ret>>

ThreadFunc(t) == WaitCond(t) \/ Woken(t) \/ PrintUnlock(t)

\* Who does not wait yet misses it.
Broadcast ==
    /\ program = "broadcast"
    /\ pc' = [t \in Waiters |-> IF pc[t] = "wait" THEN "woken" ELSE pc[t]]
    /\ UNCHANGED <<program, owner, detached, cnt, ret>>

Next == DetachMain \/ DetachThread \/ Broadcast \/ \E t \in Waiters : ThreadFunc(t)

\* What goes on as long as it can: everything.
System == Next

-----------------------------------------------------------------------------
(***************************************************************************)
(* However the thread's detaching and main's joining fall, main is told    *)
(* that the thread has ended only when it has printed everything.          *)
(***************************************************************************)
JoinTellsTruth == program = "detach" /\ pc["main"] = "done" /\ ret = 0 => cnt = 0

\* main of 6.28/detach ends; of 7.3 some thread prints again and again,
\* although a broadcast is lost on who does not wait.
Settled == IF program = "detach" THEN pc["main"] = "done" ELSE \E t \in Waiters : pc[t] = "print"
=============================================================================
