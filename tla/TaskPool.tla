------------------------------ MODULE TaskPool ------------------------------
(***************************************************************************)
(* What a thread pool promises to those who submit tasks: every task is    *)
(* started once, in the order of submission, by one of N workers, and      *)
(* finished by the worker that started it.                                 *)
(***************************************************************************)
EXTENDS Naturals, Sequences, FiniteSets

CONSTANTS Tasks, N

VARIABLES pending,  \* submitted and not started, oldest first
          running,  \* started and not finished
          done      \* finished

vars == <<pending, running, done>>

Known == {pending[i] : i \in 1 .. Len(pending)} \cup running \cup done

Init == pending = <<>> /\ running = {} /\ done = {}

Submit(t) == /\ t \notin Known
             /\ pending' = Append(pending, t)
             /\ UNCHANGED <<running, done>>

Start == /\ pending # <<>>
         /\ Cardinality(running) < N
         /\ running' = running \cup {Head(pending)}
         /\ pending' = Tail(pending)
         /\ UNCHANGED done

Finish(t) == /\ t \in running
             /\ running' = running \ {t}
             /\ done' = done \cup {t}
             /\ UNCHANGED pending

Next == Start \/ \E t \in Tasks : Submit(t) \/ Finish(t)

Spec == Init /\ [][Next]_vars
=============================================================================
