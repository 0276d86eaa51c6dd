------------------------------ MODULE Tickets ------------------------------
(***************************************************************************)
(* 6.29: NUM threads sell tickets under one mutex, taken directly          *)
(* (6.29/mutex) or by a guard object whose destructor gives it back        *)
(* (6.29/Thread_lock); main starts them and waits for them in turn.        *)
(***************************************************************************)
EXTENDS Naturals, Sequences

CONSTANTS NUM, MaxTickets   \* how many threads; ticket_num at the beginning

VARIABLES
    pc,             \* of each thread
    status,         \* Thread::_status, which main sets
    mutex,          \* its holder, or 0
    ticket_num,
    sold            \* the numbers printed, in order

sell_vars == <<pc, status, mutex, ticket_num, sold>>

Threads == 1 .. NUM

SellInit == /\ pc = [i \in Threads |-> "new"]
        /\ status = [i \in Threads |-> "NEW"]
        /\ mutex = 0
        /\ ticket_num = MaxTickets
        /\ sold = <<>>

Goto(i, l) == pc' = [pc EXCEPT ![i] = l]

-----------------------------------------------------------------------------
Run(i) ==
    /\ status[i] = "NEW" /\ \A j \in 1 .. i - 1 : status[j] # "NEW"
    /\ status' = [status EXCEPT ![i] = "RUNNING"]
    /\ Goto(i, "lock")
    /\ UNCHANGED <<mutex, ticket_num, sold>>

Join(i) ==
    /\ \A j \in Threads : status[j] # "NEW"
    /\ status[i] = "RUNNING" /\ \A j \in 1 .. i - 1 : status[j] = "EXITED"
    /\ pc[i] = "done"
    /\ status' = [status EXCEPT ![i] = "EXITED"]
    /\ UNCHANGED <<pc, mutex, ticket_num, sold>>

Main == \E i \in Threads : Run(i) \/ Join(i)

\* Mutant: the threads sell without the mutex.
LockNothing(i) ==
    /\ pc[i] = "lock"
    /\ mutex' = i /\ Goto(i, "test")
    /\ UNCHANGED <<status, ticket_num, sold>>

Lock(i) ==
    /\ pc[i] = "lock" /\ mutex = 0
    /\ mutex' = i /\ Goto(i, "test")
    /\ UNCHANGED <<status, ticket_num, sold>>

Test(i) ==
    /\ pc[i] = "test"
    /\ Goto(i, IF ticket_num > 0 THEN "print" ELSE "leave")
    /\ UNCHANGED <<status, mutex, ticket_num, sold>>

Sell(i) ==
    /\ pc[i] = "print"
    /\ sold' = Append(sold, ticket_num) /\ Goto(i, "take")
    /\ UNCHANGED <<status, mutex, ticket_num>>

Take(i) ==
    /\ pc[i] = "take"
    /\ ticket_num' = ticket_num - 1 /\ Goto(i, "unlock")
    /\ UNCHANGED <<status, mutex, sold>>

CriticalSection(i) == Test(i) \/ Sell(i) \/ Take(i)

\* At the end of the round, or on the way out of the loop.
Unlock(i) ==
    /\ pc[i] \in {"unlock", "leave"}
    /\ mutex' = 0 /\ Goto(i, IF pc[i] = "unlock" THEN "lock" ELSE "done")
    /\ UNCHANGED <<status, ticket_num, sold>>

PthreadFunc(i) == Lock(i) \/ CriticalSection(i) \/ Unlock(i)

SellNext == Main \/ \E i \in Threads : PthreadFunc(i)

SellSpec == SellInit /\ [][SellNext]_sell_vars

-----------------------------------------------------------------------------
(***************************************************************************)
(* Every ticket is sold once: the numbers printed go down by one, from the *)
(* first ticket, whichever thread prints them; and all are sold when main  *)
(* has seen the last thread end.                                           *)
(***************************************************************************)
SoldOnce == /\ \A n \in 1 .. Len(sold) : sold[n] = MaxTickets + 1 - n
            /\ Len(sold) <= MaxTickets
            /\ (\A i \in Threads : status[i] = "EXITED") /\ NUM > 0 => Len(sold) = MaxTickets

\* Main returns.
SellSettled == \A i \in Threads : status[i] = "EXITED"
=============================================================================
