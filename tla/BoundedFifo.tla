---------------------------- MODULE BoundedFifo ----------------------------
(***************************************************************************)
(* What a bounded blocking queue promises to the threads that use it: a    *)
(* push takes effect at one instant between its call and its return, and   *)
(* only while fewer than Capacity items are stored; a pop takes the oldest *)
(* item, exactly once.  RingQueue (two semaphores, two mutexes) and        *)
(* BlockQueue (one mutex, two condition variables) both implement it.      *)
(***************************************************************************)
EXTENDS Naturals, Sequences

CONSTANTS Producers,   \* threads that call push
          Consumers,   \* threads that call pop
          Capacity,    \* the number of items the queue may hold
          Items,       \* what is pushed
          None         \* no item

VARIABLES queue,       \* the items pushed and not yet popped, oldest first
          in,          \* in[p]: the item p asked to push that is not in yet
          out          \* out[c]: the item c's pop took and has not returned

vars == <<queue, in, out>>

Init == /\ queue = <<>>
        /\ in  = [p \in Producers |-> None]
        /\ out = [c \in Consumers |-> None]

Call(p, v) == /\ in[p] = None
              /\ in' = [in EXCEPT ![p] = v]
              /\ UNCHANGED <<queue, out>>

Insert(p) == /\ in[p] # None
             /\ Len(queue) < Capacity
             /\ queue' = Append(queue, in[p])
             /\ in' = [in EXCEPT ![p] = None]
             /\ UNCHANGED out

Remove(c) == /\ out[c] = None
             /\ queue # <<>>
             /\ out' = [out EXCEPT ![c] = Head(queue)]
             /\ queue' = Tail(queue)
             /\ UNCHANGED in

Return(c) == /\ out[c] # None
             /\ out' = [out EXCEPT ![c] = None]
             /\ UNCHANGED <<queue, in>>

Next == \/ \E p \in Producers : Insert(p) \/ \E v \in Items : Call(p, v)
        \/ \E c \in Consumers : Remove(c) \/ Return(c)

Spec == Init /\ [][Next]_vars
=============================================================================
