----------------------------- MODULE BlockQueue -----------------------------
(***************************************************************************)
(* 7.3/blockingQueue/blockQueue.hpp: a queue of at most Capacity items     *)
(* under one mutex, with one condition variable for the consumers (empty)  *)
(* and one for the producers (full).                                       *)
(*                                                                         *)
(* One action per call into pthread.  A thread at "wait" is blocked in     *)
(* pthread_cond_wait and has released the mutex; at "woken" it is still in *)
(* pthread_cond_wait, woken, and has to take the mutex again.  The threads *)
(* blocked on a condition variable are those of its side that are at       *)
(* "wait".  POSIX lets pthread_cond_wait return although nobody signalled: *)
(* SpuriousWakeups says whether that happens.                              *)
(***************************************************************************)
EXTENDS Integers, Sequences, FiniteSets

CONSTANTS Producers, Consumers, Capacity, Items, None, NoOwner,
          SpuriousWakeups

ASSUME BlockQueueAssumption ==
    /\ Capacity \in Nat \ {0}
    /\ IsFiniteSet(Producers) /\ IsFiniteSet(Consumers)
    /\ Producers \cap Consumers = {}
    /\ NoOwner \notin Producers \cup Consumers
    /\ None \notin Items
    /\ SpuriousWakeups \in BOOLEAN

VARIABLES q,      \* _q
          mutex,  \* the owner of _mutex, or NoOwner
          pc,     \* where each thread is in push or pop
          in,     \* in[p]: the argument of p's push
          out     \* out[c]: what c's pop stored through its pointer

vars == <<q, mutex, pc, in, out>>

Threads == Producers \cup Consumers

Init == /\ q = <<>>
        /\ mutex = NoOwner
        /\ pc = [t \in Threads |-> "idle"]
        /\ in = [p \in Producers |-> None]
        /\ out = [c \in Consumers |-> None]

isFull == Len(q) = Capacity
isEmpty == q = <<>>

At(t, here, there) == pc[t] = here /\ pc' = [pc EXCEPT ![t] = there]

\* The threads blocked on _consumerCond and on _productorCond.
OnConsumerCond == {c \in Consumers : pc[c] = "wait"}
OnProductorCond == {p \in Producers : pc[p] = "wait"}

-----------------------------------------------------------------------------
(* What push and pop share: the mutex and the condition variables. *)

Lock(t) == /\ At(t, "lock", "check")
           /\ mutex = NoOwner
           /\ mutex' = t
           /\ UNCHANGED <<q, in, out>>

\* pthread_cond_wait releases the mutex and blocks in one step ...
Wait(t) == /\ At(t, "check", "wait")
           /\ mutex' = NoOwner
           /\ UNCHANGED <<q, in, out>>

\* ... may be woken by nobody ...
SpuriousWakeup(t) == /\ SpuriousWakeups
                     /\ At(t, "wait", "woken")
                     /\ UNCHANGED <<q, mutex, in, out>>

\* Mutant: `if' in place of `while' around pthread_cond_wait.
RelockNoRecheck(t) == /\ At(t, "woken", "body")
                      /\ mutex = NoOwner
                      /\ mutex' = t
                      /\ UNCHANGED <<q, in, out>>

\* ... and returns, to the `while', only with the mutex.
Relock(t) == /\ At(t, "woken", "check")
             /\ mutex = NoOwner
             /\ mutex' = t
             /\ UNCHANGED <<q, in, out>>

\* pthread_cond_signal by t: one of the blocked threads, if any, is woken.
Signal(t, blocked) ==
    /\ pc[t] = "signal"
    /\ IF blocked = {}
       THEN pc' = [pc EXCEPT ![t] = "unlock"]
       ELSE \E w \in blocked :
                pc' = [pc EXCEPT ![t] = "unlock", ![w] = "woken"]
    /\ UNCHANGED <<q, mutex, in, out>>

Unlock(t) == /\ At(t, "unlock", "idle")
             /\ mutex' = NoOwner
             /\ UNCHANGED <<q, in, out>>

-----------------------------------------------------------------------------
(* push *)

PushCall(p, v) == /\ At(p, "idle", "lock")
                  /\ in' = [in EXCEPT ![p] = v]
                  /\ UNCHANGED <<q, mutex, out>>

PushWait(p) == isFull /\ Wait(p)

PushReady(p) == /\ ~ isFull
                /\ At(p, "check", "body")
                /\ UNCHANGED <<q, mutex, in, out>>

PushBody(p) == /\ At(p, "body", "signal")
               /\ q' = Append(q, in[p])
               /\ in' = [in EXCEPT ![p] = None]
               /\ UNCHANGED <<mutex, out>>

\* Mutant: the signal of push is forgotten.
PushSignalMissing(p) == /\ At(p, "signal", "unlock")
                        /\ UNCHANGED <<q, mutex, in, out>>

PushSignal(p) == Signal(p, OnConsumerCond)

-----------------------------------------------------------------------------
(* pop *)

PopCall(c) == /\ At(c, "idle", "lock")
              /\ out' = [out EXCEPT ![c] = None]
              /\ UNCHANGED <<q, mutex, in>>

PopWait(c) == isEmpty /\ Wait(c)

PopReady(c) == /\ ~ isEmpty
               /\ At(c, "check", "body")
               /\ UNCHANGED <<q, mutex, in, out>>

\* Mutant: pop takes the item last pushed.
PopBodyLast(c) == /\ At(c, "body", "signal")
                  /\ out' = [out EXCEPT ![c] = q[Len(q)]]
                  /\ q' = SubSeq(q, 1, Len(q) - 1)
                  /\ UNCHANGED <<mutex, in>>

PopBody(c) == /\ At(c, "body", "signal")
              /\ out' = [out EXCEPT ![c] = Head(q)]
              /\ q' = Tail(q)
              /\ UNCHANGED <<mutex, in>>

\* Mutant: pop signals the consumers, as the first version of the file did.
PopSignalWrongCond(c) == Signal(c, OnConsumerCond)

PopSignal(c) == Signal(c, OnProductorCond)

-----------------------------------------------------------------------------
PushStep(p) == \/ Lock(p) \/ PushWait(p) \/ Relock(p) \/ PushReady(p)
               \/ PushBody(p) \/ PushSignal(p) \/ Unlock(p)

PopStep(c) == \/ PopCall(c)
              \/ Lock(c) \/ PopWait(c) \/ Relock(c) \/ PopReady(c)
              \/ PopBody(c) \/ PopSignal(c) \/ Unlock(c)

Next == \/ \E p \in Producers : PushStep(p) \/ \E v \in Items : PushCall(p, v)
        \/ \E c \in Consumers : PopStep(c)
        \/ \E t \in Threads : SpuriousWakeup(t)

Spec == Init /\ [][Next]_vars

\* The consumers of cp.cc pop in an endless loop; no producer need call push.
\* Spurious wakeups, which are rare, do not go on for ever: a storm of them
\* could keep the mutex from every other thread.
FairSpec == /\ Spec
            /\ \A p \in Producers : WF_vars(PushStep(p))
            /\ \A c \in Consumers : WF_vars(PopStep(c))
            /\ <>[][\A t \in Threads : ~ SpuriousWakeup(t)]_vars

-----------------------------------------------------------------------------
Critical == {"check", "body", "signal", "unlock"}

TypeOK == /\ q \in Seq(Items)
          /\ mutex \in Threads \cup {NoOwner}
          /\ pc \in [Threads -> Critical \cup {"idle", "lock", "wait", "woken"}]
          /\ in \in [Producers -> Items \cup {None}]
          /\ out \in [Consumers -> Items \cup {None}]

(***************************************************************************)
(* The comment in push: "at any time, produce only when the condition      *)
(* holds".  Between the check and the push nobody else, and no wakeup,     *)
(* invalidates what was checked.                                           *)
(***************************************************************************)
ConditionHolds == /\ \A p \in Producers : pc[p] = "body" => Len(q) < Capacity
                  /\ \A c \in Consumers : pc[c] = "body" => Len(q) > 0

(***************************************************************************)
(* No wakeup is lost.  While a consumer sleeps, every stored item has a    *)
(* consumer that is awake and about to look, or a producer that is about   *)
(* to signal; while a producer sleeps, so has every free place.  (A signal *)
(* is one wakeup per item, so it is not enough that somebody is awake.)    *)
(***************************************************************************)
Count(S, places) == Cardinality({t \in S : pc[t] \in places})

AwakePlaces == {"lock", "woken", "check", "body"}
Awake(S) == Count(S, AwakePlaces)
Signalling(S) == Count(S, {"signal"})

NoLostWakeup ==
    /\ OnConsumerCond # {} => Len(q) <= Awake(Consumers) + Signalling(Producers)
    /\ OnProductorCond # {} =>
           Capacity - Len(q) <= Awake(Producers) + Signalling(Consumers)

-----------------------------------------------------------------------------
Fifo == INSTANCE BoundedFifo WITH queue <- q

\* Under the two condition variables _q is a bounded FIFO queue.
IsFifo == Fifo!Spec

\* Every stored item reaches a consumer, even if push is never called again.
Delivery == \A v \in Items :
    (\E i \in 1 .. Len(q) : q[i] = v) ~> (\E c \in Consumers : out[c] = v)

\* While a producer is inside push, some producer's push goes through.
PushProgress == (\E p \in Producers : pc[p] \in {"lock", "wait", "woken"})
                    ~> (\E p \in Producers : pc[p] = "signal")
\* Both: whatever is in the queue gets out, and whoever waits to push gets in.
Progress == Delivery /\ PushProgress
=============================================================================
