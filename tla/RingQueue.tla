----------------------------- MODULE RingQueue -----------------------------
(***************************************************************************)
(* 7.9/sem/RingQueue.hpp: a ring of Capacity slots between producer and    *)
(* consumer threads.  _space_sem counts the free slots and _data_sem the   *)
(* filled ones; _p_mtx serialises the producers and _c_mtx the consumers.  *)
(* Nothing excludes a producer from a consumer except the two semaphores,  *)
(* and both are used outside the mutexes: P before Lock, V after Unlock.   *)
(*                                                                         *)
(* One action per statement of push and pop.  The access to a slot takes   *)
(* two steps (the index is fetched and incremented, then the element is    *)
(* copied), so that two accesses to the same slot can overlap; a slot that *)
(* was never filled or is half overwritten holds None.                     *)
(***************************************************************************)
EXTENDS Integers, Sequences, FiniteSets

CONSTANTS Producers, Consumers, Capacity, Items, None, NoOwner

ASSUME RingQueueAssumption ==
    /\ Capacity \in Nat \ {0}
    /\ IsFiniteSet(Producers) /\ IsFiniteSet(Consumers)
    /\ Producers \cap Consumers = {}
    /\ NoOwner \notin Producers \cup Consumers
    /\ None \notin Items

VARIABLES
    Rqueue,       \* the vector of slots
    space_sem, data_sem,
    p_pos, c_pos, \* the slot the next push writes, the next pop reads
    p_mtx, c_mtx, \* the owner of each mutex, or NoOwner
    pc,           \* where each thread is in push or pop
    slot,         \* slot[t]: the index t fetched for the access it is making
    data,         \* data[p]: the argument of p's push
    pdata         \* pdata[c]: what c's pop stored through its pointer

vars == <<Rqueue, space_sem, data_sem, p_pos, c_pos, p_mtx, c_mtx, pc, slot,
          data, pdata>>

Threads == Producers \cup Consumers
Slots == 0 .. Capacity - 1

Init == /\ Rqueue = [s \in Slots |-> None]
        /\ space_sem = Capacity /\ data_sem = 0
        /\ p_pos = 0 /\ c_pos = 0
        /\ p_mtx = NoOwner /\ c_mtx = NoOwner
        /\ pc = [t \in Threads |-> "idle"]
        /\ slot = [t \in Threads |-> 0]
        /\ data = [p \in Producers |-> None]
        /\ pdata = [c \in Consumers |-> None]

At(t, here, there) == pc[t] = here /\ pc' = [pc EXCEPT ![t] = there]

-----------------------------------------------------------------------------
(* push *)

PushCall(p, v) ==
    /\ At(p, "idle", "P")
    /\ data' = [data EXCEPT ![p] = v]
    /\ UNCHANGED <<Rqueue, space_sem, data_sem, p_pos, c_pos, p_mtx, c_mtx,
                   slot, pdata>>

PushP(p) ==
    /\ At(p, "P", "lock")
    /\ space_sem > 0
    /\ space_sem' = space_sem - 1
    /\ UNCHANGED <<Rqueue, data_sem, p_pos, c_pos, p_mtx, c_mtx, slot, data,
                   pdata>>

\* Mutant: the producers are not serialised.
PushLockUnguarded(p) ==
    /\ At(p, "lock", "index")
    /\ p_mtx' = p
    /\ UNCHANGED <<Rqueue, space_sem, data_sem, p_pos, c_pos, c_mtx, slot,
                   data, pdata>>

PushLock(p) ==
    /\ At(p, "lock", "index")
    /\ p_mtx = NoOwner
    /\ p_mtx' = p
    /\ UNCHANGED <<Rqueue, space_sem, data_sem, p_pos, c_pos, c_mtx, slot,
                   data, pdata>>

\* _Rqueue[_p_pos++] = data, up to the beginning of the copy
PushIndex(p) ==
    /\ At(p, "index", "copy")
    /\ slot' = [slot EXCEPT ![p] = p_pos]
    /\ Rqueue' = [Rqueue EXCEPT ![p_pos] = None]
    /\ p_pos' = p_pos + 1
    /\ UNCHANGED <<space_sem, data_sem, c_pos, p_mtx, c_mtx, data, pdata>>

PushCopy(p) ==
    /\ At(p, "copy", "wrap")
    /\ Rqueue' = [Rqueue EXCEPT ![slot[p]] = data[p]]
    /\ UNCHANGED <<space_sem, data_sem, p_pos, c_pos, p_mtx, c_mtx, slot,
                   data, pdata>>

\* Mutant: the position is wrapped one step too late.
PushWrapLate(p) ==
    /\ At(p, "wrap", "unlock")
    /\ p_pos' = p_pos % (Capacity + 1)
    /\ UNCHANGED <<Rqueue, space_sem, data_sem, c_pos, p_mtx, c_mtx, slot,
                   data, pdata>>

PushWrap(p) ==
    /\ At(p, "wrap", "unlock")
    /\ p_pos' = p_pos % Capacity
    /\ UNCHANGED <<Rqueue, space_sem, data_sem, c_pos, p_mtx, c_mtx, slot,
                   data, pdata>>

PushUnlock(p) ==
    /\ At(p, "unlock", "V")
    /\ p_mtx' = NoOwner
    /\ UNCHANGED <<Rqueue, space_sem, data_sem, p_pos, c_pos, c_mtx, slot,
                   data, pdata>>

PushV(p) ==
    /\ At(p, "V", "idle")
    /\ data_sem' = data_sem + 1
    /\ data' = [data EXCEPT ![p] = None]
    /\ UNCHANGED <<Rqueue, space_sem, p_pos, c_pos, p_mtx, c_mtx, slot, pdata>>

-----------------------------------------------------------------------------
(* pop *)

PopCall(c) ==
    /\ At(c, "idle", "P")
    /\ pdata' = [pdata EXCEPT ![c] = None]
    /\ UNCHANGED <<Rqueue, space_sem, data_sem, p_pos, c_pos, p_mtx, c_mtx,
                   slot, data>>

PopP(c) ==
    /\ At(c, "P", "lock")
    /\ data_sem > 0
    /\ data_sem' = data_sem - 1
    /\ UNCHANGED <<Rqueue, space_sem, p_pos, c_pos, p_mtx, c_mtx, slot, data,
                   pdata>>

\* Mutant: the free slot is announced before it has been read.
PopLockEarlyV(c) ==
    /\ At(c, "lock", "index")
    /\ c_mtx = NoOwner
    /\ c_mtx' = c
    /\ space_sem' = space_sem + 1
    /\ UNCHANGED <<Rqueue, data_sem, p_pos, c_pos, p_mtx, slot, data, pdata>>

PopLock(c) ==
    /\ At(c, "lock", "index")
    /\ c_mtx = NoOwner
    /\ c_mtx' = c
    /\ UNCHANGED <<Rqueue, space_sem, data_sem, p_pos, c_pos, p_mtx, slot,
                   data, pdata>>

\* *pdata = _Rqueue[_c_pos++], up to the beginning of the copy
PopIndex(c) ==
    /\ At(c, "index", "copy")
    /\ slot' = [slot EXCEPT ![c] = c_pos]
    /\ c_pos' = c_pos + 1
    /\ UNCHANGED <<Rqueue, space_sem, data_sem, p_pos, p_mtx, c_mtx, data,
                   pdata>>

PopCopy(c) ==
    /\ At(c, "copy", "wrap")
    /\ pdata' = [pdata EXCEPT ![c] = Rqueue[slot[c]]]
    /\ UNCHANGED <<Rqueue, space_sem, data_sem, p_pos, c_pos, p_mtx, c_mtx,
                   slot, data>>

PopWrap(c) ==
    /\ At(c, "wrap", "unlock")
    /\ c_pos' = c_pos % Capacity
    /\ UNCHANGED <<Rqueue, space_sem, data_sem, p_pos, p_mtx, c_mtx, slot,
                   data, pdata>>

\* Mutant: the consumers' mutex is kept.
PopUnlockMissing(c) ==
    /\ At(c, "unlock", "V")
    /\ UNCHANGED <<Rqueue, space_sem, data_sem, p_pos, c_pos, p_mtx, c_mtx,
                   slot, data, pdata>>

PopUnlock(c) ==
    /\ At(c, "unlock", "V")
    /\ c_mtx' = NoOwner
    /\ UNCHANGED <<Rqueue, space_sem, data_sem, p_pos, c_pos, p_mtx, slot,
                   data, pdata>>

\* Mutant: pop gives nothing back.
PopVMissing(c) ==
    /\ At(c, "V", "idle")
    /\ UNCHANGED <<Rqueue, space_sem, data_sem, p_pos, c_pos, p_mtx, c_mtx,
                   slot, data, pdata>>

PopV(c) ==
    /\ At(c, "V", "idle")
    /\ space_sem' = space_sem + 1
    /\ UNCHANGED <<Rqueue, data_sem, p_pos, c_pos, p_mtx, c_mtx, slot, data,
                   pdata>>

-----------------------------------------------------------------------------
\* The steps of a push that has begun; a producer need never begin one.
PushStep(p) == \/ PushP(p) \/ PushLock(p) \/ PushIndex(p) \/ PushCopy(p)
               \/ PushWrap(p) \/ PushUnlock(p) \/ PushV(p)

\* A consumer pops in an endless loop.
PopStep(c) == \/ PopCall(c)
              \/ PopP(c) \/ PopLock(c) \/ PopIndex(c) \/ PopCopy(c)
              \/ PopWrap(c) \/ PopUnlock(c) \/ PopV(c)

Next == \/ \E p \in Producers : PushStep(p) \/ \E v \in Items : PushCall(p, v)
        \/ \E c \in Consumers : PopStep(c)

Spec == Init /\ [][Next]_vars

(***************************************************************************)
(* Each thread that can take a step eventually does.  This is weak         *)
(* fairness only: neither sem_wait nor pthread_mutex_lock promises a       *)
(* waiting thread that it is the next to be served.                        *)
(***************************************************************************)
FairSpec == /\ Spec
            /\ \A p \in Producers : WF_vars(PushStep(p))
            /\ \A c \in Consumers : WF_vars(PopStep(c))

-----------------------------------------------------------------------------
PushPlaces == {"lock", "index", "copy", "wrap", "unlock", "V"}

InPush(S) == {p \in Producers : pc[p] \in S}
InPop(S)  == {c \in Consumers : pc[c] \in S}

TypeOK == /\ Rqueue \in [Slots -> Items \cup {None}]
          /\ space_sem \in 0 .. Capacity /\ data_sem \in 0 .. Capacity
          /\ p_pos \in 0 .. Capacity /\ c_pos \in 0 .. Capacity
          /\ p_mtx \in Producers \cup {NoOwner}
          /\ c_mtx \in Consumers \cup {NoOwner}
          /\ pc \in [Threads -> PushPlaces \cup {"idle", "P"}]
          /\ slot \in [Threads -> Slots]
          /\ data \in [Producers -> Items \cup {None}]
          /\ pdata \in [Consumers -> Items \cup {None}]

(***************************************************************************)
(* 7.9/sem/info: a producer and a consumer never access the same position  *)
(* at once.  No lock says so: a slot someone is copying into or out of is  *)
(* being accessed by nobody else.                                          *)
(***************************************************************************)
SlotExclusion ==
    \A t, u \in Threads :
        (t # u /\ pc[t] = "copy" /\ pc[u] = "copy") => slot[t] # slot[u]

(***************************************************************************)
(* The permits of the two semaphores and the threads between a P and the V *)
(* that answers it account for every slot, whatever order the P, the locks *)
(* and the V of several threads come in: no permit is lost or forged.      *)
(***************************************************************************)
PermitsConserved ==
    space_sem + Cardinality(InPush(PushPlaces))
        + data_sem + Cardinality(InPop(PushPlaces)) = Capacity

-----------------------------------------------------------------------------
(* The abstract queue.  A push takes effect when its copy is complete, a   *)
(* pop when its copy is.                                                   *)

Unread == data_sem + Cardinality(InPop({"lock", "index", "copy"}))
                   + Cardinality(InPush({"wrap", "unlock", "V"}))

\* The slot of the oldest unread item, and the slot the next item goes to.
Front == IF c_mtx # NoOwner /\ pc[c_mtx] = "copy" THEN slot[c_mtx]
                                                  ELSE c_pos % Capacity
Back  == IF p_mtx # NoOwner /\ pc[p_mtx] = "copy" THEN slot[p_mtx]
                                                  ELSE p_pos % Capacity

(***************************************************************************)
(* The positions, which only the mutexes protect, and the permits, which   *)
(* no mutex protects, never disagree: the unread items are those from      *)
(* Front up to Back, around the ring at most once (7.9/sem/info: neither   *)
(* side laps the other).                                                   *)
(***************************************************************************)
NoLapping == /\ Unread \in 0 .. Capacity
             /\ Front + Unread \in {Back, Back + Capacity}

Contents == [i \in 1 .. Unread |-> Rqueue[(Front + i - 1) % Capacity]]

Fifo == INSTANCE BoundedFifo
        WITH queue <- Contents,
             in  <- [p \in Producers |->
                       IF pc[p] \in {"P", "lock", "index", "copy"}
                       THEN data[p] ELSE None],
             out <- pdata

\* The ring is a bounded FIFO queue: every push inserts its item once, every
\* pop takes the oldest item, whole, and at most Capacity are stored.
IsFifo == Fifo!Spec

(***************************************************************************)
(* Every item in the ring reaches a consumer, even if no push is ever      *)
(* called again: no permit or lock is left behind on the way.              *)
(***************************************************************************)
Delivery == \A v \in Items :
    (\E i \in 1 .. Unread : Contents[i] = v) ~> (\E c \in Consumers : pdata[c] = v)

\* A push that is waiting does not wait for ever while nobody's push returns:
\* a full ring is drained and a producer let in.
PushProgress == (\E p \in Producers : pc[p] = "P") ~> (\E p \in Producers : pc[p] = "V")
\* Both: whatever is in the queue gets out, and whoever waits to push gets in.
Progress == Delivery /\ PushProgress
=============================================================================
