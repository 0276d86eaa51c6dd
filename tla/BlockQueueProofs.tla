-------------------------- MODULE BlockQueueProofs --------------------------
(***************************************************************************)
(* BlockQueue for any number of producers, consumers and places: no wakeup *)
(* is lost, and the queue implements BoundedFifo.                          *)
(***************************************************************************)
EXTENDS BlockQueue, FiniteSetTheorems, TLAPS

(***************************************************************************)
(* How the number of threads at a place changes when only thread t moves.  *)
(***************************************************************************)
LEMMA CountMove ==
    ASSUME NEW S, IsFiniteSet(S), NEW old \in SUBSET S, NEW new \in SUBSET S,
           NEW t \in S, new \ {t} = old \ {t}
    PROVE  /\ Cardinality(old) \in Nat /\ Cardinality(new) \in Nat
           /\ t \in new /\ t \notin old => Cardinality(new) = Cardinality(old) + 1
           /\ t \notin new /\ t \in old => Cardinality(new) = Cardinality(old) - 1
           /\ (t \in new <=> t \in old) => Cardinality(new) = Cardinality(old)
<1>1. IsFiniteSet(old) /\ Cardinality(old) \in Nat /\ Cardinality(new) \in Nat
  BY FS_Subset, FS_CardinalityType
<1>2. /\ t \in new /\ t \notin old => new = old \cup {t}
      /\ (t \in new <=> t \in old) => new = old
  OBVIOUS
<1>3. t \notin new /\ t \in old => new = old \ {t}
  OBVIOUS
<1> QED
  BY <1>1, <1>2, <1>3, FS_AddElement, FS_RemoveElement

\* The mutex is owned exactly by the thread in the critical section.
MutexInv == \A t \in Threads : mutex = t <=> pc[t] \in Critical

\* An argument is pending until it is in _q; a result is there from then on.
Before == {"lock", "check", "wait", "woken", "body"}

ArgInv == /\ \A p \in Producers : pc[p] \in Before => in[p] \in Items
          /\ \A p \in Producers : pc[p] \notin Before => in[p] = None
          /\ \A c \in Consumers : pc[c] \in Before => out[c] = None

-----------------------------------------------------------------------------
(***************************************************************************)
(* How the number of threads of S at places A changes when only thread t   *)
(* of S moves, from pc[t] to w.                                            *)
(***************************************************************************)
LEMMA CountStep ==
    ASSUME NEW S, IsFiniteSet(S), NEW t \in S, NEW w, NEW A,
           pc'[t] = w, \A u \in S \ {t} : pc'[u] = pc[u]
    PROVE  /\ Count(S, A) \in Nat /\ Count(S, A)' \in Nat
           /\ w \in A /\ pc[t] \notin A => Count(S, A)' = Count(S, A) + 1
           /\ w \notin A /\ pc[t] \in A => Count(S, A)' = Count(S, A) - 1
           /\ (w \in A <=> pc[t] \in A) => Count(S, A)' = Count(S, A)
<1> DEFINE old == {u \in S : pc[u] \in A}
           new == {u \in S : pc'[u] \in A}
<1>1. /\ old \in SUBSET S /\ new \in SUBSET S
      /\ new \ {t} = old \ {t}
      /\ t \in old <=> pc[t] \in A
      /\ t \in new <=> w \in A
  OBVIOUS
<1>2. Count(S, A) = Cardinality(old) /\ Count(S, A)' = Cardinality(new)
  BY DEF Count
<1> HIDE DEF old, new
<1> QED
  BY <1>1, <1>2, CountMove

\* No thread of S moves.
LEMMA CountSame ==
    ASSUME NEW S, NEW A, IsFiniteSet(S), \A u \in S : pc'[u] = pc[u]
    PROVE  Count(S, A)' = Count(S, A) /\ Count(S, A) \in Nat
<1>1. {u \in S : pc'[u] \in A} = {u \in S : pc[u] \in A}
  OBVIOUS
<1>2. IsFiniteSet({u \in S : pc[u] \in A})
  BY FS_Subset
<1> QED
  BY <1>1, <1>2, FS_CardinalityType DEF Count

-----------------------------------------------------------------------------
(***************************************************************************)
(* The invariant without NoLostWakeup, first for the steps that leave the  *)
(* queue alone, then for the two that change it.                           *)
(***************************************************************************)
Safe == TypeOK /\ Len(q) <= Capacity /\ MutexInv /\ ArgInv /\ ConditionHolds

LEMMA LockSafe ==
    ASSUME Safe, NEW t \in Threads, Lock(t)
    PROVE  Safe'
<1> USE BlockQueueAssumption DEF Safe
<1>1. TypeOK' /\ Len(q)' <= Capacity
  BY DEF Lock, At, TypeOK, Critical, Threads, ConditionHolds
<1>2. MutexInv' /\ ArgInv'
  BY DEF Lock, At, TypeOK, MutexInv, ArgInv, Critical, Before, Threads
<1>3. ConditionHolds'
  BY DEF Lock, At, TypeOK, MutexInv, ConditionHolds, Critical, Threads
<1> QED
  BY <1>1, <1>2, <1>3

LEMMA SpuriousSafe ==
    ASSUME Safe, NEW t \in Threads, SpuriousWakeup(t)
    PROVE  Safe'
<1> USE BlockQueueAssumption DEF Safe
<1>1. TypeOK' /\ Len(q)' <= Capacity
  BY DEF SpuriousWakeup, At, TypeOK, Critical, Threads, ConditionHolds
<1>2. MutexInv' /\ ArgInv'
  BY DEF SpuriousWakeup, At, TypeOK, MutexInv, ArgInv, Critical, Before, Threads
<1>3. ConditionHolds'
  BY DEF SpuriousWakeup, At, TypeOK, MutexInv, ConditionHolds, Critical, Threads
<1> QED
  BY <1>1, <1>2, <1>3

LEMMA RelockSafe ==
    ASSUME Safe, NEW t \in Threads, Relock(t)
    PROVE  Safe'
<1> USE BlockQueueAssumption DEF Safe
<1>1. TypeOK' /\ Len(q)' <= Capacity
  BY DEF Relock, At, TypeOK, Critical, Threads, ConditionHolds
<1>2. MutexInv' /\ ArgInv'
  BY DEF Relock, At, TypeOK, MutexInv, ArgInv, Critical, Before, Threads
<1>3. ConditionHolds'
  BY DEF Relock, At, TypeOK, MutexInv, ConditionHolds, Critical, Threads
<1> QED
  BY <1>1, <1>2, <1>3

LEMMA UnlockSafe ==
    ASSUME Safe, NEW t \in Threads, Unlock(t)
    PROVE  Safe'
<1> USE BlockQueueAssumption DEF Safe
<1>1. TypeOK' /\ Len(q)' <= Capacity
  BY DEF Unlock, At, TypeOK, Critical, Threads, ConditionHolds
<1>2. MutexInv' /\ ArgInv'
  BY DEF Unlock, At, TypeOK, MutexInv, ArgInv, Critical, Before, Threads
<1>3. ConditionHolds'
  BY DEF Unlock, At, TypeOK, MutexInv, ConditionHolds, Critical, Threads
<1> QED
  BY <1>1, <1>2, <1>3

LEMMA WaitSafe ==
    ASSUME Safe, NEW t \in Threads, Wait(t)
    PROVE  Safe'
<1> USE BlockQueueAssumption DEF Safe
<1>1. TypeOK' /\ Len(q)' <= Capacity
  BY DEF Wait, At, TypeOK, Critical, Threads, ConditionHolds
<1>2. MutexInv' /\ ArgInv'
  BY DEF Wait, At, TypeOK, MutexInv, ArgInv, Critical, Before, Threads
<1>3. ConditionHolds'
  BY DEF Wait, At, TypeOK, MutexInv, ConditionHolds, Critical, Threads
<1> QED
  BY <1>1, <1>2, <1>3

LEMMA SignalSafe ==
    ASSUME Safe, NEW t \in Threads, NEW B, \A w \in B : w \in Threads /\ pc[w] = "wait", Signal(t, B)
    PROVE  Safe'
<1> USE BlockQueueAssumption DEF Safe
<1>1. TypeOK' /\ Len(q)' <= Capacity
  BY DEF Signal, At, TypeOK, Critical, Threads, ConditionHolds
<1>2. MutexInv' /\ ArgInv'
  BY DEF Signal, At, TypeOK, MutexInv, ArgInv, Critical, Before, Threads
<1>3. ConditionHolds'
  BY DEF Signal, At, TypeOK, MutexInv, ConditionHolds, Critical, Threads
<1> QED
  BY <1>1, <1>2, <1>3

LEMMA PushCallSafe ==
    ASSUME Safe, NEW p \in Producers, NEW v \in Items, PushCall(p, v)
    PROVE  Safe'
<1> USE BlockQueueAssumption DEF Safe
<1>1. TypeOK' /\ Len(q)' <= Capacity
  BY DEF PushCall, At, TypeOK, Critical, Threads, ConditionHolds
<1>2. MutexInv' /\ ArgInv'
  BY DEF PushCall, At, TypeOK, MutexInv, ArgInv, Critical, Before, Threads
<1>3. ConditionHolds'
  BY DEF PushCall, At, TypeOK, MutexInv, ConditionHolds, Critical, Threads
<1> QED
  BY <1>1, <1>2, <1>3

LEMMA PushReadySafe ==
    ASSUME Safe, NEW p \in Producers, PushReady(p)
    PROVE  Safe'
<1> USE BlockQueueAssumption DEF Safe
<1>1. TypeOK' /\ Len(q)' <= Capacity
  BY DEF PushReady, isFull, At, TypeOK, Critical, Threads, ConditionHolds
<1>2. MutexInv' /\ ArgInv'
  BY DEF PushReady, isFull, At, TypeOK, MutexInv, ArgInv, Critical, Before, Threads
<1>3. ConditionHolds'
  BY DEF PushReady, isFull, At, TypeOK, MutexInv, ConditionHolds, Critical, Threads
<1> QED
  BY <1>1, <1>2, <1>3

LEMMA PushBodySafe ==
    ASSUME Safe, NEW p \in Producers, PushBody(p)
    PROVE  Safe'
<1> USE BlockQueueAssumption DEF Safe
<1>1. TypeOK' /\ Len(q)' <= Capacity
  BY DEF PushBody, At, TypeOK, ArgInv, Before, Critical, Threads, ConditionHolds
<1>2. MutexInv' /\ ArgInv'
  BY DEF PushBody, At, TypeOK, MutexInv, ArgInv, Critical, Before, Threads
<1>3. ConditionHolds'
  BY DEF PushBody, At, TypeOK, MutexInv, ConditionHolds, Critical, Threads
<1> QED
  BY <1>1, <1>2, <1>3

LEMMA PopCallSafe ==
    ASSUME Safe, NEW c \in Consumers, PopCall(c)
    PROVE  Safe'
<1> USE BlockQueueAssumption DEF Safe
<1>1. TypeOK' /\ Len(q)' <= Capacity
  BY DEF PopCall, At, TypeOK, Critical, Threads, ConditionHolds
<1>2. MutexInv' /\ ArgInv'
  BY DEF PopCall, At, TypeOK, MutexInv, ArgInv, Critical, Before, Threads
<1>3. ConditionHolds'
  BY DEF PopCall, At, TypeOK, MutexInv, ConditionHolds, Critical, Threads
<1> QED
  BY <1>1, <1>2, <1>3

LEMMA PopReadySafe ==
    ASSUME Safe, NEW c \in Consumers, PopReady(c)
    PROVE  Safe'
<1> USE BlockQueueAssumption DEF Safe
<1>1. TypeOK' /\ Len(q)' <= Capacity
  BY DEF PopReady, isEmpty, At, TypeOK, Critical, Threads, ConditionHolds
<1>2. MutexInv' /\ ArgInv'
  BY DEF PopReady, isEmpty, At, TypeOK, MutexInv, ArgInv, Critical, Before, Threads
<1>3. ConditionHolds'
  BY DEF PopReady, isEmpty, At, TypeOK, MutexInv, ConditionHolds, Critical, Threads
<1> QED
  BY <1>1, <1>2, <1>3

LEMMA PopBodySafe ==
    ASSUME Safe, NEW c \in Consumers, PopBody(c)
    PROVE  Safe'
<1> USE BlockQueueAssumption DEF Safe
<1>1. TypeOK' /\ Len(q)' <= Capacity
  BY DEF PopBody, At, TypeOK, Critical, Threads, ConditionHolds
<1>2. MutexInv' /\ ArgInv'
  BY DEF PopBody, At, TypeOK, MutexInv, ArgInv, Critical, Before, Threads
<1>3. ConditionHolds'
  BY DEF PopBody, At, TypeOK, MutexInv, ConditionHolds, Critical, Threads
<1> QED
  BY <1>1, <1>2, <1>3

LEMMA SafeStep == Safe /\ [Next]_vars => Safe'
<1> SUFFICES ASSUME Safe, [Next]_vars PROVE Safe'
  OBVIOUS
<1>1. CASE UNCHANGED vars
  BY <1>1 DEF vars, Safe, TypeOK, MutexInv, ArgInv, ConditionHolds
<1>2. ASSUME NEW p \in Producers, NEW v \in Items, PushCall(p, v) PROVE Safe'
  BY <1>2, PushCallSafe
<1>3. ASSUME NEW p \in Producers, PushStep(p) PROVE Safe'
  <2>1. p \in Threads /\ \A w \in OnConsumerCond : w \in Threads /\ pc[w] = "wait"
    BY DEF Threads, OnConsumerCond
  <2>2. PushWait(p) => Wait(p)
    BY DEF PushWait
  <2>3. PushSignal(p) => Signal(p, OnConsumerCond)
    BY DEF PushSignal
  <2>4. CASE Signal(p, OnConsumerCond)
    BY <2>1, <2>4, SignalSafe
  <2> QED
    BY <1>3, <2>1, <2>2, <2>3, <2>4, LockSafe, WaitSafe, RelockSafe, PushReadySafe,
       PushBodySafe, UnlockSafe DEF PushStep
<1>4. ASSUME NEW c \in Consumers, PopStep(c) PROVE Safe'
  <2>1. c \in Threads /\ \A w \in OnProductorCond : w \in Threads /\ pc[w] = "wait"
    BY DEF Threads, OnProductorCond
  <2>2. PopWait(c) => Wait(c)
    BY DEF PopWait
  <2>3. PopSignal(c) => Signal(c, OnProductorCond)
    BY DEF PopSignal
  <2>4. CASE Signal(c, OnProductorCond)
    BY <2>1, <2>4, SignalSafe
  <2> QED
    BY <1>4, <2>1, <2>2, <2>3, <2>4, LockSafe, WaitSafe, RelockSafe, PopCallSafe,
       PopReadySafe, PopBodySafe, UnlockSafe DEF PopStep
<1>5. ASSUME NEW t \in Threads, SpuriousWakeup(t) PROVE Safe'
  BY <1>5, SpuriousSafe
<1> QED
  BY <1>1, <1>2, <1>3, <1>4, <1>5 DEF Next

-----------------------------------------------------------------------------
(***************************************************************************)
(* NoLostWakeup.  The promise made to one side, stated for that side: S    *)
(* are the threads that sleep on the condition, R the threads that signal  *)
(* it, n the number of things S could use.                                 *)
(***************************************************************************)
Promise(S, R, n) ==
    (\E t \in S : pc[t] = "wait") => n <= Awake(S) + Signalling(R)

LEMMA PlaceFacts ==
    /\ \A x \in {"lock", "woken", "check", "body"} : x \in AwakePlaces
    /\ \A x \in {"idle", "wait", "signal", "unlock"} : x \notin AwakePlaces
BY DEF AwakePlaces

(***************************************************************************)
(* A thread of either side moves and no other does.  The promise to S      *)
(* survives if what S can use shrinks with the thread that looked for it,  *)
(* or grows with the thread that will signal it.                           *)
(***************************************************************************)
LEMMA PromiseOwn ==
    ASSUME NEW S, NEW R, IsFiniteSet(S), IsFiniteSet(R), S \cap R = {},
           NEW t \in S, NEW w, pc'[t] = w, \A u \in (S \cup R) \ {t} : pc'[u] = pc[u],
           NEW n \in Int, NEW m \in Int, Promise(S, R, n),
           \/ m <= 0
           \/ m <= n /\ w # "wait" /\ (pc[t] \in AwakePlaces => w \in AwakePlaces)
           \/ m <= n - 1 /\ w # "wait"
    PROVE  (\E u \in S : pc'[u] = "wait") => m <= Awake(S)' + Signalling(R)'
<1>1. /\ Awake(S) \in Nat /\ Awake(S)' \in Nat
      /\ w \in AwakePlaces /\ pc[t] \notin AwakePlaces => Awake(S)' = Awake(S) + 1
      /\ w \notin AwakePlaces /\ pc[t] \in AwakePlaces => Awake(S)' = Awake(S) - 1
      /\ (w \in AwakePlaces <=> pc[t] \in AwakePlaces) => Awake(S)' = Awake(S)
  BY CountStep DEF Awake
<1>2. Signalling(R) \in Nat /\ Signalling(R)' = Signalling(R)
  BY CountSame DEF Signalling
<1>3. (\E u \in S : pc'[u] = "wait") /\ w # "wait" => \E u \in S : pc[u] = "wait"
  OBVIOUS
<1> QED
  BY <1>1, <1>2, <1>3 DEF Promise

LEMMA PromiseOther ==
    ASSUME NEW S, NEW R, IsFiniteSet(S), IsFiniteSet(R), S \cap R = {},
           NEW t \in R, NEW w, pc'[t] = w, \A u \in (S \cup R) \ {t} : pc'[u] = pc[u],
           NEW n \in Int, NEW m \in Int, Promise(S, R, n),
           \/ m <= n /\ pc[t] # "signal"
           \/ m <= n + 1 /\ pc[t] # "signal" /\ w = "signal"
    PROVE  (\E u \in S : pc'[u] = "wait") => m <= Awake(S)' + Signalling(R)'
<1>1. /\ Signalling(R) \in Nat /\ Signalling(R)' \in Nat
      /\ w \in {"signal"} /\ pc[t] \notin {"signal"} => Signalling(R)' = Signalling(R) + 1
      /\ (w \in {"signal"} <=> pc[t] \in {"signal"}) => Signalling(R)' = Signalling(R)
  BY CountStep DEF Signalling
<1>2. Awake(S) \in Nat /\ Awake(S)' = Awake(S)
  BY CountSame DEF Awake
<1>3. (\E u \in S : pc'[u] = "wait") => \E u \in S : pc[u] = "wait"
  OBVIOUS
<1> QED
  BY <1>1, <1>2, <1>3 DEF Promise

\* The same for every step in which one producer moves ...
LEMMA ProducerMoves ==
    ASSUME Safe, NoLostWakeup, NEW p \in Producers, NEW w,
           pc' = [pc EXCEPT ![p] = w], pc[p] # "signal",
           \/ q' = q /\ w # "wait" /\ (pc[p] \in AwakePlaces => w \in AwakePlaces)
           \/ q' = q /\ isFull
           \/ Len(q') = Len(q) + 1 /\ w = "signal"
    PROVE  NoLostWakeup'
<1> USE BlockQueueAssumption
<1>1. /\ Len(q) \in Int /\ Len(q') \in Int /\ Capacity \in Int
      /\ IsFiniteSet(Producers) /\ IsFiniteSet(Consumers)
      /\ pc'[p] = w /\ \A u \in (Producers \cup Consumers) \ {p} : pc'[u] = pc[u]
  BY DEF Safe, TypeOK, Threads
<1>2. /\ Promise(Consumers, Producers, Len(q))
      /\ Promise(Producers, Consumers, Capacity - Len(q))
  BY DEF NoLostWakeup, Promise, OnConsumerCond, OnProductorCond
<1>3. (\E u \in Consumers : pc'[u] = "wait")
          => Len(q') <= Awake(Consumers)' + Signalling(Producers)'
  BY <1>1, <1>2, PromiseOther
<1>4. \/ Capacity - Len(q') <= 0
      \/ /\ Capacity - Len(q') <= Capacity - Len(q)
         /\ w # "wait" /\ (pc[p] \in AwakePlaces => w \in AwakePlaces)
      \/ Capacity - Len(q') <= Capacity - Len(q) - 1 /\ w # "wait"
  BY <1>1 DEF isFull
<1>5. Capacity - Len(q) \in Int /\ Capacity - Len(q') \in Int
  BY <1>1
<1>6. (\E u \in Producers : pc'[u] = "wait")
          => Capacity - Len(q') <= Awake(Producers)' + Signalling(Consumers)'
  BY <1>1, <1>2, <1>4, <1>5, PromiseOwn
<1> QED
  BY <1>3, <1>6 DEF NoLostWakeup, OnConsumerCond, OnProductorCond

\* ... or one consumer.
LEMMA ConsumerMoves ==
    ASSUME Safe, NoLostWakeup, NEW c \in Consumers, NEW w,
           pc' = [pc EXCEPT ![c] = w], pc[c] # "signal",
           \/ q' = q /\ w # "wait" /\ (pc[c] \in AwakePlaces => w \in AwakePlaces)
           \/ q' = q /\ isEmpty
           \/ Len(q') = Len(q) - 1 /\ w = "signal"
    PROVE  NoLostWakeup'
<1> USE BlockQueueAssumption
<1>1. /\ Len(q) \in Int /\ Len(q') \in Int /\ Capacity \in Int
      /\ IsFiniteSet(Producers) /\ IsFiniteSet(Consumers)
      /\ pc'[c] = w /\ \A u \in (Producers \cup Consumers) \ {c} : pc'[u] = pc[u]
  BY DEF Safe, TypeOK, Threads
<1>2. /\ Promise(Consumers, Producers, Len(q))
      /\ Promise(Producers, Consumers, Capacity - Len(q))
  BY DEF NoLostWakeup, Promise, OnConsumerCond, OnProductorCond
<1>3. \/ Len(q') <= 0
      \/ /\ Len(q') <= Len(q)
         /\ w # "wait" /\ (pc[c] \in AwakePlaces => w \in AwakePlaces)
      \/ Len(q') <= Len(q) - 1 /\ w # "wait"
  BY <1>1 DEF isEmpty
<1>4. (\E u \in Consumers : pc'[u] = "wait")
          => Len(q') <= Awake(Consumers)' + Signalling(Producers)'
  BY <1>1, <1>2, <1>3, PromiseOwn
<1>5. /\ Capacity - Len(q) \in Int /\ Capacity - Len(q') \in Int
      /\ \/ Capacity - Len(q') <= Capacity - Len(q)
         \/ Capacity - Len(q') <= Capacity - Len(q) + 1 /\ w = "signal"
  BY <1>1
<1>6. (\E u \in Producers : pc'[u] = "wait")
          => Capacity - Len(q') <= Awake(Producers)' + Signalling(Consumers)'
  BY <1>1, <1>2, <1>5, PromiseOther
<1> QED
  BY <1>4, <1>6 DEF NoLostWakeup, OnConsumerCond, OnProductorCond

(***************************************************************************)
(* A signal: the signaller was counted for the other side, and the thread  *)
(* it wakes, if one sleeps, takes its place there.                         *)
(***************************************************************************)
LEMMA SignalKeepsPromise ==
    ASSUME NEW S, NEW R, IsFiniteSet(S), IsFiniteSet(R), S \cap R = {},
           S \cup R = Threads, DOMAIN pc = Threads,
           NEW t \in R, NEW n \in Int, NEW k \in Int,
           Signal(t, {u \in S : pc[u] = "wait"}),
           Promise(S, R, n), Promise(R, S, k)
    PROVE  /\ (\E u \in S : pc'[u] = "wait") => n <= Awake(S)' + Signalling(R)'
           /\ (\E u \in R : pc'[u] = "wait") => k <= Awake(R)' + Signalling(S)'
<1>1. CASE \A u \in S : pc[u] # "wait"
  <2>1. pc' = [pc EXCEPT ![t] = "unlock"]
    BY <1>1 DEF Signal
  <2>2. \A u \in S : pc'[u] # "wait"
    BY <1>1, <2>1
  <2>3. /\ pc[t] = "signal" /\ pc'[t] = "unlock"
        /\ \A u \in R \ {t} : pc'[u] = pc[u]
        /\ \A u \in S : pc'[u] = pc[u]
    BY <2>1 DEF Signal
  <2>4. Awake(R)' = Awake(R) /\ Awake(R) \in Nat
    BY <2>3, CountStep, PlaceFacts DEF Awake
  <2>5. Signalling(S)' = Signalling(S) /\ Signalling(S) \in Nat
    BY <2>3, CountSame DEF Signalling
  <2>6. (\E u \in R : pc'[u] = "wait") => \E u \in R : pc[u] = "wait"
    BY <2>3
  <2> QED
    BY <2>2, <2>4, <2>5, <2>6 DEF Promise
<1>2. CASE \E u \in S : pc[u] = "wait"
  <2>1. PICK w \in S : /\ pc[w] = "wait"
                       /\ pc' = [pc EXCEPT ![t] = "unlock", ![w] = "woken"]
    BY <1>2 DEF Signal
  <2>2. /\ pc[t] = "signal" /\ pc'[t] = "unlock" /\ pc'[w] = "woken"
        /\ \A u \in R \ {t} : pc'[u] = pc[u]
        /\ \A u \in S \ {w} : pc'[u] = pc[u]
    BY <2>1 DEF Signal
  <2>3. Awake(R)' = Awake(R) /\ Awake(R) \in Nat
    BY <2>2, CountStep, PlaceFacts DEF Awake
  <2>4. /\ Signalling(R) \in Nat /\ Signalling(R)' \in Nat
        /\ Signalling(R)' = Signalling(R) - 1
    <3>1. "unlock" \notin {"signal"} /\ pc[t] \in {"signal"}
      BY <2>2
    <3> QED
      BY <2>2, <3>1, CountStep DEF Signalling
  <2>5. /\ Awake(S) \in Nat /\ Awake(S)' \in Nat
        /\ Awake(S)' = Awake(S) + 1
    <3>1. "woken" \in AwakePlaces /\ pc[w] \notin AwakePlaces
      BY <2>1, PlaceFacts
    <3> QED
      BY <2>2, <3>1, CountStep DEF Awake
  <2>6. Signalling(S)' = Signalling(S) /\ Signalling(S) \in Nat
    <3>1. "woken" \in {"signal"} <=> pc[w] \in {"signal"}
      BY <2>1
    <3> QED
      BY <2>2, <3>1, CountStep DEF Signalling
  <2>7. (\E u \in R : pc'[u] = "wait") => \E u \in R : pc[u] = "wait"
    BY <2>2
  <2> QED
    BY <2>1, <2>3, <2>4, <2>5, <2>6, <2>7 DEF Promise
<1> QED
  BY <1>1, <1>2

LEMMA WakeStep == Safe /\ NoLostWakeup /\ [Next]_vars => NoLostWakeup'
<1> SUFFICES ASSUME Safe, NoLostWakeup, [Next]_vars PROVE NoLostWakeup'
  OBVIOUS
<1> USE BlockQueueAssumption
<1>0. q \in Seq(Items) /\ Len(q) \in Nat /\ DOMAIN pc = Threads
  BY DEF Safe, TypeOK, Critical
<1>1. CASE UNCHANGED vars
  BY <1>1 DEF vars, NoLostWakeup, OnConsumerCond, OnProductorCond, Awake, Signalling, Count
<1>2. ASSUME NEW p \in Producers, NEW v \in Items, PushCall(p, v) PROVE NoLostWakeup'
  BY <1>2, ProducerMoves, PlaceFacts DEF PushCall, At
<1>3. ASSUME NEW p \in Producers, PushStep(p) PROVE NoLostWakeup'
  <2>1. CASE Lock(p)
    BY <2>1, ProducerMoves, PlaceFacts DEF Lock, At
  <2>2. CASE PushWait(p)
    BY <2>2, ProducerMoves, PlaceFacts DEF PushWait, Wait, At
  <2>3. CASE Relock(p)
    BY <2>3, ProducerMoves, PlaceFacts DEF Relock, At
  <2>4. CASE PushReady(p)
    BY <2>4, ProducerMoves, PlaceFacts DEF PushReady, At
  <2>5. CASE PushBody(p)
    <3>1. Len(q') = Len(q) + 1
      BY <1>0, <2>5 DEF PushBody, At, Safe, ArgInv, Before
    <3> QED
      BY <2>5, <3>1, ProducerMoves, PlaceFacts DEF PushBody, At
  <2>6. CASE PushSignal(p)
    <3>1. /\ Signal(p, {u \in Consumers : pc[u] = "wait"}) /\ q' = q
          /\ Promise(Consumers, Producers, Len(q))
          /\ Promise(Producers, Consumers, Capacity - Len(q))
      BY <2>6 DEF PushSignal, Signal, OnConsumerCond, OnProductorCond, NoLostWakeup, Promise
    <3>2. Len(q) \in Int /\ Capacity - Len(q) \in Int /\ Consumers \cup Producers = Threads
      BY <1>0 DEF Threads
    <3> QED
      BY <1>0, <3>1, <3>2, SignalKeepsPromise DEF NoLostWakeup, OnConsumerCond, OnProductorCond
  <2>7. CASE Unlock(p)
    BY <2>7, ProducerMoves, PlaceFacts DEF Unlock, At
  <2> QED
    BY <1>3, <2>1, <2>2, <2>3, <2>4, <2>5, <2>6, <2>7 DEF PushStep
<1>4. ASSUME NEW c \in Consumers, PopStep(c) PROVE NoLostWakeup'
  <2>1. CASE PopCall(c)
    BY <2>1, ConsumerMoves, PlaceFacts DEF PopCall, At
  <2>2. CASE Lock(c)
    BY <2>2, ConsumerMoves, PlaceFacts DEF Lock, At
  <2>3. CASE PopWait(c)
    BY <2>3, ConsumerMoves, PlaceFacts DEF PopWait, Wait, At
  <2>4. CASE Relock(c)
    BY <2>4, ConsumerMoves, PlaceFacts DEF Relock, At
  <2>5. CASE PopReady(c)
    BY <2>5, ConsumerMoves, PlaceFacts DEF PopReady, At
  <2>6. CASE PopBody(c)
    <3>1. Len(q') = Len(q) - 1
      BY <1>0, <2>6 DEF PopBody, At, Safe, ConditionHolds
    <3> QED
      BY <2>6, <3>1, ConsumerMoves, PlaceFacts DEF PopBody, At
  <2>7. CASE PopSignal(c)
    <3>1. /\ Signal(c, {u \in Producers : pc[u] = "wait"}) /\ q' = q
          /\ Promise(Consumers, Producers, Len(q))
          /\ Promise(Producers, Consumers, Capacity - Len(q))
      BY <2>7 DEF PopSignal, Signal, OnConsumerCond, OnProductorCond, NoLostWakeup, Promise
    <3>2. Len(q) \in Int /\ Capacity - Len(q) \in Int /\ Producers \cup Consumers = Threads
      BY <1>0 DEF Threads
    <3> QED
      BY <1>0, <3>1, <3>2, SignalKeepsPromise DEF NoLostWakeup, OnConsumerCond, OnProductorCond
  <2>8. CASE Unlock(c)
    BY <2>8, ConsumerMoves, PlaceFacts DEF Unlock, At
  <2> QED
    BY <1>4, <2>1, <2>2, <2>3, <2>4, <2>5, <2>6, <2>7, <2>8 DEF PopStep
<1>5. ASSUME NEW t \in Threads, SpuriousWakeup(t) PROVE NoLostWakeup'
  <2>1. CASE t \in Producers
    BY <1>5, <2>1, ProducerMoves, PlaceFacts DEF SpuriousWakeup, At
  <2>2. CASE t \in Consumers
    BY <1>5, <2>2, ConsumerMoves, PlaceFacts DEF SpuriousWakeup, At
  <2> QED
    BY <2>1, <2>2 DEF Threads
<1> QED
  BY <1>1, <1>2, <1>3, <1>4, <1>5 DEF Next

-----------------------------------------------------------------------------
LEMMA InitInv == Init => Safe /\ NoLostWakeup
BY BlockQueueAssumption DEF Init, Safe, TypeOK, MutexInv, ArgInv, ConditionHolds, NoLostWakeup,
   OnConsumerCond, OnProductorCond, Threads, Critical, Before

\* The invariant holds in every reachable state.
THEOREM Invariance == Spec => [](Safe /\ NoLostWakeup)
BY InitInv, SafeStep, WakeStep, PTL DEF Spec

\* Every variable keeps its type.
THEOREM TypeCorrect == Spec => []TypeOK
BY Invariance, PTL DEF Safe

\* What push and pop checked still holds when they touch _q.
THEOREM CheckedConditionHolds == Spec => []ConditionHolds
BY Invariance, PTL DEF Safe

\* No sleeping thread has been forgotten by a signal.
THEOREM NoWakeupLost == Spec => []NoLostWakeup
BY Invariance, PTL

(***************************************************************************)
(* Every step of BlockQueue is a step of the bounded FIFO queue, or leaves *)
(* it alone: PushBody inserts, PopBody removes, the calls of push and pop  *)
(* are Call and Return, and everything that concerns the mutex and the     *)
(* condition variables is invisible.                                       *)
(***************************************************************************)
LEMMA StepRefines == Safe /\ [Next]_vars => [Fifo!Next]_(Fifo!vars)
<1> SUFFICES ASSUME Safe, [Next]_vars PROVE [Fifo!Next]_(Fifo!vars)
  OBVIOUS
<1> USE DEF Fifo!vars
<1>1. CASE UNCHANGED <<q, in, out>>
  BY <1>1
<1>2. ASSUME NEW p \in Producers, NEW v \in Items, PushCall(p, v) PROVE Fifo!Next
  <2>1. Fifo!Call(p, v)
    BY <1>2 DEF PushCall, At, Fifo!Call, Safe, ArgInv, Before
  <2> QED
    BY <2>1 DEF Fifo!Next
<1>3. ASSUME NEW p \in Producers, PushBody(p) PROVE Fifo!Next
  <2>1. Fifo!Insert(p)
    BY <1>3, BlockQueueAssumption
    DEF PushBody, At, Fifo!Insert, Safe, ArgInv, ConditionHolds, Before
  <2> QED
    BY <2>1 DEF Fifo!Next
<1>4. ASSUME NEW c \in Consumers, PopCall(c) PROVE Fifo!Next \/ UNCHANGED <<q, in, out>>
  <2>1. CASE out[c] = None
    BY <1>4, <2>1 DEF PopCall, Safe, TypeOK
  <2>2. CASE out[c] # None
    BY <1>4, <2>2 DEF PopCall, Fifo!Return, Fifo!Next
  <2> QED
    BY <2>1, <2>2
<1>5. ASSUME NEW c \in Consumers, PopBody(c) PROVE Fifo!Next
  <2>1. Fifo!Remove(c)
    BY <1>5 DEF PopBody, At, Fifo!Remove, Safe, TypeOK, ArgInv, ConditionHolds, Before
  <2> QED
    BY <2>1 DEF Fifo!Next
<1> QED
  BY <1>1, <1>2, <1>3, <1>4, <1>5
  DEF Next, vars, PushStep, PopStep, Lock, Wait, SpuriousWakeup, Relock, Signal, Unlock,
      PushWait, PushReady, PushSignal, PopWait, PopReady, PopSignal

\* BlockQueue implements the bounded FIFO queue.
THEOREM Refinement == Spec => IsFifo
<1>1. Init => Fifo!Init
  BY DEF Init, Fifo!Init
<1> QED
  BY <1>1, Invariance, StepRefines, PTL DEF Spec, IsFifo, Fifo!Spec

-----------------------------------------------------------------------------
\* Who can take a step of push or pop without being woken.
CanMove(t) ==
    \/ pc[t] \in Critical
    \/ pc[t] \in {"lock", "woken"} /\ mutex = NoOwner
    \/ pc[t] = "idle" /\ t \in Consumers

\* Nobody who has something to do waits while nobody can move.
NoStandstill ==
    (q # <<>> \/ \E p \in Producers : pc[p] # "idle") => \E t \in Threads : CanMove(t)

LEMMA NoneStuck ==
    ASSUME Safe, NoLostWakeup, Consumers # {}
    PROVE  NoStandstill
<1> SUFFICES ASSUME \A t \in Threads : ~ CanMove(t)
             PROVE  q = <<>> /\ \A p \in Producers : pc[p] = "idle"
  BY DEF NoStandstill
<1> USE BlockQueueAssumption DEF Safe
<1>1. mutex = NoOwner
  BY DEF CanMove, TypeOK, MutexInv
<1>2. \A c \in Consumers : pc[c] = "wait"
  BY <1>1 DEF CanMove, TypeOK, Threads
<1>3. \A p \in Producers : pc[p] \in {"idle", "wait"}
  BY <1>1 DEF CanMove, TypeOK, Threads
<1>4. /\ Awake(Consumers) = 0 /\ Awake(Producers) = 0
      /\ Signalling(Consumers) = 0 /\ Signalling(Producers) = 0
  <2>1. \A S \in {Producers, Consumers}, A \in {AwakePlaces, {"signal"}} : {t \in S : pc[t] \in A} = {}
    BY <1>2, <1>3 DEF AwakePlaces
  <2>2. \A S \in {Producers, Consumers}, A \in {AwakePlaces, {"signal"}} : Count(S, A) = 0
    BY <2>1, FS_EmptySet DEF Count
  <2> QED
    BY <2>2 DEF Awake, Signalling
<1>5. Len(q) = 0
  BY <1>2, <1>4 DEF NoLostWakeup, OnConsumerCond, TypeOK
<1>6. OnProductorCond = {}
  BY <1>4, <1>5 DEF NoLostWakeup, TypeOK
<1> QED
  BY <1>3, <1>5, <1>6 DEF OnProductorCond, TypeOK

(***************************************************************************)
(* The mutex and the two condition variables never end in a deadlock, and  *)
(* not everybody sleeps either: with a consumer, as long as there is an    *)
(* item or a push under way, some thread can move, and no spurious wakeup  *)
(* is needed for it.                                                       *)
(***************************************************************************)
THEOREM NeverStuck == ASSUME Consumers # {} PROVE Spec => []NoStandstill
<1>1. Safe /\ NoLostWakeup => NoStandstill
  BY NoneStuck
<1> QED
  BY <1>1, Invariance, PTL
=============================================================================
