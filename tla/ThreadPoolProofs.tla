-------------------------- MODULE ThreadPoolProofs --------------------------
(***************************************************************************)
(* ThreadPool for any number of users, workers and tasks: double-checked   *)
(* locking builds one pool, and no worker sleeps on while tasks outnumber  *)
(* the threads that are coming for them.                                   *)
(***************************************************************************)
EXTENDS ThreadPool, FiniteSetTheorems, TLAPS

(***************************************************************************)
(* How the number of threads at a place changes when only thread t moves.  *)
(***************************************************************************)
LEMMA CountMove ==
    ASSUME NEW S, IsFiniteSet(S), NEW old \in SUBSET S, NEW new \in SUBSET S,
           NEW t \in S, new \ {t} = old \ {t}
    PROVE  /\ Cardinality(old) \in Nat /\ Cardinality(new) \in Nat
           /\ t \in new /\ t \notin old => Cardinality(new) = Cardinality(old) + 1
           /\ t \notin new /\ t \in old => Cardinality(new) = Cardinality(old) - 1
           /\ (t \in new <=> t \in old) => Cardinality(new) = Cardinality(old)
<1>1. IsFiniteSet(old) /\ Cardinality(old) \in Nat /\ Cardinality(new) \in Nat
  BY FS_Subset, FS_CardinalityType
<1>2. /\ t \in new /\ t \notin old => new = old \cup {t}
      /\ (t \in new <=> t \in old) => new = old
  OBVIOUS
<1>3. t \notin new /\ t \in old => new = old \ {t}
  OBVIOUS
<1> QED
  BY <1>1, <1>2, <1>3, FS_AddElement, FS_RemoveElement

UserPlaces == {"get", "static_lock", "inner_check", "new", "start", "static_unlock",
               "push", "enqueue", "signal", "unlock"}

WorkerPlaces == {"none", "lock", "woken", "check", "wait", "leave", "run"}

PlacesOK == /\ pc \in [Threads -> UserPlaces \cup WorkerPlaces]
            /\ \A u \in Users : pc[u] \in UserPlaces
            /\ \A w \in Workers : pc[w] \in WorkerPlaces

\* The part of get_instance between static_lock and static_unlock.
StaticCritical == {"inner_check", "new", "start", "static_unlock"}

\* _static_mtx is owned exactly by the user inside that part; one pool was
\* built if _instance is assigned, none otherwise; and the user about to build
\* one found _instance null under the lock.
InstanceInv == /\ instance \in BOOLEAN
               /\ built = IF instance THEN 1 ELSE 0
               /\ \A u \in Users : pc[u] \in StaticCritical <=> static_mtx = u
               /\ \A u \in Users : pc[u] = "new" => ~ instance

\* What the counting argument needs to know of the data: the queue is a
\* sequence, and a worker that was not started is nowhere.
QueueInv == /\ tasks \in Seq(Tasks \cup {NoTask})
            /\ task \in [Threads -> Tasks \cup {NoTask}]
            /\ status \in [Workers -> {"NEW", "RUNNING"}]
            /\ \A w \in Workers : status[w] = "NEW" => pc[w] = "none"

LEMMA Disjoint == /\ Users \cap Workers = {}
                  /\ NoOwner \notin Users
                  /\ IsFiniteSet(Users) /\ IsFiniteSet(Workers)
BY ThreadPoolAssumption, FS_Interval DEF Workers

-----------------------------------------------------------------------------
(***************************************************************************)
(* The inductive step of the invariants.                                   *)
(***************************************************************************)
LEMMA PlacesStep == PlacesOK /\ QueueInv /\ [Next]_vars => PlacesOK'
<1> SUFFICES ASSUME PlacesOK, QueueInv, [Next]_vars
             PROVE  PlacesOK'
  OBVIOUS
<1> USE Disjoint DEF Threads, PlacesOK, UserPlaces, WorkerPlaces
<1>1. ASSUME NEW u \in Users, UserStep(u) PROVE PlacesOK'
  <2>1. CASE OuterCheck(u) BY <2>1 DEF OuterCheck, At
  <2>2. CASE StaticLock(u) BY <2>2 DEF StaticLock, At
  <2>3. CASE InnerCheck(u) BY <2>3 DEF InnerCheck, At
  <2>4. CASE Build(u) BY <2>4 DEF Build, At
  <2>5. CASE \E w \in Workers : Run(u, w) BY <2>5 DEF Run
  <2>6. CASE StartedAll(u) BY <2>6 DEF StartedAll, At
  <2>7. CASE StaticUnlock(u) BY <2>7 DEF StaticUnlock, At
  <2>8. CASE \E t \in Tasks : PushLock(u, t) BY <2>8 DEF PushLock, At
  <2>9. CASE PushNothing(u) BY <2>9 DEF PushNothing, At
  <2>10. CASE Enqueue(u) BY <2>10 DEF Enqueue, At
  <2>11. CASE threadWakeup(u) BY <2>11 DEF threadWakeup, Waiting
  <2>12. CASE PushUnlock(u) BY <2>12 DEF PushUnlock, At
  <2> QED
    BY <1>1, <2>1, <2>2, <2>3, <2>4, <2>5, <2>6, <2>7, <2>8, <2>9, <2>10, <2>11, <2>12
       DEF UserStep
<1>2. ASSUME NEW w \in Workers, WorkerStep(w) \/ SpuriousWakeup(w) PROVE PlacesOK'
  <2>1. CASE TakeLock(w) BY <2>1 DEF TakeLock
  <2>2. CASE threadWait(w) BY <2>2 DEF threadWait, At
  <2>3. CASE popTask(w) BY <2>3 DEF popTask, At
  <2>4. CASE Leave(w) BY <2>4 DEF Leave, At
  <2>5. CASE RunTask(w) BY <2>5 DEF RunTask, At
  <2>6. CASE SpuriousWakeup(w) BY <2>6 DEF SpuriousWakeup, At
  <2> QED
    BY <1>2, <2>1, <2>2, <2>3, <2>4, <2>5, <2>6 DEF WorkerStep
<1>3. CASE UNCHANGED vars
  BY <1>3 DEF vars
<1> QED
  BY <1>1, <1>2, <1>3 DEF Next

LEMMA InstanceStep == PlacesOK /\ InstanceInv /\ [Next]_vars => InstanceInv'
<1> SUFFICES ASSUME PlacesOK, InstanceInv, [Next]_vars
             PROVE  InstanceInv'
  OBVIOUS
<1> USE Disjoint DEF Threads, PlacesOK, InstanceInv, StaticCritical
<1>1. ASSUME NEW u \in Users, UserStep(u) PROVE InstanceInv'
  <2>1. CASE OuterCheck(u) BY <2>1 DEF OuterCheck, At
  <2>2. CASE StaticLock(u) BY <2>2 DEF StaticLock, At
  <2>3. CASE InnerCheck(u) BY <2>3 DEF InnerCheck, At
  <2>4. CASE Build(u) BY <2>4 DEF Build, At
  <2>5. CASE \E w \in Workers : Run(u, w) BY <2>5 DEF Run
  <2>6. CASE StartedAll(u) BY <2>6 DEF StartedAll, At
  <2>7. CASE StaticUnlock(u) BY <2>7 DEF StaticUnlock, At
  <2>8. CASE \E t \in Tasks : PushLock(u, t) BY <2>8 DEF PushLock, At
  <2>9. CASE PushNothing(u) BY <2>9 DEF PushNothing, At
  <2>10. CASE Enqueue(u) BY <2>10 DEF Enqueue, At
  <2>11. CASE threadWakeup(u) BY <2>11 DEF threadWakeup, Waiting
  <2>12. CASE PushUnlock(u) BY <2>12 DEF PushUnlock, At
  <2> QED
    BY <1>1, <2>1, <2>2, <2>3, <2>4, <2>5, <2>6, <2>7, <2>8, <2>9, <2>10, <2>11, <2>12
       DEF UserStep
<1>2. ASSUME NEW w \in Workers, WorkerStep(w) \/ SpuriousWakeup(w) PROVE InstanceInv'
  <2>1. UNCHANGED <<instance, built, static_mtx>> /\ \A u \in Users : pc'[u] = pc[u]
    BY <1>2 DEF WorkerStep, TakeLock, threadWait, popTask, Leave, RunTask, SpuriousWakeup, At
  <2> QED
    BY <2>1
<1>3. CASE UNCHANGED vars
  BY <1>3 DEF vars
<1> QED
  BY <1>1, <1>2, <1>3 DEF Next

LEMMA QueueStep == PlacesOK /\ QueueInv /\ [Next]_vars => QueueInv'
<1> SUFFICES ASSUME PlacesOK, QueueInv, [Next]_vars
             PROVE  QueueInv'
  OBVIOUS
<1> USE Disjoint DEF Threads, PlacesOK, QueueInv
<1>1. ASSUME NEW u \in Users, UserStep(u) PROVE QueueInv'
  <2>1. CASE OuterCheck(u) BY <2>1 DEF OuterCheck, At
  <2>2. CASE StaticLock(u) BY <2>2 DEF StaticLock, At
  <2>3. CASE InnerCheck(u) BY <2>3 DEF InnerCheck, At
  <2>4. CASE Build(u) BY <2>4 DEF Build, At
  <2>5. CASE \E w \in Workers : Run(u, w) BY <2>5 DEF Run
  <2>6. CASE StartedAll(u) BY <2>6 DEF StartedAll, At
  <2>7. CASE StaticUnlock(u) BY <2>7 DEF StaticUnlock, At
  <2>8. CASE \E t \in Tasks : PushLock(u, t) BY <2>8 DEF PushLock, At
  <2>9. CASE PushNothing(u) BY <2>9 DEF PushNothing, At
  <2>10. CASE Enqueue(u) BY <2>10 DEF Enqueue, At
  <2>11. CASE threadWakeup(u) BY <2>11 DEF threadWakeup, Waiting
  <2>12. CASE PushUnlock(u) BY <2>12 DEF PushUnlock, At
  <2> QED
    BY <1>1, <2>1, <2>2, <2>3, <2>4, <2>5, <2>6, <2>7, <2>8, <2>9, <2>10, <2>11, <2>12
       DEF UserStep
<1>2. ASSUME NEW w \in Workers, WorkerStep(w) \/ SpuriousWakeup(w) PROVE QueueInv'
  <2>1. CASE TakeLock(w) BY <2>1 DEF TakeLock
  <2>2. CASE threadWait(w) BY <2>2 DEF threadWait, At
  <2>3. CASE popTask(w)
    <3>1. Head(tasks) \in Tasks \cup {NoTask} /\ Tail(tasks) \in Seq(Tasks \cup {NoTask})
      BY <2>3 DEF popTask
    <3> QED
      BY <2>3, <3>1 DEF popTask, At
  <2>4. CASE Leave(w) BY <2>4 DEF Leave, At
  <2>5. CASE RunTask(w) BY <2>5 DEF RunTask, At
  <2>6. CASE SpuriousWakeup(w) BY <2>6 DEF SpuriousWakeup, At
  <2> QED
    BY <1>2, <2>1, <2>2, <2>3, <2>4, <2>5, <2>6 DEF WorkerStep
<1>3. CASE UNCHANGED vars
  BY <1>3 DEF vars
<1> QED
  BY <1>1, <1>2, <1>3 DEF Next

LEMMA Invariants == Spec => [](PlacesOK /\ InstanceInv /\ QueueInv)
<1>1. ASSUME Init PROVE PlacesOK /\ InstanceInv /\ QueueInv
  <2>1. PlacesOK
    BY <1>1, Disjoint DEF Init, PlacesOK, Threads, UserPlaces, WorkerPlaces
  <2>2. InstanceInv
    BY <1>1, Disjoint DEF Init, InstanceInv, Threads, StaticCritical
  <2>3. QueueInv
    BY <1>1, Disjoint DEF Init, QueueInv, Threads
  <2> QED
    BY <2>1, <2>2, <2>3
<1>2. PlacesOK /\ InstanceInv /\ QueueInv /\ [Next]_vars
        => (PlacesOK /\ InstanceInv /\ QueueInv)'
  BY PlacesStep, InstanceStep, QueueStep
<1> QED
  BY <1>1, <1>2, PTL DEF Spec

(***************************************************************************)
(* get_instance builds one pool however many users race for it.            *)
(***************************************************************************)
THEOREM OnePool == Spec => []SingleInstance
<1>1. InstanceInv => SingleInstance
  BY DEF InstanceInv, SingleInstance, StaticCritical
<1> QED
  BY <1>1, Invariants, PTL
-----------------------------------------------------------------------------
(***************************************************************************)
(* Counting the workers that are about to look and the users about to      *)
(* signal, of whom a step moves at most one each.                          *)
(***************************************************************************)
LookPlaces == {"lock", "woken", "check"}

Looking == {w \in Workers : pc[w] \in LookPlaces}

Signalling == {u \in Users : pc[u] = "signal"}

LEMMA LookingMove ==
    ASSUME NEW w \in Workers, NEW place, pc'[w] = place,
           \A x \in Workers \ {w} : pc'[x] = pc[x]
    PROVE  /\ Cardinality(Looking) \in Nat /\ Cardinality(Looking)' \in Nat
           /\ place \in LookPlaces /\ pc[w] \notin LookPlaces
                => Cardinality(Looking)' = Cardinality(Looking) + 1
           /\ place \notin LookPlaces /\ pc[w] \in LookPlaces
                => Cardinality(Looking)' = Cardinality(Looking) - 1
           /\ (place \in LookPlaces <=> pc[w] \in LookPlaces)
                => Cardinality(Looking)' = Cardinality(Looking)
<1>1. /\ Looking \in SUBSET Workers /\ Looking' \in SUBSET Workers
      /\ Looking' \ {w} = Looking \ {w}
      /\ w \in Looking <=> pc[w] \in LookPlaces
      /\ w \in Looking' <=> place \in LookPlaces
  BY DEF Looking, LookPlaces
<1> QED
  BY <1>1, Disjoint, CountMove

LEMMA SignallingMove ==
    ASSUME NEW u \in Users, NEW place, pc'[u] = place,
           \A v \in Users \ {u} : pc'[v] = pc[v]
    PROVE  /\ Cardinality(Signalling) \in Nat /\ Cardinality(Signalling)' \in Nat
           /\ place = "signal" /\ pc[u] # "signal"
                => Cardinality(Signalling)' = Cardinality(Signalling) + 1
           /\ place # "signal" /\ pc[u] = "signal"
                => Cardinality(Signalling)' = Cardinality(Signalling) - 1
           /\ (place = "signal" <=> pc[u] = "signal")
                => Cardinality(Signalling)' = Cardinality(Signalling)
<1>1. /\ Signalling \in SUBSET Users /\ Signalling' \in SUBSET Users
      /\ Signalling' \ {u} = Signalling \ {u}
      /\ u \in Signalling <=> pc[u] = "signal"
      /\ u \in Signalling' <=> place = "signal"
  BY DEF Signalling
<1> QED
  BY <1>1, Disjoint, CountMove

LEMMA LookingSame ==
    ASSUME \A w \in Workers : pc'[w] = pc[w]
    PROVE  Cardinality(Looking)' = Cardinality(Looking) /\ Cardinality(Looking) \in Nat
<1>1. Looking' = Looking
  BY DEF Looking, LookPlaces
<1>2. Cardinality(Looking) \in Nat
  BY Disjoint, FS_Subset, FS_CardinalityType DEF Looking
<1> QED
  BY <1>1, <1>2

LEMMA SignallingSame ==
    ASSUME \A u \in Users : pc'[u] = pc[u]
    PROVE  Cardinality(Signalling)' = Cardinality(Signalling) /\ Cardinality(Signalling) \in Nat
<1>1. Signalling' = Signalling
  BY DEF Signalling
<1>2. Cardinality(Signalling) \in Nat
  BY Disjoint, FS_Subset, FS_CardinalityType DEF Signalling
<1> QED
  BY <1>1, <1>2

LEMMA NoIdleWorkerIs ==
    /\ NoIdleWorker <=>
          ((\E w \in Workers : pc[w] = "wait")
              => Len(tasks) <= Cardinality(Looking) + Cardinality(Signalling))
    /\ NoIdleWorker' <=>
          ((\E w \in Workers : pc'[w] = "wait")
              => Len(tasks') <= Cardinality(Looking)' + Cardinality(Signalling)')
BY DEF NoIdleWorker, Waiting, Looking, Signalling, LookPlaces

LEMMA NoIdleWorkerStep ==
    PlacesOK /\ QueueInv /\ NoIdleWorker /\ [Next]_vars => NoIdleWorker'
<1> SUFFICES ASSUME PlacesOK, QueueInv, NoIdleWorker, [Next]_vars
             PROVE  NoIdleWorker'
  OBVIOUS
<1> DEFINE L == Cardinality(Looking)
           S == Cardinality(Signalling)
<1>1. (\E w \in Workers : pc[w] = "wait") => Len(tasks) <= L + S
  BY NoIdleWorkerIs
<1>2. SUFFICES ASSUME \E w \in Workers : pc'[w] = "wait"
               PROVE  Len(tasks') <= L' + S'
  BY NoIdleWorkerIs
<1>3. Len(tasks) \in Nat
  BY DEF QueueInv
<1> HIDE DEF L, S
<1> USE Disjoint DEF Threads, PlacesOK, UserPlaces, WorkerPlaces
\* A user's step that moves nobody else and leaves the queue alone.
<1>4. ASSUME NEW u \in Users, UNCHANGED tasks, pc[u] # "signal", pc'[u] # "signal",
             \A t \in Threads \ {u} : pc'[t] = pc[t]
      PROVE  Len(tasks') <= L' + S'
  <2>1. L' = L /\ L \in Nat
    BY <1>4, LookingSame DEF L
  <2>2. S' = S /\ S \in Nat
    BY <1>4, SignallingMove DEF S
  <2> QED
    BY <1>1, <1>2, <1>4, <2>1, <2>2
\* A worker's step that makes no worker look away and leaves the queue alone.
<1>5. ASSUME NEW w \in Workers, UNCHANGED tasks, pc'[w] # "wait",
             pc[w] \in LookPlaces => pc'[w] \in LookPlaces,
             \A t \in Threads \ {w} : pc'[t] = pc[t]
      PROVE  Len(tasks') <= L' + S'
  <2>1. L \in Nat /\ L' \in Nat /\ L' >= L
    BY <1>5, LookingMove DEF L
  <2>2. S' = S /\ S \in Nat
    BY <1>5, SignallingSame DEF S
  <2>3. \E x \in Workers : pc[x] = "wait"
    BY <1>2, <1>5
  <2> QED
    BY <1>1, <1>3, <1>5, <2>1, <2>2, <2>3
<1>6. ASSUME NEW u \in Users, UserStep(u) PROVE Len(tasks') <= L' + S'
  <2>1. CASE OuterCheck(u) BY <1>4, <2>1 DEF OuterCheck, At
  <2>2. CASE StaticLock(u) BY <1>4, <2>2 DEF StaticLock, At
  <2>3. CASE InnerCheck(u) BY <1>4, <2>3 DEF InnerCheck, At
  <2>4. CASE Build(u) BY <1>4, <2>4 DEF Build, At
  <2>5. CASE \E w \in Workers : Run(u, w)
    <3>1. PICK w \in Workers : Run(u, w)
      BY <2>5
    <3>2. CASE UNCHANGED pc
      BY <1>4, <3>1, <3>2 DEF Run
    <3>3. CASE pc' = [pc EXCEPT ![w] = "lock"]
      <4>1. pc[w] = "none"
        BY <3>1 DEF Run, QueueInv
      <4> QED
        BY <1>5, <3>1, <3>3, <4>1 DEF Run, LookPlaces
    <3> QED
      BY <3>1, <3>2, <3>3 DEF Run
  <2>6. CASE StartedAll(u) BY <1>4, <2>6 DEF StartedAll, At
  <2>7. CASE StaticUnlock(u) BY <1>4, <2>7 DEF StaticUnlock, At
  <2>8. CASE \E t \in Tasks : PushLock(u, t) BY <1>4, <2>8 DEF PushLock, At
  <2>9. CASE PushNothing(u) BY <1>4, <2>9 DEF PushNothing, At
  <2>10. CASE Enqueue(u)
    <3>1. L' = L /\ L \in Nat
      BY <2>10, LookingSame DEF L, Enqueue, At
    <3>2. S' = S + 1 /\ S \in Nat
      BY <2>10, SignallingMove DEF S, Enqueue, At
    <3>3. Len(tasks') = Len(tasks) + 1
      BY <2>10 DEF Enqueue, QueueInv
    <3>4. \E w \in Workers : pc[w] = "wait"
      BY <1>2, <2>10 DEF Enqueue, At
    <3> QED
      BY <1>1, <1>3, <3>1, <3>2, <3>3, <3>4
  <2>11. CASE threadWakeup(u)
    <3>1. PICK w \in Workers : /\ pc[w] = "wait"
                               /\ pc' = [pc EXCEPT ![u] = "unlock", ![w] = "woken"]
      BY <1>2, <2>11 DEF threadWakeup, Waiting
    <3>2. L' = L + 1 /\ L \in Nat
      <4>1. pc'[w] = "woken" /\ \A x \in Workers \ {w} : pc'[x] = pc[x]
        BY <3>1
      <4> QED
        BY <3>1, <4>1, LookingMove DEF L, LookPlaces
    <3>3. S' = S - 1 /\ S \in Nat
      <4>1. pc'[u] = "unlock" /\ \A v \in Users \ {u} : pc'[v] = pc[v]
        BY <3>1
      <4> QED
        BY <2>11, <4>1, SignallingMove DEF S, threadWakeup
    <3> QED
      BY <1>1, <1>3, <2>11, <3>1, <3>2, <3>3 DEF threadWakeup
  <2>12. CASE PushUnlock(u) BY <1>4, <2>12 DEF PushUnlock, At
  <2> QED
    BY <1>6, <2>1, <2>2, <2>3, <2>4, <2>5, <2>6, <2>7, <2>8, <2>9, <2>10, <2>11, <2>12
       DEF UserStep
<1>7. ASSUME NEW w \in Workers, WorkerStep(w) \/ SpuriousWakeup(w)
      PROVE  Len(tasks') <= L' + S'
  <2> USE DEF LookPlaces
  <2>1. CASE TakeLock(w) BY <1>5, <2>1 DEF TakeLock
  <2>2. CASE threadWait(w)
    \* A worker goes to sleep only on an empty queue.
    <3>1. L' = L - 1 /\ L \in Nat /\ L' \in Nat
      BY <2>2, LookingMove DEF L, threadWait, At
    <3>2. S' = S /\ S \in Nat
      BY <2>2, SignallingSame DEF S, threadWait, At
    <3>3. Len(tasks') = 0
      BY <2>2 DEF threadWait
    <3>4. L - 1 >= 0
      BY <3>1
    <3> QED
      BY <3>1, <3>2, <3>3, <3>4
  <2>3. CASE popTask(w)
    <3>1. L' = L - 1 /\ L \in Nat
      BY <2>3, LookingMove DEF L, popTask, At
    <3>2. S' = S /\ S \in Nat
      BY <2>3, SignallingSame DEF S, popTask, At
    <3>3. Len(tasks') = Len(tasks) - 1
      BY <2>3 DEF popTask, QueueInv
    <3>4. \E x \in Workers : pc[x] = "wait"
      BY <1>2, <2>3 DEF popTask, At
    <3> QED
      BY <1>1, <1>3, <3>1, <3>2, <3>3, <3>4
  <2>4. CASE Leave(w) BY <1>5, <2>4 DEF Leave, At
  <2>5. CASE RunTask(w) BY <1>5, <2>5 DEF RunTask, At
  <2>6. CASE SpuriousWakeup(w) BY <1>5, <2>6 DEF SpuriousWakeup, At
  <2> QED
    BY <1>7, <2>1, <2>2, <2>3, <2>4, <2>5, <2>6 DEF WorkerStep
<1>8. CASE UNCHANGED vars
  <2>1. L' = L /\ S' = S /\ tasks' = tasks /\ pc' = pc
    BY <1>8, LookingSame, SignallingSame DEF L, S, vars
  <2> QED
    BY <1>1, <1>2, <2>1
<1> QED
  BY <1>6, <1>7, <1>8 DEF Next

(***************************************************************************)
(* No wakeup of the pool is lost: while a worker sleeps, each queued task  *)
(* has a worker awake to look for it or a user about to signal.            *)
(***************************************************************************)
THEOREM NoWorkerIdles == Spec => []NoIdleWorker
<1>1. Init => NoIdleWorker
  BY Disjoint DEF Init, NoIdleWorker, Waiting, Threads
<1>2. PlacesOK /\ QueueInv /\ NoIdleWorker /\ [Next]_vars => NoIdleWorker'
  BY NoIdleWorkerStep
<1> QED
  BY <1>1, <1>2, Invariants, PTL DEF Spec
-----------------------------------------------------------------------------
(***************************************************************************)
(* The pool implements TaskPool.  A task is in one place at a time: not    *)
(* pushed, in the hands of one thread, in the queue once, or done.         *)
(***************************************************************************)
HandPlaces == {"enqueue", "leave", "run"}

InHand == {t \in Threads : pc[t] \in HandPlaces}

OnePlace ==
    /\ todo \subseteq Tasks /\ todo \cap done = {}
    /\ \A t \in InHand : task[t] \in Tasks \ (todo \cup done)
    /\ \A s, t \in InHand : task[s] = task[t] => s = t
    /\ \A i \in 1 .. Len(tasks) : /\ tasks[i] \in Tasks \ (todo \cup done)
                                  /\ \A t \in InHand : task[t] # tasks[i]
                                  /\ \A j \in 1 .. Len(tasks) : tasks[i] = tasks[j] => i = j

\* What the steps do that move no task.
Idle == /\ UNCHANGED <<tasks, task, todo, done>>
        /\ \A t \in Threads : pc'[t] \in HandPlaces <=> pc[t] \in HandPlaces
        /\ \A t \in Workers : pc'[t] \in {"leave", "run"} <=> pc[t] \in {"leave", "run"}

LEMMA IdleSteps ==
    ASSUME PlacesOK, QueueInv, [Next]_vars,
           \A u \in Users : ~ Enqueue(u) /\ \A t \in Tasks : ~ PushLock(u, t),
           \A w \in Workers : ~ popTask(w) /\ ~ RunTask(w)
    PROVE  Idle
<1> USE Disjoint DEF Threads, PlacesOK, HandPlaces, Idle
<1>1. ASSUME NEW u \in Users, UserStep(u) PROVE Idle
  <2>1. CASE OuterCheck(u) \/ StaticLock(u) \/ InnerCheck(u) \/ Build(u)
    BY <2>1 DEF OuterCheck, StaticLock, InnerCheck, Build, At
  <2>2. CASE \E w \in Workers : Run(u, w)
    BY <2>2 DEF Run, QueueInv
  <2>3. CASE StartedAll(u) \/ StaticUnlock(u) \/ PushNothing(u) \/ PushUnlock(u)
    BY <2>3 DEF StartedAll, StaticUnlock, PushNothing, PushUnlock, At
  <2>4. CASE threadWakeup(u)
    BY <2>4 DEF threadWakeup, Waiting
  <2> QED
    BY <1>1, <2>1, <2>2, <2>3, <2>4 DEF UserStep
<1>2. ASSUME NEW w \in Workers, WorkerStep(w) \/ SpuriousWakeup(w) PROVE Idle
  <2>1. CASE TakeLock(w)
    BY <2>1 DEF TakeLock
  <2>2. CASE threadWait(w) \/ Leave(w) \/ SpuriousWakeup(w)
    BY <2>2 DEF threadWait, Leave, SpuriousWakeup, At
  <2> QED
    BY <1>2, <2>1, <2>2 DEF WorkerStep
<1>3. CASE UNCHANGED vars
  BY <1>3 DEF vars
<1> QED
  BY <1>1, <1>2, <1>3 DEF Next

LEMMA OnePlaceStep == PlacesOK /\ QueueInv /\ OnePlace /\ [Next]_vars => OnePlace'
<1> SUFFICES ASSUME PlacesOK, QueueInv, OnePlace, [Next]_vars
             PROVE  OnePlace'
  OBVIOUS
<1> USE Disjoint DEF Threads, PlacesOK
<1>1. ASSUME NEW u \in Users, NEW t \in Tasks, PushLock(u, t) PROVE OnePlace'
  <2>1. /\ t \in todo /\ todo' = todo \ {t} /\ UNCHANGED <<tasks, done>>
        /\ pc[u] = "push" /\ pc'[u] = "enqueue" /\ task'[u] = t
        /\ \A s \in Threads \ {u} : pc'[s] = pc[s] /\ task'[s] = task[s]
    BY <1>1 DEF PushLock, At, QueueInv
  <2>2. InHand' = InHand \cup {u} /\ u \notin InHand
    BY <2>1 DEF InHand, HandPlaces
  <2>3. \A s \in InHand : s # u /\ task'[s] = task[s] /\ task'[s] # t
    BY <2>1, <2>2 DEF OnePlace, InHand
  <2>4. \A i \in 1 .. Len(tasks) : tasks[i] # t
    BY <2>1 DEF OnePlace
  <2> QED
    BY <2>1, <2>2, <2>3, <2>4 DEF OnePlace
<1>2. ASSUME NEW u \in Users, Enqueue(u) PROVE OnePlace'
  <2>1. /\ tasks' = Append(tasks, task[u]) /\ UNCHANGED <<todo, done>>
        /\ pc[u] = "enqueue" /\ pc'[u] = "signal"
        /\ \A s \in Threads \ {u} : pc'[s] = pc[s] /\ task'[s] = task[s]
    BY <1>2 DEF Enqueue, At, QueueInv
  <2>2. InHand' = InHand \ {u} /\ u \in InHand
    BY <2>1 DEF InHand, HandPlaces
  <2>3. /\ Len(tasks') = Len(tasks) + 1 /\ Len(tasks) \in Nat
        /\ \A i \in 1 .. Len(tasks) : tasks'[i] = tasks[i]
        /\ tasks'[Len(tasks) + 1] = task[u]
    BY <2>1 DEF QueueInv
  <2>4. \A s \in InHand' : s \in InHand /\ s # u /\ task'[s] = task[s]
    BY <2>1, <2>2 DEF InHand
  <2>5. ASSUME NEW i \in 1 .. Len(tasks')
        PROVE  \/ i \in 1 .. Len(tasks) /\ tasks'[i] = tasks[i]
               \/ i = Len(tasks) + 1 /\ tasks'[i] = task[u]
    BY <2>3
  <2>6. ASSUME NEW i \in 1 .. Len(tasks'), NEW j \in 1 .. Len(tasks'), tasks'[i] = tasks'[j]
        PROVE  i = j
    BY <2>2, <2>5, <2>6 DEF OnePlace
  <2>7. ASSUME NEW i \in 1 .. Len(tasks')
        PROVE  /\ tasks'[i] \in Tasks \ (todo' \cup done')
               /\ \A s \in InHand' : task'[s] # tasks'[i]
    BY <2>1, <2>2, <2>4, <2>5 DEF OnePlace
  <2> QED
    BY <2>1, <2>4, <2>6, <2>7 DEF OnePlace
<1>3. ASSUME NEW w \in Workers, popTask(w) PROVE OnePlace'
  <2>1. /\ tasks # <<>> /\ tasks' = Tail(tasks) /\ UNCHANGED <<todo, done>>
        /\ pc[w] = "check" /\ pc'[w] = "leave" /\ task'[w] = Head(tasks)
        /\ \A s \in Threads \ {w} : pc'[s] = pc[s] /\ task'[s] = task[s]
    BY <1>3 DEF popTask, At, QueueInv
  <2>2. InHand' = InHand \cup {w} /\ w \notin InHand
    BY <2>1 DEF InHand, HandPlaces
  <2>3. /\ Head(tasks) = tasks[1] /\ Len(tasks) \in Nat \ {0}
        /\ Len(tasks') = Len(tasks) - 1
        /\ \A i \in 1 .. Len(tasks') : i + 1 \in 1 .. Len(tasks) /\ tasks'[i] = tasks[i + 1]
    BY <2>1 DEF QueueInv
  <2>4. \A s \in InHand : s # w /\ task'[s] = task[s] /\ task'[s] # tasks[1]
    BY <2>1, <2>2, <2>3 DEF OnePlace, InHand
  <2>5. \A i \in 1 .. Len(tasks') : tasks'[i] # tasks[1]
    BY <2>3 DEF OnePlace
  <2>6. tasks[1] \in Tasks \ (todo \cup done)
    BY <2>3 DEF OnePlace
  <2>7. ASSUME NEW i \in 1 .. Len(tasks'), NEW j \in 1 .. Len(tasks'), tasks'[i] = tasks'[j]
        PROVE  i = j
    <3>1. i + 1 = j + 1
      BY <2>3, <2>7 DEF OnePlace
    <3> QED
      BY <3>1
  <2>8. ASSUME NEW i \in 1 .. Len(tasks')
        PROVE  /\ tasks'[i] \in Tasks \ (todo' \cup done')
               /\ \A s \in InHand' : task'[s] # tasks'[i]
    BY <2>1, <2>2, <2>3, <2>4, <2>5 DEF OnePlace
  <2>9. \A s \in InHand' : task'[s] \in Tasks \ (todo' \cup done')
    BY <2>1, <2>2, <2>3, <2>4, <2>6 DEF OnePlace
  <2>10. \A s, t \in InHand' : task'[s] = task'[t] => s = t
    BY <2>1, <2>2, <2>3, <2>4 DEF OnePlace
  <2> QED
    BY <2>1, <2>7, <2>8, <2>9, <2>10 DEF OnePlace
<1>4. ASSUME NEW w \in Workers, RunTask(w) PROVE OnePlace'
  <2>1. /\ done' = done \cup {task[w]} /\ UNCHANGED <<tasks, todo>>
        /\ pc[w] = "run" /\ pc'[w] = "lock"
        /\ \A s \in Threads \ {w} : pc'[s] = pc[s] /\ task'[s] = task[s]
    BY <1>4 DEF RunTask, At, QueueInv
  <2>2. InHand' = InHand \ {w} /\ w \in InHand
    BY <2>1 DEF InHand, HandPlaces
  <2>3. \A s \in InHand' : s \in InHand /\ task'[s] = task[s] /\ task'[s] # task[w]
    BY <2>1, <2>2 DEF OnePlace, InHand
  <2> QED
    BY <2>1, <2>2, <2>3 DEF OnePlace
<1>5. CASE Idle
  <2>1. InHand' = InHand /\ UNCHANGED <<tasks, task, todo, done>>
    BY <1>5 DEF Idle, InHand
  <2> QED
    BY <2>1 DEF OnePlace
<1> QED
  BY <1>1, <1>2, <1>3, <1>4, <1>5, IdleSteps

\* The tasks that workers have taken and not finished.
Running == {task[w] : w \in {x \in Workers : pc[x] \in {"leave", "run"}}}

\* There are at most as many as other workers while one looks for a task.
LEMMA RoomForOne ==
    ASSUME PlacesOK, NEW w \in Workers, pc[w] = "check"
    PROVE  Cardinality(Running) < Cap
<1> DEFINE others == Workers \ {w}
           busy == {x \in Workers : pc[x] \in {"leave", "run"}}
<1>1. Cap \in Nat /\ IsFiniteSet(Workers) /\ Cardinality(Workers) = Cap
  BY ThreadPoolAssumption, FS_Interval DEF Workers
<1>2. IsFiniteSet(others) /\ Cardinality(others) = Cap - 1
  BY <1>1, FS_RemoveElement
<1>3. busy \subseteq others
  OBVIOUS
<1>4. IsFiniteSet(busy) /\ Cardinality(busy) <= Cap - 1
  BY <1>2, <1>3, FS_Subset
<1>5. IsFiniteSet(Running) /\ Cardinality(Running) <= Cardinality(busy)
  <2> DEFINE f == [x \in busy |-> task[x]]
  <2>1. f \in Surjection(busy, Running)
    BY DEF Surjection, Running
  <2> HIDE DEF busy, f
  <2> QED
    BY <1>4, <2>1, FS_Surjection
<1>6. Cardinality(Running) \in Nat /\ Cardinality(busy) \in Nat
  BY <1>4, <1>5, FS_CardinalityType
<1> QED
  BY <1>1, <1>4, <1>5, <1>6

LEMMA PoolStep == PlacesOK /\ QueueInv /\ OnePlace /\ [Next]_vars => [Pool!Next]_(Pool!vars)
<1> SUFFICES ASSUME PlacesOK, QueueInv, OnePlace, [Next]_vars
             PROVE  [Pool!Next]_(Pool!vars)
  OBVIOUS
<1> USE Disjoint DEF Threads, PlacesOK
<1>1. ASSUME NEW u \in Users, NEW t \in Tasks, PushLock(u, t) PROVE UNCHANGED Pool!vars
  <2>1. /\ UNCHANGED <<tasks, done>>
        /\ \A w \in Workers : pc'[w] = pc[w] /\ task'[w] = task[w]
    BY <1>1 DEF PushLock, At, QueueInv
  <2>2. Running' = Running
    BY <2>1 DEF Running
  <2> QED
    BY <2>1, <2>2 DEF Pool!vars, Running
<1>2. ASSUME NEW u \in Users, Enqueue(u) PROVE \E t \in Tasks : Pool!Submit(t)
  <2>1. /\ tasks' = Append(tasks, task[u]) /\ UNCHANGED done
        /\ pc[u] = "enqueue"
        /\ \A w \in Workers : pc'[w] = pc[w] /\ task'[w] = task[w]
    BY <1>2 DEF Enqueue, At, QueueInv
  <2>2. Running' = Running
    BY <2>1 DEF Running
  <2>3. u \in InHand /\ \A w \in Workers : pc[w] \in {"leave", "run"} => w \in InHand
    BY <2>1 DEF InHand, HandPlaces
  <2>4. task[u] \notin Running
    BY <2>3 DEF OnePlace, Running
  <2>5. task[u] \in Tasks /\ task[u] \notin done /\ \A i \in 1 .. Len(tasks) : tasks[i] # task[u]
    BY <2>3 DEF OnePlace
  <2>6. PICK t \in Tasks : t = task[u]
    BY <2>5
  <2>7. Pool!Submit(t)
    BY <2>1, <2>2, <2>4, <2>5, <2>6 DEF Pool!Submit, Pool!Known, Running
  <2> QED
    BY <2>7
<1>3. ASSUME NEW w \in Workers, popTask(w) PROVE Pool!Start
  <2>1. /\ tasks # <<>> /\ tasks' = Tail(tasks) /\ UNCHANGED done
        /\ pc[w] = "check" /\ pc'[w] = "leave" /\ task'[w] = Head(tasks)
        /\ \A x \in Workers \ {w} : pc'[x] = pc[x] /\ task'[x] = task[x]
    BY <1>3 DEF popTask, At, QueueInv
  <2>2. Cardinality(Running) < Cap
    BY <2>1, RoomForOne
  <2>3. Running' = Running \cup {Head(tasks)}
    BY <2>1 DEF Running
  <2>4. Pool!Cardinality(Running) = Cardinality(Running)
    BY Zenon DEF Pool!Cardinality, Cardinality
  <2> QED
    BY <2>1, <2>2, <2>3, <2>4 DEF Pool!Start, Running
<1>4. ASSUME NEW w \in Workers, RunTask(w) PROVE \E t \in Tasks : Pool!Finish(t)
  <2>1. /\ done' = done \cup {task[w]} /\ UNCHANGED tasks
        /\ pc[w] = "run" /\ pc'[w] = "lock"
        /\ \A x \in Workers \ {w} : pc'[x] = pc[x] /\ task'[x] = task[x]
    BY <1>4 DEF RunTask, At, QueueInv
  <2>2. \A x \in Workers : pc[x] \in {"leave", "run"} => x \in InHand
    BY DEF InHand, HandPlaces
  <2>3. w \in InHand /\ task[w] \in Running
    BY <2>1, <2>2 DEF Running
  <2>4. \A x \in Workers : pc[x] \in {"leave", "run"} /\ x # w => task[x] # task[w]
    BY <2>2, <2>3 DEF OnePlace
  <2>5. Running' = Running \ {task[w]}
    BY <2>1, <2>4 DEF Running
  <2>6. PICK t \in Tasks : t = task[w]
    BY <2>3 DEF OnePlace
  <2>7. Pool!Finish(t)
    BY <2>1, <2>3, <2>5, <2>6 DEF Pool!Finish, Running
  <2> QED
    BY <2>7
<1>5. CASE Idle
  <2>1. Running' = Running
    BY <1>5 DEF Idle, Running
  <2> QED
    BY <1>5, <2>1 DEF Idle, Pool!vars, Running
<1>6. CASE \E u \in Users : Enqueue(u)
  BY <1>2, <1>6 DEF Pool!Next
<1>7. CASE \E w \in Workers : popTask(w)
  BY <1>3, <1>7 DEF Pool!Next
<1>8. CASE \E w \in Workers : RunTask(w)
  BY <1>4, <1>8 DEF Pool!Next
<1> QED
  BY <1>1, <1>5, <1>6, <1>7, <1>8, IdleSteps

(***************************************************************************)
(* Every task is run exactly once and in the order of the pushes, whether  *)
(* it was pushed before or after the workers were started.                 *)
(***************************************************************************)
THEOREM ImplementsTaskPool == Spec => IsTaskPool
<1>1. ASSUME Init PROVE OnePlace /\ Pool!Init
  <2>1. /\ tasks = <<>> /\ todo = Tasks /\ done = {}
        /\ \A t \in Threads : pc[t] \in {"get", "none"}
    BY <1>1 DEF Init
  <2>2. InHand = {} /\ Running = {}
    BY <2>1 DEF InHand, HandPlaces, Running, Threads
  <2> QED
    BY <2>1, <2>2 DEF OnePlace, Pool!Init, Running
<1>2. PlacesOK /\ QueueInv /\ OnePlace /\ [Next]_vars => OnePlace' /\ [Pool!Next]_(Pool!vars)
  BY OnePlaceStep, PoolStep
<1> QED
  BY <1>1, <1>2, Invariants, PTL DEF Spec, IsTaskPool, Pool!Spec
-----------------------------------------------------------------------------
(***************************************************************************)
(* Nobody waits for ever on a lock whose owner cannot move: each of the    *)
(* two mutexes is owned by a thread that is between lock and unlock.       *)
(***************************************************************************)
MutexPlaces == {"enqueue", "signal", "unlock", "check", "leave"}

MutexInv == /\ \A t \in Threads : pc[t] \in MutexPlaces <=> mtx = t
            /\ mtx \in Threads \cup {NoOwner}
            /\ static_mtx \in Users \cup {NoOwner}
            /\ todo \subseteq Tasks

\* A step of one thread that stays inside, or outside, the section of _mtx.
LEMMA MutexKept ==
    ASSUME MutexInv, NEW t \in Threads, mtx' = mtx, todo' = todo,
           static_mtx' \in Users \cup {NoOwner},
           pc'[t] \in MutexPlaces <=> pc[t] \in MutexPlaces,
           \A x \in Threads \ {t} : pc'[x] = pc[x]
    PROVE  MutexInv'
BY DEF MutexInv

\* A step that takes _mtx, and one that gives it back.
LEMMA MutexTaken ==
    ASSUME MutexInv, NEW t \in Threads, mtx = NoOwner, mtx' = t, static_mtx' = static_mtx,
           todo' \subseteq todo, pc'[t] \in MutexPlaces,
           \A x \in Threads \ {t} : pc'[x] = pc[x]
    PROVE  MutexInv'
BY Disjoint, ThreadPoolAssumption DEF MutexInv, Threads, Workers

LEMMA MutexGiven ==
    ASSUME MutexInv, NEW t \in Threads, mtx' = NoOwner, static_mtx' = static_mtx,
           todo' = todo, pc[t] \in MutexPlaces, pc'[t] \notin MutexPlaces,
           \A x \in Threads \ {t} : pc'[x] = pc[x]
    PROVE  MutexInv'
BY Disjoint, ThreadPoolAssumption DEF MutexInv, Threads, Workers

LEMMA MutexStep == PlacesOK /\ QueueInv /\ MutexInv /\ [Next]_vars => MutexInv'
<1> SUFFICES ASSUME PlacesOK, QueueInv, MutexInv, [Next]_vars
             PROVE  MutexInv'
  OBVIOUS
<1>0. pc \in [Threads -> UserPlaces \cup WorkerPlaces] /\ static_mtx \in Users \cup {NoOwner}
  BY DEF PlacesOK, MutexInv
<1> USE <1>0, MutexKept DEF MutexPlaces
<1>1. ASSUME NEW u \in Users, UserStep(u) PROVE MutexInv'
  <2> u \in Threads
    BY DEF Threads
  <2>1. CASE OuterCheck(u) BY <2>1 DEF OuterCheck, At
  <2>2. CASE StaticLock(u) BY <2>2 DEF StaticLock, At
  <2>3. CASE InnerCheck(u) BY <2>3 DEF InnerCheck, At
  <2>4. CASE Build(u) BY <2>4 DEF Build, At
  <2>5. CASE \E w \in Workers : Run(u, w)
    <3>1. PICK w \in Workers : Run(u, w)
      BY <2>5
    <3>2. w \in Threads /\ pc[w] = "none"
      BY <3>1 DEF Run, QueueInv, Threads
    <3> QED
      BY <3>1, <3>2 DEF Run
  <2>6. CASE StartedAll(u) BY <2>6 DEF StartedAll, At
  <2>7. CASE StaticUnlock(u) BY <2>7 DEF StaticUnlock, At
  <2>8. CASE \E t \in Tasks : PushLock(u, t)
    BY <2>8, MutexTaken DEF PushLock, At, Lock
  <2>9. CASE PushNothing(u) BY <2>9 DEF PushNothing, At
  <2>10. CASE Enqueue(u) BY <2>10 DEF Enqueue, At
  <2>11. CASE threadWakeup(u)
    <3>1. \A w \in Waiting : w \in Threads /\ pc[w] = "wait"
      BY DEF Waiting, Threads
    <3>2. \A t \in Threads : pc'[t] \in MutexPlaces <=> pc[t] \in MutexPlaces
      BY <2>11, <3>1 DEF threadWakeup
    <3> QED
      BY <2>11, <3>2 DEF threadWakeup, MutexInv
  <2>12. CASE PushUnlock(u) BY <2>12, MutexGiven DEF PushUnlock, At, Unlock
  <2> QED
    BY <1>1, <2>1, <2>2, <2>3, <2>4, <2>5, <2>6, <2>7, <2>8, <2>9, <2>10, <2>11, <2>12
       DEF UserStep
<1>2. ASSUME NEW w \in Workers, WorkerStep(w) \/ SpuriousWakeup(w) PROVE MutexInv'
  <2> w \in Threads
    BY DEF Threads
  <2>1. CASE TakeLock(w) BY <2>1, MutexTaken DEF TakeLock, Lock
  <2>2. CASE threadWait(w) BY <2>2, MutexGiven DEF threadWait, At, Unlock
  <2>3. CASE popTask(w) BY <2>3 DEF popTask, At
  <2>4. CASE Leave(w) BY <2>4, MutexGiven DEF Leave, At, Unlock
  <2>5. CASE RunTask(w) BY <2>5 DEF RunTask, At
  <2>6. CASE SpuriousWakeup(w) BY <2>6 DEF SpuriousWakeup, At
  <2> QED
    BY <1>2, <2>1, <2>2, <2>3, <2>4, <2>5, <2>6 DEF WorkerStep
<1>3. CASE UNCHANGED vars
  BY <1>3 DEF vars, MutexInv
<1> QED
  BY <1>1, <1>2, <1>3 DEF Next

\* startRunning goes through the Thread objects in order: there is always a
\* next one to start, or all of them are.
StartedUpTo(k) == status = [w \in Workers |-> IF w <= k THEN "RUNNING" ELSE "NEW"]

StartInv == \E k \in 0 .. Cap : StartedUpTo(k)

LEMMA StartStep == StartInv /\ [Next]_vars => StartInv'
<1> SUFFICES ASSUME StartInv, [Next]_vars
             PROVE  StartInv'
  OBVIOUS
<1>1. CASE UNCHANGED status
  BY <1>1 DEF StartInv, StartedUpTo
<1>2. ASSUME NEW u \in Users, NEW w \in Workers, Run(u, w) PROVE StartInv'
  <2>1. PICK k \in 0 .. Cap : StartedUpTo(k)
    BY DEF StartInv
  <2>2. Cap \in Nat /\ w \in 1 .. Cap /\ k < w /\ (w > 1 => w - 1 <= k)
    BY <1>2, <2>1, ThreadPoolAssumption DEF Run, StartedUpTo, Workers
  <2>3. w = k + 1 /\ status' = [x \in Workers |-> IF x <= w THEN "RUNNING" ELSE "NEW"]
    BY <1>2, <2>1, <2>2 DEF Run, StartedUpTo, Workers
  <2> QED
    BY <2>2, <2>3 DEF StartInv, StartedUpTo
<1>3. UNCHANGED status \/ \E u \in Users, w \in Workers : Run(u, w)
  BY DEF Next, vars, UserStep, WorkerStep, OuterCheck, StaticLock, InnerCheck, Build,
         StartedAll, StaticUnlock, PushLock, PushNothing, Enqueue, threadWakeup, PushUnlock,
         TakeLock, threadWait, popTask, Leave, RunTask, SpuriousWakeup
<1> QED
  BY <1>1, <1>2, <1>3

\* What the guards of the threads' actions ask for, place by place: a spurious
\* wakeup is not counted as a move.
CanStart == \/ \A w \in Workers : status[w] = "RUNNING"
            \/ \E w \in Workers : /\ status[w] = "NEW"
                                  /\ \A x \in 1 .. w - 1 : status[x] = "RUNNING"

CanMove(t) ==
    \/ pc[t] = "get" /\ todo # {}
    \/ pc[t] = "static_lock" /\ static_mtx = NoOwner
    \/ pc[t] \in {"inner_check", "new", "static_unlock"}
    \/ pc[t] = "start" /\ CanStart
    \/ pc[t] = "push" /\ (todo = {} \/ mtx = NoOwner)
    \/ pc[t] \in MutexPlaces \cup {"run"}
    \/ pc[t] \in {"lock", "woken"} /\ mtx = NoOwner

\* Somebody has something to do: a user is inside a call or has a task left to
\* push, or a task is queued and there is a worker for it.
Busy == \/ \E u \in Users : pc[u] # "get" \/ todo # {}
        \/ tasks # <<>> /\ \E w \in Workers : pc[w] # "none"

NoStandstill == Busy => \E t \in Threads : CanMove(t)

LEMMA AlwaysCanStart == StartInv => CanStart
<1> SUFFICES ASSUME NEW k \in 0 .. Cap, StartedUpTo(k)
             PROVE  CanStart
  BY DEF StartInv
<1> USE ThreadPoolAssumption DEF StartedUpTo, Workers, CanStart
<1>1. CASE k = Cap
  BY <1>1
<1>2. CASE k < Cap
  <2>1. k + 1 \in Workers /\ status[k + 1] = "NEW"
    BY <1>2
  <2>2. \A x \in 1 .. (k + 1) - 1 : status[x] = "RUNNING"
    BY <1>2
  <2> QED
    BY <2>1, <2>2
<1> QED
  BY <1>1, <1>2

LEMMA NoneStuck ==
    ASSUME PlacesOK, InstanceInv, QueueInv, MutexInv, StartInv, NoIdleWorker
    PROVE  NoStandstill
<1> SUFFICES ASSUME \A t \in Threads : ~ CanMove(t)
             PROVE  ~ Busy
  BY DEF NoStandstill
<1> USE DEF CanMove, Threads
<1>1. mtx = NoOwner
  BY DEF MutexInv
<1>2. \A u \in Users : pc[u] \in {"get", "static_lock"}
  BY <1>1, AlwaysCanStart DEF PlacesOK, UserPlaces, MutexPlaces
<1>3. static_mtx = NoOwner
  BY <1>2, Disjoint DEF MutexInv, InstanceInv, StaticCritical
<1>4. \A u \in Users : pc[u] = "get" /\ todo = {}
  BY <1>2, <1>3
<1>5. \A w \in Workers : pc[w] \in {"none", "wait"}
  BY <1>1 DEF PlacesOK, WorkerPlaces, MutexPlaces
<1>6. ASSUME NEW w \in Workers, pc[w] # "none" PROVE tasks = <<>>
  <2>1. Looking = {} /\ Signalling = {}
    BY <1>4, <1>5 DEF Looking, LookPlaces, Signalling
  <2>2. Cardinality(Looking) = 0 /\ Cardinality(Signalling) = 0
    BY <2>1, FS_EmptySet
  <2>3. Len(tasks) <= 0
    BY <1>5, <1>6, <2>2, NoIdleWorkerIs
  <2> QED
    BY <2>3 DEF QueueInv
<1> QED
  BY <1>4, <1>6 DEF Busy

(***************************************************************************)
(* The pool's two mutexes and its condition variable never end in a        *)
(* deadlock: as long as a user is inside get_instance or pushTask, or has  *)
(* a task left to push, or a task is queued and a worker exists, some      *)
(* thread can move, and no spurious wakeup is needed for it.               *)
(***************************************************************************)
THEOREM NeverStuck == Spec => []NoStandstill
<1>1. Init => MutexInv /\ StartInv
  <2> SUFFICES ASSUME Init PROVE MutexInv /\ StartInv
    OBVIOUS
  <2>1. MutexInv
    BY Disjoint, ThreadPoolAssumption DEF Init, MutexInv, MutexPlaces, Threads, Workers
  <2>2. StartedUpTo(0) /\ 0 \in 0 .. Cap
    BY ThreadPoolAssumption DEF Init, StartedUpTo, Workers
  <2> QED
    BY <2>1, <2>2 DEF StartInv
<1>2. PlacesOK /\ QueueInv /\ MutexInv /\ StartInv /\ [Next]_vars => MutexInv' /\ StartInv'
  BY MutexStep, StartStep
<1>3. PlacesOK /\ InstanceInv /\ QueueInv /\ MutexInv /\ StartInv /\ NoIdleWorker
        => NoStandstill
  BY NoneStuck
<1> QED
  BY <1>1, <1>2, <1>3, Invariants, NoWorkerIdles, PTL DEF Spec
=============================================================================
