----------------------------- MODULE ThreadPool -----------------------------
(***************************************************************************)
(* 7.10/threadPool/thread_pool.hpp with Thread.hpp and LockGuard.hpp: the  *)
(* singleton pool.  The users obtain it from get_instance (double-checked  *)
(* locking on _static_mtx) each time they push a task; the user that finds *)
(* no pool builds one and starts its workers while the others may already  *)
(* be pushing, for _instance is assigned before init and startRunning.     *)
(*                                                                         *)
(* A worker at "wait" is blocked on _cond and does not hold _mtx, at       *)
(* "woken" it is still in pthread_cond_wait and has to take _mtx again.    *)
(***************************************************************************)
EXTENDS Integers, Sequences, FiniteSets

CONSTANTS Users,          \* threads that call get_instance()->pushTask(t)
          Cap,            \* _thread_cap
          Tasks,          \* the tasks that will ever be pushed, each once
          NoTask, NoOwner,
          SpuriousWakeups,
          CreateMayFail   \* may pthread_create fail?

ASSUME ThreadPoolAssumption ==
    /\ Cap \in Nat \ {0}
    /\ IsFiniteSet(Users) /\ IsFiniteSet(Tasks)
    /\ Users \cap (1 .. Cap) = {}
    /\ NoOwner \notin Users \cup (1 .. Cap)
    /\ NoTask \notin Tasks
    /\ SpuriousWakeups \in BOOLEAN /\ CreateMayFail \in BOOLEAN

Workers == 1 .. Cap
Threads == Users \cup Workers

VARIABLES
    instance,    \* is _instance assigned?
    built,       \* how many pools were ever constructed
    static_mtx,  \* the owner of _static_mtx
    mtx,         \* the owner of _mtx
    tasks,       \* _tasks
    status,      \* status[w]: the _status of the w-th Thread object
    pc,          \* where each thread is ("none": the thread does not exist)
    task,        \* task[t]: the task a user pushes, a worker has taken
    todo,        \* the tasks not pushed yet
    done         \* the tasks whose operator() has returned

vars == <<instance, built, static_mtx, mtx, tasks, status, pc, task, todo, done>>

Init == /\ instance = FALSE /\ built = 0
        /\ static_mtx = NoOwner /\ mtx = NoOwner
        /\ tasks = <<>>
        /\ status = [w \in Workers |-> "NEW"]
        /\ pc = [t \in Threads |-> IF t \in Users THEN "get" ELSE "none"]
        /\ task = [t \in Threads |-> NoTask]
        /\ todo = Tasks /\ done = {}

At(t, here, there) == pc[t] = here /\ pc' = [pc EXCEPT ![t] = there]

-----------------------------------------------------------------------------
(* get_instance *)

\* The outer check reads _instance without the lock.
OuterCheck(u) ==
    /\ todo # {}
    /\ At(u, "get", IF instance THEN "push" ELSE "static_lock")
    /\ UNCHANGED <<instance, built, static_mtx, mtx, tasks, status, task, todo, done>>

StaticLock(u) ==
    /\ At(u, "static_lock", "inner_check")
    /\ static_mtx = NoOwner
    /\ static_mtx' = u
    /\ UNCHANGED <<instance, built, mtx, tasks, status, task, todo, done>>

\* Mutant: no second check under the lock.
InnerCheckMissing(u) ==
    /\ At(u, "inner_check", "new")
    /\ UNCHANGED <<instance, built, static_mtx, mtx, tasks, status, task, todo, done>>

InnerCheck(u) ==
    /\ At(u, "inner_check", IF instance THEN "static_unlock" ELSE "new")
    /\ UNCHANGED <<instance, built, static_mtx, mtx, tasks, status, task, todo, done>>

\* The constructor, the assignment of _instance, and init(), which nobody
\* but startRunning depends on.
Build(u) ==
    /\ At(u, "new", "start")
    /\ instance' = TRUE
    /\ built' = built + 1
    /\ UNCHANGED <<static_mtx, mtx, tasks, status, task, todo, done>>

\* startRunning: one pthread_create after the other; _status becomes RUNNING
\* whether or not it succeeds.
Run(u, w) ==
    /\ pc[u] = "start"
    /\ status[w] = "NEW" /\ \A x \in 1 .. w - 1 : status[x] = "RUNNING"
    /\ status' = [status EXCEPT ![w] = "RUNNING"]
    /\ \/ pc' = [pc EXCEPT ![w] = "lock"]
       \/ CreateMayFail /\ UNCHANGED pc
    /\ UNCHANGED <<instance, built, static_mtx, mtx, tasks, task, todo, done>>

StartedAll(u) ==
    /\ \A w \in Workers : status[w] = "RUNNING"
    /\ At(u, "start", "static_unlock")
    /\ UNCHANGED <<instance, built, static_mtx, mtx, tasks, status, task, todo, done>>

StaticUnlock(u) ==
    /\ At(u, "static_unlock", "push")
    /\ static_mtx' = NoOwner
    /\ UNCHANGED <<instance, built, mtx, tasks, status, task, todo, done>>

-----------------------------------------------------------------------------
(* pushTask *)

Lock(t) == /\ mtx = NoOwner
           /\ mtx' = t

Unlock == mtx' = NoOwner

PushLock(u, t) ==
    /\ At(u, "push", "enqueue")
    /\ t \in todo
    /\ todo' = todo \ {t}
    /\ task' = [task EXCEPT ![u] = t]
    /\ Lock(u)
    /\ UNCHANGED <<instance, built, static_mtx, tasks, status, done>>

\* Somebody else has pushed the last task meanwhile: the user is finished.
PushNothing(u) ==
    /\ todo = {}
    /\ At(u, "push", "get")
    /\ UNCHANGED <<instance, built, static_mtx, mtx, tasks, status, task, todo, done>>

Enqueue(u) ==
    /\ At(u, "enqueue", "signal")
    /\ tasks' = Append(tasks, task[u])
    /\ task' = [task EXCEPT ![u] = NoTask]
    /\ UNCHANGED <<instance, built, static_mtx, mtx, status, todo, done>>

Waiting == {w \in Workers : pc[w] = "wait"}

\* Mutant: only the first task pushed into an empty queue is signalled.
threadWakeupIfFirst(u) ==
    /\ pc[u] = "signal"
    /\ IF Waiting = {} \/ Len(tasks) > 1
       THEN pc' = [pc EXCEPT ![u] = "unlock"]
       ELSE \E w \in Waiting : pc' = [pc EXCEPT ![u] = "unlock", ![w] = "woken"]
    /\ UNCHANGED <<instance, built, static_mtx, mtx, tasks, status, task, todo, done>>

threadWakeup(u) ==
    /\ pc[u] = "signal"
    /\ IF Waiting = {}
       THEN pc' = [pc EXCEPT ![u] = "unlock"]
       ELSE \E w \in Waiting : pc' = [pc EXCEPT ![u] = "unlock", ![w] = "woken"]
    /\ UNCHANGED <<instance, built, static_mtx, mtx, tasks, status, task, todo, done>>

PushUnlock(u) ==
    /\ At(u, "unlock", "get")
    /\ Unlock
    /\ UNCHANGED <<instance, built, static_mtx, tasks, status, task, todo, done>>

-----------------------------------------------------------------------------
(* thread_func, the loop of a worker *)

TakeLock(w) ==
    /\ pc[w] \in {"lock", "woken"}
    /\ pc' = [pc EXCEPT ![w] = "check"]
    /\ Lock(w)
    /\ UNCHANGED <<instance, built, static_mtx, tasks, status, task, todo, done>>

threadWait(w) ==
    /\ tasks = <<>>
    /\ At(w, "check", "wait")
    /\ Unlock
    /\ UNCHANGED <<instance, built, static_mtx, tasks, status, task, todo, done>>

SpuriousWakeup(w) ==
    /\ SpuriousWakeups
    /\ At(w, "wait", "woken")
    /\ UNCHANGED <<instance, built, static_mtx, mtx, tasks, status, task, todo, done>>

\* Mutant: front() without pop().
popTaskFrontOnly(w) ==
    /\ tasks # <<>>
    /\ At(w, "check", "leave")
    /\ task' = [task EXCEPT ![w] = Head(tasks)]
    /\ UNCHANGED <<instance, built, static_mtx, mtx, tasks, status, todo, done>>

popTask(w) ==
    /\ tasks # <<>>
    /\ At(w, "check", "leave")
    /\ task' = [task EXCEPT ![w] = Head(tasks)]
    /\ tasks' = Tail(tasks)
    /\ UNCHANGED <<instance, built, static_mtx, mtx, status, todo, done>>

\* Mutant: the LockGuard's scope covers the execution of the task.
LeaveLocked(w) ==
    /\ At(w, "leave", "run")
    /\ UNCHANGED <<instance, built, static_mtx, mtx, tasks, status, task, todo, done>>

\* The LockGuard goes out of scope before the task is executed.
Leave(w) ==
    /\ At(w, "leave", "run")
    /\ Unlock
    /\ UNCHANGED <<instance, built, static_mtx, tasks, status, task, todo, done>>

RunTask(w) ==
    /\ At(w, "run", "lock")
    /\ done' = done \cup {task[w]}
    /\ task' = [task EXCEPT ![w] = NoTask]
    /\ UNCHANGED <<instance, built, static_mtx, mtx, tasks, status, todo>>

-----------------------------------------------------------------------------
UserStep(u) == \/ OuterCheck(u) \/ StaticLock(u) \/ InnerCheck(u) \/ Build(u)
               \/ \E w \in Workers : Run(u, w)
               \/ StartedAll(u) \/ StaticUnlock(u)
               \/ \E t \in Tasks : PushLock(u, t)
               \/ PushNothing(u) \/ Enqueue(u) \/ threadWakeup(u) \/ PushUnlock(u)

WorkerStep(w) == \/ TakeLock(w) \/ threadWait(w) \/ popTask(w) \/ Leave(w)
                 \/ RunTask(w)

Next == \/ \E u \in Users : UserStep(u)
        \/ \E w \in Workers : WorkerStep(w) \/ SpuriousWakeup(w)

Spec == Init /\ [][Next]_vars

\* Every thread keeps running, and spurious wakeups, which are rare, do not go
\* on for ever: a storm of them could keep the mutex from everybody else.
FairSpec == /\ Spec
            /\ \A u \in Users : WF_vars(UserStep(u))
            /\ \A w \in Workers : WF_vars(WorkerStep(w))
            /\ <>[][\A w \in Workers : ~ SpuriousWakeup(w)]_vars

-----------------------------------------------------------------------------
(***************************************************************************)
(* Double-checked locking: however many users find no pool at the same     *)
(* time, one pool is built, and its workers are started once, by the user  *)
(* that built it.                                                          *)
(***************************************************************************)
SingleInstance ==
    /\ built <= 1
    /\ \A u, v \in Users : (pc[u] \in {"new", "start"} /\ pc[v] \in {"new", "start"}) => u = v

(***************************************************************************)
(* While a worker sleeps, every queued task has a worker that is awake and *)
(* about to look, or a user about to signal: also for tasks pushed before  *)
(* the workers were started.                                               *)
(***************************************************************************)
NoIdleWorker ==
    Waiting # {} =>
        Len(tasks) <= Cardinality({w \in Workers : pc[w] \in {"lock", "woken", "check"}})
                      + Cardinality({u \in Users : pc[u] = "signal"})

Pool == INSTANCE TaskPool
        WITH N <- Cap, pending <- tasks,
             running <- {task[w] : w \in {x \in Workers : pc[x] \in {"leave", "run"}}}

\* Every task is run exactly once, in the order of the pushes.
IsTaskPool == Pool!Spec

\* Every task that was pushed is run, also one pushed before the workers were
\* started, if pthread_create has succeeded or will succeed for one of them.
EveryTaskRuns ==
    \A t \in Tasks :
        ((\E i \in 1 .. Len(tasks) : tasks[i] = t) /\ (\E w \in Workers : pc[w] # "none"))
            ~> t \in done
=============================================================================
