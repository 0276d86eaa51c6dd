--------------------------- MODULE ProcPoolProofs ---------------------------
(***************************************************************************)
(* Proofs about ProcPool for any number of children and of tasks.          *)
(***************************************************************************)
EXTENDS ProcPool, TLAPS

-----------------------------------------------------------------------------
(* The inductive invariant *)

Creating == ppc \in {"pipe", "fork", "forked"}

\* Pipe j has been made, child k has been forked (or its fork has failed).
Made(j) == (ppc = "pipe" => j < i) /\ (Creating => j <= i)
Forked(k) == (ppc \in {"pipe", "fork"} => k < i) /\ (Creating => k <= i)

\* Nobody holds an end of a pipe that does not exist yet, and a child that
\* does not exist yet holds none.
NotYet ==
    /\ \A j \in Children : ~ Made(j) => writers[j] = {}
    /\ \A k \in Children : ~ Forked(k) => cpc[k] = "none"
    /\ \A k \in Children : cpc[k] = "none" => fds[k] = 1

\* A child that holds a write end is still on its way to closing it.
StillClosing ==
    \A j, k \in Children : k \in writers[j] => cpc[k] = "close" /\ fds[k] <= j /\ j <= k

ClosesUpToOwn == \A k \in Children : fds[k] <= k

Inherited == TypeOK /\ NotYet /\ StillClosing /\ ClosesUpToOwn

\* What the argument about SIGPIPE needs besides.
Giving == Creating \/ ppc = "ctrl"

CountOK == \A k \in Children : Len(done[k]) + Len(pipe[k]) <= n

\* While the parent gives tasks it holds every write end, a child reads, and
\* one that has left has executed as many tasks as there are.
Listening ==
    /\ Giving => /\ \A k \in Children : Made(k) => Parent \in writers[k]
                 /\ \A k \in Children : cpc[k] \in {"leave", "exited", "reaped"}
                                            => Len(done[k]) >= EXE_NUM
    /\ ppc = "fork" => Parent \in readers[i]
    /\ \A k \in Children : cpc[k] \in {"close", "read", "leave"} => k \in readers[k]

PipeInv == Inherited /\ CountOK /\ Listening /\ NoBrokenPipe

-----------------------------------------------------------------------------
(* Inherited *)

\* The initial state satisfies the invariant.
LEMMA InitInherited == Init => Inherited
BY ProcPoolAssumption
DEF ProcPoolAssumption, Init, Inherited, TypeOK, NotYet, StillClosing, ClosesUpToOwn, Creating,
    Made, Forked, Children, Procs, Parent, NoPid

\* Every step of every process preserves it.
LEMMA NextInherited == Inherited /\ [Next]_vars => Inherited'
<1> SUFFICES ASSUME Inherited, [Next]_vars PROVE Inherited'
  OBVIOUS
<1>0. /\ \A k \in Children : k \in Int /\ k # Parent
      /\ \A k \in Int : k \in Children <=> 1 <= k /\ k <= CHILD_NUM
      /\ CHILD_NUM \in Nat \ {0} /\ EXE_NUM \in Nat \ {0}
  BY ProcPoolAssumption DEF ProcPoolAssumption, Children, Parent
<1> USE <1>0 DEF Procs
<1>1. CASE MakePipe
  <2>1. TypeOK'
    BY <1>1 DEF MakePipe, Inherited, TypeOK, childVars
  <2>2. NotYet'
    BY <1>1, <2>1 DEF MakePipe, Inherited, TypeOK, NotYet, Creating, Made, Forked, childVars
  <2>3. StillClosing' /\ ClosesUpToOwn'
    BY <1>1, <2>1 DEF MakePipe, Inherited, TypeOK, NotYet, StillClosing, ClosesUpToOwn, Creating, Made, Forked,
                      childVars
  <2> QED
    BY <2>1, <2>2, <2>3 DEF Inherited
<1>2. CASE Fork
  <2>1. TypeOK'
    BY <1>2 DEF Fork, Inherit, Inherited, TypeOK
  <2>2. \A k \in Children : k > i => cpc[k] = "none" /\ writers[k] = {}
    BY <1>2 DEF Fork, Inherited, TypeOK, NotYet, Creating, Made, Forked
  <2>3. cpc[i] = "none" /\ fds[i] = 1
    BY <1>2 DEF Fork, Inherited, TypeOK, NotYet, Creating, Made, Forked
  <2>4. NotYet'
    BY <1>2, <2>2 DEF Fork, Inherit, Inherited, TypeOK, NotYet, Creating, Made, Forked
  <2>5. \A j \in Children : writers'[j] = IF Parent \in writers[j] THEN writers[j] \cup {i}
                                                                  ELSE writers[j]
    BY <1>2 DEF Fork, Inherit
  <2>6. \A j, k \in Children : k \in writers'[j] => k \in writers[j] \/ (k = i /\ j <= i)
    <3>1. i \in Int
      BY DEF Inherited, TypeOK
    <3>2. \A j \in Children : Parent \in writers[j] => j <= i
      BY <2>2, <3>1
    <3> QED
      BY <2>5, <3>2
  <2>7. \A k \in Children : /\ fds'[k] = fds[k]
                            /\ cpc'[k] = IF k = i THEN "close" ELSE cpc[k]
    BY <1>2 DEF Fork, Inherited, TypeOK
  <2>8. StillClosing'
    BY <2>3, <2>6, <2>7 DEF Inherited, StillClosing
  <2> QED
    BY <1>2, <2>1, <2>4, <2>8 DEF Fork, Inherited, ClosesUpToOwn
<1>3. CASE ForkError
  BY <1>3 DEF ForkError, Inherited, TypeOK, NotYet, StillClosing, ClosesUpToOwn, Creating, Made,
              Forked, childVars
<1>4. CASE CloseReadEnd
  <2>1. TypeOK'
    BY <1>4, SMTT(40) DEF CloseReadEnd, Inherited, TypeOK, childVars
  <2>2. NotYet'
    <3>1. i \in Int /\ ppc = "forked" /\ UNCHANGED <<writers, cpc, fds>>
      BY <1>4 DEF CloseReadEnd, Inherited, TypeOK, childVars
    <3>2. CASE i < CHILD_NUM
      BY <1>4, <3>1, <3>2 DEF CloseReadEnd, Inherited, NotYet, Creating, Made, Forked
    <3>3. CASE ~ (i < CHILD_NUM)
      BY <1>4, <3>1, <3>3 DEF CloseReadEnd, Inherited, NotYet, Creating, Made, Forked
    <3> QED
      BY <3>2, <3>3
  <2>3. StillClosing' /\ ClosesUpToOwn'
    BY <1>4, <2>1 DEF CloseReadEnd, Inherited, TypeOK, StillClosing, ClosesUpToOwn, childVars
  <2> QED
    BY <2>1, <2>2, <2>3 DEF Inherited
<1>5. CASE GiveTask
  <2>1. TypeOK'
    BY <1>5, SMTT(40) DEF GiveTask, Target, Inherited, TypeOK, childVars
  <2>2. NotYet'
    BY <1>5, <2>1 DEF GiveTask, Target, Inherited, TypeOK, NotYet, Creating, Made, Forked, childVars
  <2>3. StillClosing' /\ ClosesUpToOwn'
    BY <1>5, <2>1 DEF GiveTask, Target, Inherited, TypeOK, StillClosing, ClosesUpToOwn, childVars
  <2> QED
    BY <2>1, <2>2, <2>3 DEF Inherited
<1>6. CASE BrokenPipe
  <2>1. TypeOK'
    BY <1>6 DEF BrokenPipe, Target, Inherited, TypeOK, childVars
  <2>2. NotYet'
    BY <1>6, <2>1 DEF BrokenPipe, Inherited, TypeOK, NotYet, Creating, Made, Forked, childVars
  <2>3. StillClosing' /\ ClosesUpToOwn'
    BY <1>6, <2>1 DEF BrokenPipe, Inherited, TypeOK, StillClosing, ClosesUpToOwn, childVars
  <2> QED
    BY <2>1, <2>2, <2>3 DEF Inherited
<1>7. CASE StopGiving
  BY <1>7 DEF StopGiving, Inherited, TypeOK, NotYet, StillClosing, ClosesUpToOwn, Creating,
              Made, Forked, childVars
<1>8. CASE CloseWriteEnd
  BY <1>8 DEF CloseWriteEnd, Inherited, TypeOK, NotYet, StillClosing, ClosesUpToOwn, Creating,
              Made, Forked, childVars
<1>9. CASE WaitPid
  <2>1. TypeOK'
    <3>1. UNCHANGED <<pids, procs, n, writers, readers, pipe, fds, done>>
      BY <1>9 DEF WaitPid
    <3>2. ppc' \in {"close", "done"} /\ i' \in Children
      BY <1>9 DEF WaitPid, Next_i, Inherited, TypeOK
    <3>3. cpc' \in [Children -> {"none", "close", "read", "leave", "exited", "reaped"}]
      BY <1>9 DEF WaitPid, Inherited, TypeOK
    <3> QED
      BY <3>1, <3>2, <3>3 DEF Inherited, TypeOK
  <2>2. NotYet'
    BY <1>9, <2>1, SMTT(40) DEF WaitPid, Next_i, Inherited, TypeOK, NotYet, Creating, Made, Forked
  <2>3. StillClosing' /\ ClosesUpToOwn'
    BY <1>9, <2>1 DEF WaitPid, Next_i, Inherited, TypeOK, StillClosing, ClosesUpToOwn
  <2> QED
    BY <2>1, <2>2, <2>3 DEF Inherited
<1>10. CASE WaitPidError
  <2>1. TypeOK'
    BY <1>10, SMTT(40) DEF WaitPidError, Next_i, Inherited, TypeOK, childVars
  <2>2. NotYet'
    BY <1>10, <2>1 DEF WaitPidError, Next_i, Inherited, TypeOK, NotYet, Creating, Made, Forked, childVars
  <2>3. StillClosing' /\ ClosesUpToOwn'
    BY <1>10, <2>1 DEF WaitPidError, Next_i, Inherited, TypeOK, StillClosing, ClosesUpToOwn, childVars
  <2> QED
    BY <2>1, <2>2, <2>3 DEF Inherited
<1>11. ASSUME NEW k \in Children, CloseInherited(k) PROVE Inherited'
  <2>1. /\ \A x, j \in Children : x \in writers'[j] => x \in writers[j] /\ ~ (x = k /\ j = fds[k])
        /\ writers' \in [Children -> SUBSET Procs]
        /\ \A j \in Children : writers[j] = {} => writers'[j] = {}
    BY <1>11 DEF CloseInherited, Inherited, TypeOK
  <2>2. /\ cpc[k] = "close" /\ k \in Int /\ fds[k] \in Int
        /\ \A x \in Children : fds[x] \in Int
        /\ UNCHANGED <<ppc, i, pids, procs, n, readers, pipe, done>>
    BY <1>11 DEF CloseInherited, Inherited, TypeOK, parentVars
  <2>3. CASE fds[k] < k
    <3>1. fds' = [fds EXCEPT ![k] = @ + 1] /\ cpc' = cpc
      BY <1>11, <2>3 DEF CloseInherited
    <3>2. fds[k] + 1 \in Children
      BY <2>2, <2>3 DEF Inherited, TypeOK
    <3>3. \A x \in Children : fds'[x] = IF x = k THEN fds[x] + 1 ELSE fds[x]
      BY <3>1 DEF Inherited, TypeOK
    <3>4. TypeOK'
      BY <2>1, <2>2, <3>1, <3>2 DEF Inherited, TypeOK
    <3>5. NotYet'
      BY <2>1, <2>2, <3>1, <3>3 DEF Inherited, NotYet, Creating, Made, Forked
    <3>6. ClosesUpToOwn'
      BY <2>2, <2>3, <3>3 DEF Inherited, ClosesUpToOwn
    <3>7. StillClosing'
      <4> SUFFICES ASSUME NEW j \in Children, NEW x \in Children, x \in writers'[j]
                   PROVE cpc'[x] = "close" /\ fds'[x] <= j /\ j <= x
        BY DEF StillClosing
      <4>1. x \in writers[j] /\ ~ (x = k /\ j = fds[k])
        BY <2>1
      <4>2. cpc[x] = "close" /\ fds[x] <= j /\ j <= x
        BY <4>1 DEF Inherited, StillClosing
      <4> QED
        <5>1. x # k \/ fds[k] + 1 <= j
          <6>1. j \in Int /\ fds[k] \in Int /\ (x = k => fds[k] <= j /\ j # fds[k])
            BY <2>2, <4>1, <4>2
          <6> QED
            BY ONLY <6>1
        <5> QED
          BY <2>2, <3>1, <3>3, <4>2, <5>1
    <3> QED
      BY <3>4, <3>5, <3>6, <3>7 DEF Inherited
  <2>4. CASE ~ (fds[k] < k)
    <3>1. cpc' = [cpc EXCEPT ![k] = "read"] /\ fds' = fds
      BY <1>11, <2>4 DEF CloseInherited
    <3>2. fds[k] = k
      BY <2>2, <2>4 DEF Inherited, ClosesUpToOwn
    <3>3. \A x \in Children : cpc'[x] = IF x = k THEN "read" ELSE cpc[x]
      BY <3>1 DEF Inherited, TypeOK
    <3>4. TypeOK'
      BY <2>1, <2>2, <3>1 DEF Inherited, TypeOK
    <3>5. NotYet'
      <4>1. \A x \in Children : cpc'[x] = "none" <=> cpc[x] = "none"
        BY <2>2, <3>3
      <4>2. \A x \in Children : (Forked(x)' <=> Forked(x)) /\ (Made(x)' <=> Made(x))
        BY <2>2 DEF Forked, Made, Creating
      <4> QED
        BY <2>1, <3>1, <4>1, <4>2 DEF Inherited, NotYet
    <3>6. ClosesUpToOwn'
      BY <3>1 DEF Inherited, ClosesUpToOwn
    <3>7. StillClosing'
      <4> SUFFICES ASSUME NEW j \in Children, NEW x \in Children, x \in writers'[j]
                   PROVE cpc'[x] = "close" /\ fds'[x] <= j /\ j <= x
        BY DEF StillClosing
      <4>1. x \in writers[j] /\ ~ (x = k /\ j = fds[k])
        BY <2>1
      <4>2. cpc[x] = "close" /\ fds[x] <= j /\ j <= x
        BY <4>1 DEF Inherited, StillClosing
      <4>3. x # k
        BY <2>2, <3>2, <4>1, <4>2
      <4> QED
        BY <3>1, <3>3, <4>2, <4>3
    <3> QED
      BY <3>4, <3>5, <3>6, <3>7 DEF Inherited
  <2> QED
    BY <2>3, <2>4
<1>12. ASSUME NEW k \in Children, ReadTask(k) PROVE Inherited'
  <2>1. TypeOK'
    BY <1>12, SMTT(40) DEF ReadTask, Inherited, TypeOK, parentVars
  <2>2. NotYet'
    BY <1>12, <2>1, SMTT(40) DEF ReadTask, Inherited, TypeOK, NotYet, Creating, Made, Forked, parentVars
  <2>3. StillClosing' /\ ClosesUpToOwn'
    <3>1. cpc[k] = "read" /\ UNCHANGED <<writers, fds>> /\ \A x \in Children \ {k} : cpc'[x] = cpc[x]
      BY <1>12 DEF ReadTask, Inherited, TypeOK
    <3> QED
      BY <3>1 DEF Inherited, StillClosing, ClosesUpToOwn
  <2> QED
    BY <2>1, <2>2, <2>3 DEF Inherited
<1>13. ASSUME NEW k \in Children, ReadEnd(k) PROVE Inherited'
  BY <1>13 DEF ReadEnd, Inherited, TypeOK, NotYet, StillClosing, ClosesUpToOwn, Creating, Made,
               Forked, parentVars
<1>14. ASSUME NEW k \in Children, Exit(k) PROVE Inherited'
  BY <1>14 DEF Exit, Inherited, TypeOK, NotYet, StillClosing, ClosesUpToOwn, Creating, Made,
               Forked, parentVars
<1>15. CASE UNCHANGED vars
  BY <1>15 DEF Inherited, TypeOK, NotYet, StillClosing, ClosesUpToOwn, Creating, Made, Forked,
               vars, parentVars, childVars
<1> QED
  BY <1>1, <1>2, <1>3, <1>4, <1>5, <1>6, <1>7, <1>8, <1>9, <1>10, <1>11, <1>12, <1>13, <1>14,
     <1>15 DEF Next, ParentStep, ChildStep

\* Inherited holds in every reachable state, whether forks fail or not.
THEOREM InheritedInvariance == Spec => []Inherited
BY InitInherited, NextInherited, PTL DEF Spec

\* Every variable of the pool keeps its type.
THEOREM TypeCorrect == Spec => []TypeOK
BY InheritedInvariance, PTL DEF Inherited

\* proc.cc:181: nobody but the parent can write to a child once the children
\* have left their prologue, for any number of children.
THEOREM WriteEndsExclusive == Spec => []OnlyParentWrites
<1>1. Inherited => OnlyParentWrites
  BY DEF Inherited, StillClosing, OnlyParentWrites
<1> QED
  BY <1>1, InheritedInvariance, PTL

-----------------------------------------------------------------------------
(* PipeInv *)

\* The initial state satisfies the invariant.
LEMMA InitPipe == Init => PipeInv
<1>1. Init => CountOK /\ Listening /\ NoBrokenPipe
  BY ProcPoolAssumption
  DEF ProcPoolAssumption, Init, CountOK, Listening, NoBrokenPipe, Giving, Creating, Made, Forked,
      Children
<1> QED
  BY <1>1, InitInherited DEF PipeInv

\* Every step of every process preserves it.
LEMMA NextPipe == ASSUME PipeInv, [Next]_vars PROVE PipeInv'
<1>0. /\ \A k \in Children : k \in Int /\ k # Parent
      /\ CHILD_NUM \in Nat \ {0} /\ EXE_NUM \in Nat \ {0}
  BY ProcPoolAssumption DEF ProcPoolAssumption, Children, Parent
<1>1. Inherited'
  BY NextInherited DEF PipeInv
<1>2. TypeOK /\ TypeOK' /\ NotYet /\ CountOK /\ Listening /\ NoBrokenPipe
  BY <1>1 DEF PipeInv, Inherited
<1>3. i \in Int /\ n \in Int /\ \A k \in Children : Len(done[k]) \in Nat /\ Len(pipe[k]) \in Nat
  <2>1. i \in Int /\ n \in Int
    BY <1>0, <1>2 DEF TypeOK
  <2>2. ASSUME NEW k \in Children PROVE Len(done[k]) \in Nat /\ Len(pipe[k]) \in Nat
    <3>1. done[k] \in Seq(1 .. EXE_NUM) /\ pipe[k] \in Seq(1 .. EXE_NUM)
      BY <1>2 DEF TypeOK
    <3> QED
      BY <3>1
  <2> QED
    BY <2>1, <2>2
<1>4. \A k \in Children : Forked(k) => Made(k)
  BY <1>0, <1>3 DEF Forked, Made, Creating
<1> USE <1>0 DEF Giving, Creating
<1>5. CASE MakePipe
  <2>1. \A k \in Children : /\ k = i => writers'[k] = {Parent} /\ readers'[k] = {Parent}
                            /\ k # i => writers'[k] = writers[k] /\ readers'[k] = readers[k]
    <3>1. /\ writers' = [writers EXCEPT ![i] = {Parent}]
          /\ readers' = [readers EXCEPT ![i] = {Parent}]
      BY <1>5 DEF MakePipe
    <3>2. writers \in [Children -> SUBSET Procs] /\ readers \in [Children -> SUBSET Procs]
      BY <1>2 DEF TypeOK
    <3> QED
      BY <3>1, <3>2
  <2>2. \A k \in Children : /\ Made(k)' => Made(k) \/ k = i
                            /\ Forked(k)' => Forked(k)
    BY <1>3, <1>5 DEF MakePipe, Made, Forked
  <2>3. i \in Children /\ cpc[i] = "none"
    BY <1>2, <1>3, <1>5 DEF MakePipe, TypeOK, NotYet, Forked
  <2>4. UNCHANGED <<n, pipe, cpc, done, i>> /\ ppc = "pipe" /\ ppc' = "fork"
    BY <1>5 DEF MakePipe, childVars
  <2>5. ASSUME NEW k \in Children, Made(k)' PROVE Parent \in writers'[k]
    <3>1. CASE k = i
      BY <2>1, <3>1
    <3>2. CASE k # i
      <4>1. Made(k)
        BY <2>2, <2>5, <3>2
      <4>2. Parent \in writers[k]
        BY <1>2, <2>4, <4>1 DEF Listening
      <4> QED
        BY <2>1, <3>2, <4>2
    <3> QED
      BY <3>1, <3>2
  <2>6. ASSUME NEW k \in Children, cpc[k] \in {"close", "read", "leave"} PROVE k \in readers'[k]
    <3>1. k # i
      BY <2>3, <2>6
    <3>2. k \in readers[k]
      BY <1>2, <2>6 DEF Listening
    <3> QED
      BY <2>1, <3>1, <3>2
  <2>7. Parent \in readers'[i]
    BY <2>1, <2>3
  <2>8. Listening'
    BY <1>2, <2>2, <2>3, <2>4, <2>5, <2>6, <2>7 DEF Listening
  <2> QED
    BY <1>1, <1>2, <2>4, <2>8 DEF PipeInv, CountOK, NoBrokenPipe
<1>6. CASE Fork
  <2>1. /\ \A k \in Children : /\ writers[k] \subseteq writers'[k] /\ readers[k] \subseteq readers'[k]
                               /\ cpc'[k] = IF k = i THEN "close" ELSE cpc[k]
        /\ i \in readers'[i]
    BY <1>2, <1>6 DEF Fork, Inherit, TypeOK, Listening
  <2>2. \A k \in Children : (Made(k)' => Made(k)) /\ (Forked(k)' => Forked(k) \/ k = i)
    BY <1>3, <1>6 DEF Fork, Made, Forked
  <2> QED
    <3>1. UNCHANGED <<i, n, pipe, done>> /\ ppc = "fork" /\ ppc' = "forked"
      BY <1>6 DEF Fork
    <3>2. Listening'
      BY <1>2, <2>1, <2>2, <3>1 DEF Listening
    <3> QED
      BY <1>1, <1>2, <3>1, <3>2 DEF PipeInv, CountOK, NoBrokenPipe
<1>7. CASE CloseReadEnd
  <2>1. \A k \in Children : (Made(k)' => Made(k)) /\ (Forked(k)' => Forked(k))
    <3>1. ppc = "forked" /\ i \in Int
      BY <1>3, <1>7 DEF CloseReadEnd
    <3>2. /\ i < CHILD_NUM => ppc' = "pipe" /\ i' = i + 1
          /\ ~ (i < CHILD_NUM) => ppc' = "ctrl"
      BY <1>7 DEF CloseReadEnd
    <3>3. \A k \in Children : k \in Int /\ k <= CHILD_NUM
      BY DEF Children
    <3> QED
      BY <3>1, <3>2, <3>3 DEF Made, Forked
  <2>2. \A k \in Children : k \in readers[k] => k \in readers'[k]
    BY <1>2, <1>7 DEF CloseReadEnd, TypeOK
  <2> QED
    BY <1>1, <1>2, <1>7, <2>1, <2>2 DEF CloseReadEnd, PipeInv, CountOK, Listening, NoBrokenPipe, childVars
<1>8. CASE GiveTask
  <2>1. CountOK'
    <3>1. ASSUME NEW k \in Children PROVE Len(pipe'[k]) <= Len(pipe[k]) + 1
      <4>1. pipe[k] \in Seq(1 .. EXE_NUM)
        BY <1>2 DEF TypeOK
      <4>2. pipe'[k] = pipe[k] \/ pipe'[k] = Append(pipe[k], n + 1)
        BY <1>2, <1>8 DEF GiveTask, TypeOK
      <4> QED
        BY <1>3, <4>1, <4>2
    <3>2. n' = n + 1 /\ done' = done
      BY <1>8 DEF GiveTask, childVars
    <3>3. ASSUME NEW k \in Children PROVE Len(pipe'[k]) \in Int
      BY <1>1 DEF Inherited, TypeOK
    <3> QED
      <4> SUFFICES ASSUME NEW k \in Children PROVE Len(done'[k]) + Len(pipe'[k]) <= n'
        BY DEF CountOK
      <4> DEFINE d == Len(done[k])
                 p == Len(pipe[k])
                 q == Len(pipe'[k])
      <4>1. d + p <= n /\ d \in Nat /\ p \in Nat /\ n \in Int /\ q \in Int /\ q <= p + 1
        BY <1>2, <1>3, <3>1, <3>3 DEF CountOK
      <4> HIDE DEF d, p, q
      <4>2. d + q <= n + 1
        BY <4>1
      <4> QED
        BY <3>2, <4>2 DEF d, q
  <2> QED
    BY <1>1, <1>2, <1>8, <2>1 DEF GiveTask, PipeInv, Listening, NoBrokenPipe, Made, Forked,
                                   childVars
<1>9. CASE BrokenPipe
  <2> DEFINE t == Target + 1
  <2>1. t \in Children
    <3>1. procs \in Int /\ procs + 1 >= 0
      BY <1>2 DEF TypeOK
    <3>2. (procs + 1) % CHILD_NUM \in 0 .. CHILD_NUM - 1
      BY <3>1
    <3> QED
      BY <3>2 DEF Target, Children
  <2>0. ppc = "ctrl" /\ n < EXE_NUM /\ readers[t] = {}
    BY <1>9 DEF BrokenPipe
  <2> HIDE DEF t
  <2>2. Len(done[t]) < EXE_NUM
    <3> DEFINE d == Len(done[t])
               p == Len(pipe[t])
    <3>1. d + p <= n
      BY <1>2, <2>1 DEF CountOK
    <3>2. d \in Nat /\ p \in Nat /\ n \in Int
      BY <1>3, <2>1
    <3> HIDE DEF d, p
    <3>3. d < EXE_NUM
      BY <2>0, <3>1, <3>2
    <3> QED
      BY <3>3 DEF d
  <2>3. cpc[t] \notin {"leave", "exited", "reaped"}
    <3> DEFINE d == Len(done[t])
    <3>1. d < EXE_NUM /\ d \in Int
      BY <1>3, <2>1, <2>2
    <3>2. cpc[t] \in {"leave", "exited", "reaped"} => d >= EXE_NUM
      BY <1>2, <2>0, <2>1 DEF Listening
    <3> HIDE DEF d
    <3> QED
      BY <3>1, <3>2
  <2>4. cpc[t] = "none"
    <3>1. cpc[t] \in {"none", "close", "read", "leave", "exited", "reaped"}
      BY <1>2, <2>1 DEF TypeOK
    <3>2. cpc[t] \notin {"close", "read", "leave"}
      BY <1>2, <2>0, <2>1 DEF Listening
    <3> QED
      BY <2>3, <3>1, <3>2
  <2>5. /\ ppc' = "killed" /\ procs' + 1 = t
        /\ UNCHANGED <<i, pids, n, readers, pipe, cpc, fds, done>>
    BY <1>9 DEF BrokenPipe, childVars, t
  <2>6. NoBrokenPipe'
    BY <2>4, <2>5 DEF NoBrokenPipe
  <2>7. Listening' /\ CountOK'
    BY <1>2, <2>5 DEF Listening, CountOK
  <2> QED
    BY <1>1, <2>6, <2>7 DEF PipeInv
<1>10. CASE StopGiving \/ CloseWriteEnd \/ WaitPidError
  BY <1>1, <1>2, <1>10 DEF StopGiving, CloseWriteEnd, WaitPidError, Next_i, PipeInv, CountOK,
                           Listening, NoBrokenPipe, childVars
<1>11. CASE WaitPid
  BY <1>1, <1>2, <1>11 DEF WaitPid, Next_i, PipeInv, CountOK, Listening, NoBrokenPipe, TypeOK
<1>12. ASSUME NEW k \in Children, CloseInherited(k) PROVE PipeInv'
  <2>1. /\ \A j \in Children : Parent \in writers[j] => Parent \in writers'[j]
        /\ \A x \in Children : \/ cpc'[x] = cpc[x]
                               \/ x = k /\ cpc[x] = "close" /\ cpc'[x] = "read"
        /\ UNCHANGED <<parentVars, readers, pipe, done>>
    <3>1. /\ writers' = [writers EXCEPT ![fds[k]] = @ \ {k}]
          /\ cpc' = cpc \/ (cpc[k] = "close" /\ cpc' = [cpc EXCEPT ![k] = "read"])
          /\ UNCHANGED <<parentVars, readers, pipe, done>>
      BY <1>12 DEF CloseInherited
    <3>2. k # Parent
      BY DEF Children, Parent
    <3> QED
      BY <1>2, <3>1, <3>2 DEF TypeOK
  <2>2. Listening' /\ CountOK'
    BY <1>2, <2>1 DEF CountOK, Listening, Made, Forked, parentVars
  <2>3. NoBrokenPipe'
    <3>1. \A x \in Children : cpc[x] = "none" => cpc'[x] = "none"
      BY <2>1
    <3>2. procs + 1 \in Children
      BY <1>2 DEF TypeOK, Children
    <3>3. UNCHANGED <<ppc, procs>>
      BY <2>1 DEF parentVars
    <3> QED
      BY <1>2, <3>1, <3>2, <3>3 DEF NoBrokenPipe
  <2> QED
    BY <1>1, <2>2, <2>3 DEF PipeInv
<1>13. ASSUME NEW k \in Children, ReadTask(k) PROVE PipeInv'
  <2>1. \A x \in Children :
           IF x = k THEN Len(done'[x]) = Len(done[x]) + 1 /\ Len(pipe'[x]) = Len(pipe[x]) - 1
                    ELSE done'[x] = done[x] /\ pipe'[x] = pipe[x]
    <3>1. /\ done[k] \in Seq(1 .. EXE_NUM) /\ pipe[k] \in Seq(1 .. EXE_NUM)
          /\ pipe[k] # <<>>
      BY <1>2, <1>13 DEF ReadTask, TypeOK
    <3>2. Len(Tail(pipe[k])) = Len(pipe[k]) - 1 /\ Len(Append(done[k], Head(pipe[k]))) = Len(done[k]) + 1
      BY <3>1
    <3>3. \A x \in Children :
             IF x = k THEN done'[x] = Append(done[x], Head(pipe[x])) /\ pipe'[x] = Tail(pipe[x])
                      ELSE done'[x] = done[x] /\ pipe'[x] = pipe[x]
      BY <1>2, <1>13, SMTT(40) DEF ReadTask, TypeOK
    <3> QED
      BY <3>2, <3>3
  <2>2. CountOK'
    <3> SUFFICES ASSUME NEW x \in Children PROVE Len(done'[x]) + Len(pipe'[x]) <= n
      BY <1>13 DEF ReadTask, CountOK, parentVars
    <3> DEFINE d == Len(done[x])
               p == Len(pipe[x])
               e == Len(done'[x])
               q == Len(pipe'[x])
    <3>1. d + p <= n /\ d \in Nat /\ p \in Nat /\ n \in Int
      BY <1>2, <1>3 DEF CountOK
    <3>2. (e = d + 1 /\ q = p - 1) \/ (e = d /\ q = p)
      BY <2>1
    <3> HIDE DEF d, p, e, q
    <3>3. e + q <= n
      BY <3>1, <3>2
    <3> QED
      BY <3>3 DEF e, q
  <2>3. \A x \in Children : IF x = k THEN /\ cpc[x] = "read" /\ cpc'[x] \in {"read", "leave"}
                                          /\ cpc'[x] = "leave" => Len(done'[x]) >= EXE_NUM
                                     ELSE cpc'[x] = cpc[x]
    BY <1>2, <1>3, <1>13, <2>1 DEF ReadTask, TypeOK
  <2>4. Listening'
    BY <1>2, <1>3, <1>13, <2>1, <2>3 DEF ReadTask, Listening, Made, Forked, parentVars
  <2> QED
    BY <1>1, <1>2, <1>13, <2>2, <2>4 DEF ReadTask, PipeInv, NoBrokenPipe, parentVars
<1>14. ASSUME NEW k \in Children, ReadEnd(k) PROVE PipeInv'
  <2>1. ~ Giving
    BY <1>2, <1>4, <1>14 DEF ReadEnd, NotYet, Listening
  <2> QED
    BY <1>1, <1>2, <1>14, <2>1 DEF ReadEnd, PipeInv, CountOK, Listening, NoBrokenPipe, TypeOK, parentVars
<1>15. ASSUME NEW k \in Children, Exit(k) PROVE PipeInv'
  <2>1. /\ \A j \in Children : /\ Parent \in writers[j] => Parent \in writers'[j]
                               /\ Parent \in readers[j] => Parent \in readers'[j]
                               /\ j # k /\ j \in readers[j] => j \in readers'[j]
        /\ \A x \in Children : \/ x # k /\ cpc'[x] = cpc[x]
                               \/ x = k /\ cpc[x] = "leave" /\ cpc'[x] = "exited"
        /\ UNCHANGED <<parentVars, pipe, done>>
    BY <1>2, <1>15 DEF Exit, TypeOK
  <2>2. Listening' /\ CountOK'
    BY <1>2, <2>1 DEF CountOK, Listening, Made, Forked, parentVars, TypeOK
  <2>3. NoBrokenPipe'
    <3>1. \A x \in Children : cpc[x] = "none" => cpc'[x] = "none"
      BY <2>1
    <3>2. procs + 1 \in Children
      BY <1>2 DEF TypeOK, Children
    <3>3. UNCHANGED <<ppc, procs>>
      BY <2>1 DEF parentVars
    <3> QED
      BY <1>2, <3>1, <3>2, <3>3 DEF NoBrokenPipe
  <2> QED
    BY <1>1, <2>2, <2>3 DEF PipeInv
<1>16. CASE UNCHANGED vars
  BY <1>1, <1>2, <1>16 DEF PipeInv, CountOK, Listening, NoBrokenPipe, Made, Forked, vars, parentVars,
                              childVars
<1>17. CASE ForkError
  <2>1. \A k \in Children : (Made(k)' => Made(k)) /\ (Forked(k)' => Forked(k) \/ k = i)
    BY <1>3, <1>17 DEF ForkError, Made, Forked
  <2>2. ppc = "fork" /\ ppc' = "forked" /\ UNCHANGED <<i, n, writers, readers, pipe, cpc, done>>
    BY <1>17 DEF ForkError, childVars
  <2> QED
    BY <1>1, <1>2, <2>1, <2>2 DEF PipeInv, CountOK, Listening, NoBrokenPipe
<1> QED
  BY <1>5, <1>6, <1>7, <1>8, <1>9, <1>10, <1>11, <1>12, <1>13, <1>14, <1>15, <1>16, <1>17
  DEF Next, ParentStep, ChildStep

\* The parent never writes to a child that has stopped reading: the two loops
\* over EXE_NUM in proc.cc fit together, for any number of children and of
\* tasks, and only a child that could not be created can kill the parent.
THEOREM NeverBroken == Spec => []NoBrokenPipe
<1>1. PipeInv => NoBrokenPipe
  BY DEF PipeInv
<1> QED
  BY <1>1, InitPipe, NextPipe, PTL DEF Spec
-----------------------------------------------------------------------------
(* NoTaskLost *)

\* A child that has stopped reading has left nothing in its pipe, and nothing
\* is written to it afterwards.
Drained ==
    \A k \in Children : cpc[k] \in {"leave", "exited", "reaped"} => pipe[k] = <<>>

\* PipeInv says why: the parent has no task left for a child that has executed
\* EXE_NUM of them, and writes nothing once it has closed a pipe.
LEMMA NextDrained == ASSUME PipeInv, Drained, [Next]_vars PROVE Drained'
<1>0. CHILD_NUM \in Nat \ {0} /\ EXE_NUM \in Nat \ {0}
  BY ProcPoolAssumption DEF ProcPoolAssumption
<1>1. TypeOK /\ CountOK /\ Listening /\ TypeOK' /\ CountOK'
  BY NextPipe DEF PipeInv, Inherited
<1>2. ASSUME NEW k \in Children
      PROVE  Len(done[k]) \in Nat /\ Len(pipe[k]) \in Nat /\ Len(done'[k]) \in Nat
             /\ Len(pipe'[k]) \in Nat /\ (Len(pipe'[k]) = 0 => pipe'[k] = <<>>)
  <2>1. done[k] \in Seq(1 .. EXE_NUM) /\ pipe[k] \in Seq(1 .. EXE_NUM)
        /\ done'[k] \in Seq(1 .. EXE_NUM) /\ pipe'[k] \in Seq(1 .. EXE_NUM)
    BY <1>1 DEF TypeOK
  <2> QED
    BY <2>1
<1>3. CASE GiveTask
  <2> SUFFICES ASSUME NEW k \in Children, cpc[k] \in {"leave", "exited", "reaped"}
               PROVE  pipe'[k] = pipe[k]
    BY <1>3 DEF GiveTask, childVars, Drained
  <2> DEFINE d == Len(done[k])
             p == Len(pipe[k])
  <2>1. d >= EXE_NUM /\ d + p <= n /\ d \in Nat /\ p \in Nat /\ n \in Int /\ n < EXE_NUM
    BY <1>1, <1>2, <1>3 DEF GiveTask, Listening, Giving, CountOK, TypeOK
  <2> HIDE DEF d, p
  <2> QED
    BY <1>0, <2>1
<1>4. ASSUME NEW k \in Children, ReadTask(k) PROVE Drained'
  <2>1. /\ \A x \in Children \ {k} : pipe'[x] = pipe[x] /\ cpc'[x] = cpc[x]
        /\ cpc'[k] = "leave" => ~ (Len(done'[k]) < EXE_NUM)
        /\ cpc'[k] \in {"read", "leave"}
    BY <1>1, <1>4 DEF ReadTask, TypeOK
  <2>2. cpc'[k] = "leave" => pipe'[k] = <<>>
    <3> DEFINE d == Len(done'[k])
               p == Len(pipe'[k])
    <3>1. d + p <= n' /\ d \in Nat /\ p \in Nat /\ n' \in Int /\ n' <= EXE_NUM
      BY <1>0, <1>1, <1>2 DEF CountOK, TypeOK
    <3> HIDE DEF d, p
    <3>2. ~ (d < EXE_NUM) => p = 0
      BY <1>0, <3>1
    <3> QED
      BY <1>2, <2>1, <3>2 DEF d, p
  <2> QED
    BY <2>1, <2>2 DEF Drained
<1>5. ASSUME NEW k \in Children, CloseInherited(k) \/ ReadEnd(k) \/ Exit(k) PROVE Drained'
  <2>1. /\ \A x \in Children \ {k} : pipe'[x] = pipe[x] /\ cpc'[x] = cpc[x]
        /\ pipe'[k] = pipe[k]
    <3>1. pipe' = pipe
      BY <1>5 DEF CloseInherited, ReadEnd, Exit
    <3>2. \A x \in Children \ {k} : cpc'[x] = cpc[x]
      <4>1. cpc' = cpc \/ \E at \in {"read", "leave", "exited"} : cpc' = [cpc EXCEPT ![k] = at]
        BY <1>5 DEF CloseInherited, ReadEnd, Exit
      <4> QED
        BY <1>1, <4>1 DEF TypeOK
    <3> QED
      BY <3>1, <3>2
  <2>2. CASE CloseInherited(k)
    <3>1. cpc'[k] \in {"close", "read"}
      BY <1>1, <2>2 DEF CloseInherited, TypeOK
    <3> QED
      BY <2>1, <3>1 DEF Drained
  <2>3. CASE ReadEnd(k)
    BY <2>1, <2>3 DEF ReadEnd, Drained
  <2>4. CASE Exit(k)
    BY <2>1, <2>4 DEF Exit, Drained
  <2> QED
    BY <1>5, <2>2, <2>3, <2>4
<1>6. CASE \/ MakePipe \/ Fork \/ ForkError \/ CloseReadEnd \/ BrokenPipe \/ StopGiving
           \/ CloseWriteEnd \/ WaitPid \/ WaitPidError \/ UNCHANGED vars
  <2>1. /\ pipe' = pipe
        /\ \A k \in Children : cpc'[k] \in {"leave", "exited", "reaped"}
                                 => cpc[k] \in {"leave", "exited", "reaped"}
    <3>1. CASE Fork
      BY <1>1, <3>1 DEF Fork, TypeOK
    <3>2. CASE WaitPid
      BY <1>1, <3>2 DEF WaitPid, TypeOK
    <3>3. CASE \/ MakePipe \/ ForkError \/ CloseReadEnd \/ BrokenPipe \/ StopGiving
               \/ CloseWriteEnd \/ WaitPidError \/ UNCHANGED vars
      BY <3>3 DEF MakePipe, ForkError, CloseReadEnd, BrokenPipe, StopGiving, CloseWriteEnd, WaitPidError,
                  childVars, vars
    <3> QED
      BY <1>6, <3>1, <3>2, <3>3
  <2> QED
    BY <2>1 DEF Drained
<1> QED
  BY <1>3, <1>4, <1>5, <1>6 DEF Next, ParentStep, ChildStep

\* A child never leaves with a task still in its pipe, nor is one written to it
\* later: what was handed out is executed, for any number of children and tasks.
THEOREM TasksNotLost == Spec => []NoTaskLost
<1>1. Init => PipeInv /\ Drained
  BY InitPipe DEF Init, Drained
<1>2. PipeInv /\ Drained /\ [Next]_vars => (PipeInv /\ Drained)'
  BY NextPipe, NextDrained
<1>3. Drained => NoTaskLost
  BY DEF Drained, NoTaskLost
<1> QED
  BY <1>1, <1>2, <1>3, PTL DEF Spec
-----------------------------------------------------------------------------
(* Nobody waits for ever *)

\* The parent waits on a pipe it has closed, a child that reads has room for
\* another task, and only a failed fork leaves no process id behind.
Awaited ==
    /\ ppc = "wait" => Parent \notin writers[i]
    /\ \A k \in Children : /\ cpc[k] \in {"none", "close"} => done[k] = <<>>
                           /\ cpc[k] = "read" => Len(done[k]) < EXE_NUM
    /\ \A k \in Children : /\ pids[k] \in {k, NoPid}
                           /\ pids[k] = k => cpc[k] # "none"

LEMMA NextAwaited == ASSUME Inherited, Awaited, [Next]_vars PROVE Awaited'
<1>0. /\ \A k \in Children : k # NoPid
      /\ EXE_NUM \in Nat \ {0} /\ i \in Children /\ Parent \notin Children
      /\ writers \in [Children -> SUBSET Procs] /\ pids \in [Children -> Children \cup {NoPid}]
      /\ cpc \in [Children -> {"none", "close", "read", "leave", "exited", "reaped"}]
      /\ done \in [Children -> Seq(1 .. EXE_NUM)]
  <2>1. /\ \A k \in Children : k # NoPid
        /\ EXE_NUM \in Nat \ {0} /\ Parent \notin Children
    BY ProcPoolAssumption DEF Children, NoPid, Parent
  <2>2. TypeOK
    BY DEF Inherited
  <2> QED
    BY <2>1, <2>2 DEF TypeOK
<1> USE <1>0
\* A step that forks nobody, ends no wait and lets no child read.
<1>a. ASSUME UNCHANGED <<pids, done>>, ppc' = "wait" => Parent \notin writers'[i'],
             \A k \in Children : /\ cpc'[k] = "read" => cpc[k] = "read"
                                 /\ cpc'[k] \in {"none", "close"} => cpc[k] \in {"none", "close"}
                                 /\ cpc[k] # "none" => cpc'[k] # "none"
      PROVE  Awaited'
  BY <1>a DEF Awaited
<1>1. CASE MakePipe \/ CloseReadEnd \/ GiveTask \/ BrokenPipe \/ StopGiving
  <2>1. ppc' # "wait" /\ UNCHANGED <<pids, cpc, done>>
    BY <1>1 DEF MakePipe, CloseReadEnd, GiveTask, BrokenPipe, StopGiving, childVars
  <2> QED
    BY <1>a, <2>1
<1>2. CASE Fork
  <2>1. /\ ppc' = "forked" /\ done' = done
        /\ \A k \in Children : /\ pids'[k] = IF k = i THEN i ELSE pids[k]
                               /\ cpc'[k] = IF k = i THEN "close" ELSE cpc[k]
    BY <1>2 DEF Fork
  <2>2. cpc[i] = "none" /\ i # NoPid
    <3>1. ~ (i < i)
      BY ProcPoolAssumption DEF Children
    <3> QED
      BY <1>2, <3>1 DEF Fork, Inherited, NotYet, Forked
  <2>3. done[i] = <<>> /\ done'[i] = done[i]
    BY <2>1, <2>2 DEF Awaited
  <2> QED
    BY <2>1, <2>2, <2>3 DEF Awaited
<1>3. CASE ForkError
  <2>1. /\ ppc' = "forked" /\ done' = done /\ cpc' = cpc
        /\ \A k \in Children : pids'[k] = IF k = i THEN NoPid ELSE pids[k]
    BY <1>3 DEF ForkError, childVars
  <2> QED
    BY <2>1 DEF Awaited
<1>4. CASE CloseWriteEnd
  <2>1. Parent \notin writers'[i'] /\ UNCHANGED <<pids, cpc, done>>
    BY <1>4 DEF CloseWriteEnd, childVars
  <2> QED
    BY <1>a, <2>1
<1>5. CASE WaitPid \/ WaitPidError
  <2>1. ppc' # "wait" /\ UNCHANGED <<pids, done>>
    BY <1>5 DEF WaitPid, WaitPidError, Next_i, childVars
  <2>2. \A k \in Children : cpc'[k] = cpc[k] \/ cpc'[k] = "reaped"
    BY <1>5 DEF WaitPid, WaitPidError, childVars
  <2> QED
    BY <1>a, <2>1, <2>2
<1>6. ASSUME NEW k \in Children, ChildStep(k) PROVE Awaited'
  <2>1. UNCHANGED <<ppc, i, pids>>
    BY <1>6 DEF ChildStep, CloseInherited, ReadTask, ReadEnd, Exit, parentVars
  <2>2. \A j \in Children : writers'[j] \subseteq writers[j]
    BY <1>6 DEF ChildStep, CloseInherited, ReadTask, ReadEnd, Exit
  <2>3. ppc' = "wait" => Parent \notin writers'[i']
    BY <2>1, <2>2 DEF Awaited
  <2>4. CASE CloseInherited(k)
    <3>1. done' = done /\ (cpc' = cpc \/ cpc' = [cpc EXCEPT ![k] = "read"]) /\ cpc[k] = "close"
      BY <2>4 DEF CloseInherited
    <3>2. cpc[k] # "none" /\ pids' = pids
      BY <2>1, <3>1
    <3>3. CASE cpc' = [cpc EXCEPT ![k] = "read"]
      <4>1. Len(done[k]) < EXE_NUM
        BY <3>1 DEF Awaited
      <4>2. cpc'[k] = "read" /\ \A j \in Children \ {k} : cpc'[j] = cpc[j]
        BY <3>3
      <4> QED
        BY <2>1, <2>3, <3>1, <4>1, <4>2 DEF Awaited
    <3> QED
      BY <1>a, <2>3, <3>1, <3>2, <3>3
  <2>5. CASE ReadTask(k)
    <3>1. /\ cpc[k] = "read" /\ done' = [done EXCEPT ![k] = Append(@, Head(pipe[k]))]
          /\ cpc' = [cpc EXCEPT ![k] = IF Len(done'[k]) < EXE_NUM THEN "read" ELSE "leave"]
      BY <2>5 DEF ReadTask
    <3>2. \A j \in Children \ {k} : cpc'[j] = cpc[j] /\ done'[j] = done[j]
      BY <3>1
    <3>3. cpc'[k] \in {"read", "leave"} /\ (cpc'[k] = "read" => Len(done'[k]) < EXE_NUM)
      BY <3>1
    <3> QED
      BY <2>1, <2>3, <3>1, <3>2, <3>3 DEF Awaited
  <2>6. CASE ReadEnd(k) \/ Exit(k)
    <3>1. done' = done /\ cpc[k] # "none" /\ cpc'[k] \in {"leave", "exited"}
          /\ \A j \in Children \ {k} : cpc'[j] = cpc[j]
      BY <2>6 DEF ReadEnd, Exit
    <3> QED
      BY <1>a, <2>1, <2>3, <3>1
  <2> QED
    BY <1>6, <2>4, <2>5, <2>6 DEF ChildStep
<1>7. CASE UNCHANGED vars
  BY <1>a, <1>7 DEF vars, parentVars, childVars, Awaited
<1> QED
  BY <1>1, <1>2, <1>3, <1>4, <1>5, <1>6, <1>7 DEF Next, ParentStep

\* What the guards ask for.
ParentCan ==
    \/ ppc \in {"pipe", "fork", "forked", "ctrl", "close"}
    \/ /\ ppc = "wait"
       /\ \/ \E k \in Children : pids[i] \in {k, NoPid} /\ cpc[k] = "exited"
          \/ \A k \in Children : pids[i] \in {k, NoPid} => cpc[k] \in {"none", "reaped"}

ChildCan(k) ==
    \/ cpc[k] \in {"close", "leave"}
    \/ cpc[k] = "read" /\ (pipe[k] # <<>> \/ writers[k] = {})

\* The parent is at work, and not in a waitpid(-1).
Working == ppc \notin {"done", "killed"} /\ ~ (ppc = "wait" /\ pids[i] = NoPid)

NoStandstill == Working => ParentCan \/ \E k \in Children : ChildCan(k)

(***************************************************************************)
(* Parent and children never wait for each other: the child the parent     *)
(* waits for has exited, or is about to see the end of its pipe, or some   *)
(* child has still to close a write end of that.  The one place where all  *)
(* of them can be stuck is the waitpid(-1) that a failed fork left in      *)
(* _child_pid (proc.cc:171).                                               *)
(***************************************************************************)
THEOREM NeverStuck == Spec => []NoStandstill
<1>1. Init => Awaited
  BY ProcPoolAssumption DEF Init, Awaited, Children, NoPid
<1>2. Inherited /\ Awaited /\ [Next]_vars => Awaited'
  BY NextAwaited
<1>3. ASSUME Inherited, Awaited PROVE NoStandstill
  <2> SUFFICES ASSUME ppc = "wait", pids[i] # NoPid, ~ ParentCan, \A k \in Children : ~ ChildCan(k)
               PROVE  FALSE
    BY <1>3 DEF NoStandstill, Working, Inherited, TypeOK, ParentCan
  <2>1. i \in Children /\ pids[i] = i /\ cpc[i] # "none" /\ Parent \notin writers[i]
    BY <1>3 DEF Inherited, TypeOK, Awaited
  <2>2. cpc[i] \notin {"exited", "reaped"}
    BY <2>1 DEF ParentCan
  <2>3. cpc[i] = "read"
    BY <1>3, <2>1, <2>2 DEF Inherited, TypeOK, ChildCan
  <2>4. PICK k \in Procs : k \in writers[i]
    BY <1>3, <2>1, <2>3 DEF ChildCan, Inherited, TypeOK
  <2>5. k \in Children /\ cpc[k] = "close"
    BY <1>3, <2>1, <2>4 DEF Procs, Inherited, StillClosing
  <2> QED
    BY <2>5 DEF ChildCan
<1> QED
  BY <1>1, <1>2, <1>3, InheritedInvariance, PTL DEF Spec
=============================================================================
