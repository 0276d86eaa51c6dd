-------------------------- MODULE RingQueueProofs --------------------------
(***************************************************************************)
(* The safety properties of RingQueue for any number of producers,         *)
(* consumers and slots.                                                    *)
(***************************************************************************)
EXTENDS RingQueue, FiniteSetTheorems, SequenceTheorems, TLAPS

(***************************************************************************)
(* How the number of threads at a place changes when only thread t moves.  *)
(***************************************************************************)
LEMMA CountMove ==
    ASSUME NEW S, IsFiniteSet(S), NEW old \in SUBSET S, NEW new \in SUBSET S,
           NEW t \in S, new \ {t} = old \ {t}
    PROVE  /\ Cardinality(old) \in Nat /\ Cardinality(new) \in Nat
           /\ t \in new /\ t \notin old => Cardinality(new) = Cardinality(old) + 1
           /\ t \notin new /\ t \in old => Cardinality(new) = Cardinality(old) - 1
           /\ (t \in new <=> t \in old) => Cardinality(new) = Cardinality(old)
<1>1. IsFiniteSet(old) /\ Cardinality(old) \in Nat /\ Cardinality(new) \in Nat
  BY FS_Subset, FS_CardinalityType
<1>2. /\ t \in new /\ t \notin old => new = old \cup {t}
      /\ (t \in new <=> t \in old) => new = old
  OBVIOUS
<1>3. t \notin new /\ t \in old => new = old \ {t}
  OBVIOUS
<1> QED
  BY <1>1, <1>2, <1>3, FS_AddElement, FS_RemoveElement

(***************************************************************************)
(* A position in 0 .. Capacity wrapped by `% _capacity`.                   *)
(***************************************************************************)
LEMMA WrapValue ==
    ASSUME NEW x \in 0 .. Capacity
    PROVE  x % Capacity = IF x = Capacity THEN 0 ELSE x
BY RingQueueAssumption

-----------------------------------------------------------------------------
Critical == {"index", "copy", "wrap", "unlock"}

\* A mutex is owned exactly by the thread that is in its critical section.
MutexInv ==
    /\ \A p \in Producers : p_mtx = p <=> pc[p] \in Critical
    /\ \A c \in Consumers : c_mtx = c <=> pc[c] \in Critical

\* A position reaches Capacity only until its owner wraps it.
PosInv ==
    /\ \A p \in Producers : pc[p] = "copy" => slot[p] + 1 = p_pos
    /\ \A c \in Consumers : pc[c] = "copy" => slot[c] + 1 = c_pos
    /\ p_pos = Capacity =>
           p_mtx \in Producers /\ pc[p_mtx] \in {"copy", "wrap"}
    /\ c_pos = Capacity =>
           c_mtx \in Consumers /\ pc[c_mtx] \in {"copy", "wrap"}

(***************************************************************************)
(* The inductive invariant.  The range of the semaphores follows from the  *)
(* permits, the order of the accesses from the shape of the ring.          *)
(***************************************************************************)
IInv == /\ TypeOK
        /\ MutexInv
        /\ PosInv
        /\ PermitsConserved
        /\ NoLapping

\* A step that leaves the unread items where they are.
Still == Unread' = Unread /\ Front' = Front

Filling == {"wrap", "unlock", "V"}        \* pushes that have written
Emptying == {"lock", "index", "copy"}     \* pops that have not read

\* A producer's step changes how many producers are at a place, and no
\* consumer's place.
LEMMA PushMove ==
    ASSUME TypeOK, NEW p \in Producers, NEW w,
           pc' = [pc EXCEPT ![p] = w], NEW A
    PROVE  /\ Cardinality(InPush(A)) \in Nat /\ Cardinality(InPush(A)') \in Nat
           /\ w \in A /\ pc[p] \notin A =>
                  Cardinality(InPush(A)') = Cardinality(InPush(A)) + 1
           /\ w \notin A /\ pc[p] \in A =>
                  Cardinality(InPush(A)') = Cardinality(InPush(A)) - 1
           /\ (w \in A <=> pc[p] \in A) =>
                  Cardinality(InPush(A)') = Cardinality(InPush(A))
           /\ InPop(A)' = InPop(A)
<1>1. Producers \subseteq Threads /\ DOMAIN pc = Threads
  BY DEF TypeOK, Threads
<1>2. InPop(A)' = InPop(A)
  BY <1>1, RingQueueAssumption DEF InPop, Threads
<1>3. /\ InPush(A) \in SUBSET Producers /\ InPush(A)' \in SUBSET Producers
      /\ InPush(A)' \ {p} = InPush(A) \ {p}
      /\ p \in InPush(A) <=> pc[p] \in A
      /\ p \in InPush(A)' <=> w \in A
  BY <1>1 DEF InPush
<1>4. IsFiniteSet(Producers)
  BY RingQueueAssumption
<1> DEFINE old == InPush(A)
           new == InPush(A)'
<1>5. /\ Cardinality(old) \in Nat /\ Cardinality(new) \in Nat
      /\ p \in new /\ p \notin old => Cardinality(new) = Cardinality(old) + 1
      /\ p \notin new /\ p \in old => Cardinality(new) = Cardinality(old) - 1
      /\ (p \in new <=> p \in old) => Cardinality(new) = Cardinality(old)
  <2> HIDE DEF old, new
  <2> QED
    BY <1>3, <1>4, CountMove DEF old, new
<1> QED
  BY <1>2, <1>3, <1>5

\* The same for a consumer's step.
LEMMA PopMove ==
    ASSUME TypeOK, NEW c \in Consumers, NEW w,
           pc' = [pc EXCEPT ![c] = w], NEW A
    PROVE  /\ Cardinality(InPop(A)) \in Nat /\ Cardinality(InPop(A)') \in Nat
           /\ w \in A /\ pc[c] \notin A =>
                  Cardinality(InPop(A)') = Cardinality(InPop(A)) + 1
           /\ w \notin A /\ pc[c] \in A =>
                  Cardinality(InPop(A)') = Cardinality(InPop(A)) - 1
           /\ (w \in A <=> pc[c] \in A) =>
                  Cardinality(InPop(A)') = Cardinality(InPop(A))
           /\ InPush(A)' = InPush(A)
<1>1. Consumers \subseteq Threads /\ DOMAIN pc = Threads
  BY DEF TypeOK, Threads
<1>2. InPush(A)' = InPush(A)
  BY <1>1, RingQueueAssumption DEF InPush, Threads
<1>3. /\ InPop(A) \in SUBSET Consumers /\ InPop(A)' \in SUBSET Consumers
      /\ InPop(A)' \ {c} = InPop(A) \ {c}
      /\ c \in InPop(A) <=> pc[c] \in A
      /\ c \in InPop(A)' <=> w \in A
  BY <1>1 DEF InPop
<1>4. IsFiniteSet(Consumers)
  BY RingQueueAssumption
<1> DEFINE old == InPop(A)
           new == InPop(A)'
<1>5. /\ Cardinality(old) \in Nat /\ Cardinality(new) \in Nat
      /\ c \in new /\ c \notin old => Cardinality(new) = Cardinality(old) + 1
      /\ c \notin new /\ c \in old => Cardinality(new) = Cardinality(old) - 1
      /\ (c \in new <=> c \in old) => Cardinality(new) = Cardinality(old)
  <2> HIDE DEF old, new
  <2> QED
    BY <1>3, <1>4, CountMove DEF old, new
<1> QED
  BY <1>2, <1>3, <1>5

(***************************************************************************)
(* What the counts say in every state of the invariant.                    *)
(***************************************************************************)
LEMMA Counts ==
    ASSUME TypeOK
    PROVE  /\ \A A : /\ IsFiniteSet(InPush(A)) /\ Cardinality(InPush(A)) \in Nat
                     /\ IsFiniteSet(InPop(A)) /\ Cardinality(InPop(A)) \in Nat
           /\ Cardinality(InPush(Filling)) <= Cardinality(InPush(PushPlaces))
           /\ Cardinality(InPop(Emptying)) <= Cardinality(InPop(PushPlaces))
           /\ \A p \in Producers : pc[p] \in PushPlaces \ Filling =>
                  Cardinality(InPush(Filling)) + 1 <= Cardinality(InPush(PushPlaces))
           /\ \A p \in Producers : pc[p] \in PushPlaces =>
                  Cardinality(InPush(PushPlaces)) >= 1
           /\ \A c \in Consumers : pc[c] \in Emptying =>
                  Cardinality(InPop(Emptying)) >= 1
           /\ \A c \in Consumers : pc[c] \in PushPlaces =>
                  Cardinality(InPop(PushPlaces)) >= 1
<1>1. \A A : /\ IsFiniteSet(InPush(A)) /\ Cardinality(InPush(A)) \in Nat
             /\ IsFiniteSet(InPop(A)) /\ Cardinality(InPop(A)) \in Nat
  BY FS_Subset, FS_CardinalityType, RingQueueAssumption DEF InPush, InPop
<1>2. InPush(Filling) \subseteq InPush(PushPlaces)
  BY DEF InPush, Filling, PushPlaces
<1>3. InPop(Emptying) \subseteq InPop(PushPlaces)
  BY DEF InPop, Emptying, PushPlaces
<1>4. ASSUME NEW p \in Producers, pc[p] \in PushPlaces \ Filling
      PROVE  Cardinality(InPush(Filling)) + 1 <= Cardinality(InPush(PushPlaces))
  <2>1. p \in InPush(PushPlaces) /\ InPush(Filling) \subseteq InPush(PushPlaces) \ {p}
    BY <1>2, <1>4 DEF InPush
  <2>2. /\ IsFiniteSet(InPush(PushPlaces) \ {p})
        /\ Cardinality(InPush(PushPlaces) \ {p}) = Cardinality(InPush(PushPlaces)) - 1
    BY <1>1, <2>1, FS_RemoveElement
  <2>3. Cardinality(InPush(Filling)) <= Cardinality(InPush(PushPlaces) \ {p})
    BY <2>1, <2>2, FS_Subset
  <2> QED
    BY <1>1, <2>2, <2>3
<1>5. ASSUME NEW S, IsFiniteSet(S), NEW x \in S
      PROVE  Cardinality(S) >= 1
  BY <1>5, FS_EmptySet, FS_CardinalityType
<1>6. /\ Cardinality(InPush(Filling)) <= Cardinality(InPush(PushPlaces))
      /\ Cardinality(InPop(Emptying)) <= Cardinality(InPop(PushPlaces))
  BY <1>1, <1>2, <1>3, FS_Subset
<1>7. \A p \in Producers : pc[p] \in PushPlaces => Cardinality(InPush(PushPlaces)) >= 1
  BY <1>1, <1>5 DEF InPush
<1>8. \A c \in Consumers, A \in {Emptying, PushPlaces} : pc[c] \in A => Cardinality(InPop(A)) >= 1
  BY <1>1, <1>5 DEF InPop
<1> QED
  BY <1>1, <1>4, <1>6, <1>7, <1>8
(***************************************************************************)
(* Init and every action establish the invariant.                          *)
(***************************************************************************)
LEMMA InitInv == Init => IInv
<1> SUFFICES ASSUME Init PROVE IInv
  OBVIOUS
<1>1. TypeOK
  BY RingQueueAssumption DEF Init, TypeOK, Slots, Threads, PushPlaces
<1>2. MutexInv /\ PosInv
  BY RingQueueAssumption DEF Init, MutexInv, PosInv, Critical, Threads
<1>3. \A A \in {PushPlaces, Filling, Emptying} : InPush(A) = {} /\ InPop(A) = {}
  BY DEF Init, InPush, InPop, PushPlaces, Filling, Emptying, Threads
<1>4. \A A \in {PushPlaces, Filling, Emptying} :
          Cardinality(InPush(A)) = 0 /\ Cardinality(InPop(A)) = 0
  BY <1>3, FS_EmptySet
<1>5. PermitsConserved
  BY <1>4, RingQueueAssumption DEF Init, PermitsConserved
<1>6. Unread = 0
  BY <1>4 DEF Init, Unread, Filling, Emptying
<1>7. 0 % Capacity = 0 /\ Front = 0 /\ Back = 0
  BY WrapValue, RingQueueAssumption DEF Init, Front, Back
<1>8. NoLapping
  BY <1>6, <1>7, RingQueueAssumption DEF NoLapping
<1> QED
  BY <1>1, <1>2, <1>5, <1>8 DEF IInv

LEMMA PushCallInv ==
    ASSUME IInv, NEW p \in Producers, NEW v \in Items, PushCall(p, v)
    PROVE  IInv' /\ Still
<1> USE RingQueueAssumption DEF IInv
<1>0. TypeOK /\ pc[p] = "idle" /\ pc' = [pc EXCEPT ![p] = "P"]
  BY DEF PushCall, At
<1>1. /\ Cardinality(InPush(PushPlaces)') = Cardinality(InPush(PushPlaces))
      /\ Cardinality(InPush(Filling)') = Cardinality(InPush(Filling))
      /\ Cardinality(InPop(PushPlaces)') = Cardinality(InPop(PushPlaces))
      /\ Cardinality(InPop(Emptying)') = Cardinality(InPop(Emptying))
  <2>1. /\ "idle" \notin PushPlaces /\ "P" \notin PushPlaces
        /\ "idle" \notin Filling /\ "P" \notin Filling
    BY DEF PushPlaces, Filling
  <2>2. /\ Cardinality(InPush(PushPlaces)') = Cardinality(InPush(PushPlaces))
        /\ Cardinality(InPush(Filling)') = Cardinality(InPush(Filling))
    BY <1>0, <2>1, PushMove
  <2>3. InPop(PushPlaces)' = InPop(PushPlaces) /\ InPop(Emptying)' = InPop(Emptying)
    BY <1>0, PushMove
  <2> QED
    BY <2>2, <2>3
<1>2. TypeOK'
  BY Counts DEF PushCall, At, TypeOK, PermitsConserved, PushPlaces, Threads, Slots
<1>3. MutexInv' /\ PosInv'
  BY DEF PushCall, At, TypeOK, MutexInv, PosInv, Critical, Threads, Slots
<1>4. PermitsConserved'
  BY <1>1, Counts DEF PushCall, TypeOK, PermitsConserved
<1>5. Unread' = Unread
  BY <1>1, Counts DEF PushCall, TypeOK, Unread, Filling, Emptying
<1>6. Front' = Front
  BY DEF PushCall, At, Front, TypeOK, Threads
<1>7. Back' = Back
  BY DEF PushCall, At, Back, TypeOK, MutexInv, PosInv, Critical, Threads, Slots
<1>8. NoLapping'
  BY <1>5, <1>6, <1>7 DEF NoLapping
<1> QED
  BY <1>2, <1>3, <1>4, <1>5, <1>6, <1>7, <1>8 DEF Still

LEMMA PushPInv ==
    ASSUME IInv, NEW p \in Producers, PushP(p)
    PROVE  IInv' /\ Still
<1> USE RingQueueAssumption DEF IInv
<1>0. TypeOK /\ pc[p] = "P" /\ pc' = [pc EXCEPT ![p] = "lock"]
  BY DEF PushP, At
<1>1. /\ Cardinality(InPush(PushPlaces)') = Cardinality(InPush(PushPlaces)) + 1
      /\ Cardinality(InPush(Filling)') = Cardinality(InPush(Filling))
      /\ Cardinality(InPop(PushPlaces)') = Cardinality(InPop(PushPlaces))
      /\ Cardinality(InPop(Emptying)') = Cardinality(InPop(Emptying))
  <2>1. /\ "P" \notin PushPlaces /\ "lock" \in PushPlaces
        /\ "P" \notin Filling /\ "lock" \notin Filling
    BY DEF PushPlaces, Filling
  <2>2. /\ Cardinality(InPush(PushPlaces)') = Cardinality(InPush(PushPlaces)) + 1
        /\ Cardinality(InPush(Filling)') = Cardinality(InPush(Filling))
    BY <1>0, <2>1, PushMove
  <2>3. InPop(PushPlaces)' = InPop(PushPlaces) /\ InPop(Emptying)' = InPop(Emptying)
    BY <1>0, PushMove
  <2> QED
    BY <2>2, <2>3
<1>2. TypeOK'
  BY Counts, SMTT(40) DEF PushP, At, TypeOK, PermitsConserved, PushPlaces, Threads, Slots
<1>3. MutexInv' /\ PosInv'
  BY DEF PushP, At, TypeOK, MutexInv, PosInv, Critical, Threads, Slots
<1>4. PermitsConserved'
  BY <1>1, Counts DEF PushP, TypeOK, PermitsConserved
<1>5. Unread' = Unread
  BY <1>1, Counts DEF PushP, TypeOK, Unread, Filling, Emptying
<1>6. Front' = Front
  BY DEF PushP, At, Front, TypeOK, Threads
<1>7. Back' = Back
  BY DEF PushP, At, Back, TypeOK, MutexInv, PosInv, Critical, Threads, Slots
<1>8. NoLapping'
  BY <1>5, <1>6, <1>7 DEF NoLapping
<1> QED
  BY <1>2, <1>3, <1>4, <1>5, <1>6, <1>7, <1>8 DEF Still

LEMMA PushLockInv ==
    ASSUME IInv, NEW p \in Producers, PushLock(p)
    PROVE  IInv' /\ Still
<1> USE RingQueueAssumption DEF IInv
<1>0. TypeOK /\ pc[p] = "lock" /\ pc' = [pc EXCEPT ![p] = "index"]
  BY DEF PushLock, At
<1>1. /\ Cardinality(InPush(PushPlaces)') = Cardinality(InPush(PushPlaces))
      /\ Cardinality(InPush(Filling)') = Cardinality(InPush(Filling))
      /\ Cardinality(InPop(PushPlaces)') = Cardinality(InPop(PushPlaces))
      /\ Cardinality(InPop(Emptying)') = Cardinality(InPop(Emptying))
  <2>1. /\ "lock" \in PushPlaces /\ "index" \in PushPlaces
        /\ "lock" \notin Filling /\ "index" \notin Filling
    BY DEF PushPlaces, Filling
  <2>2. /\ Cardinality(InPush(PushPlaces)') = Cardinality(InPush(PushPlaces))
        /\ Cardinality(InPush(Filling)') = Cardinality(InPush(Filling))
    BY <1>0, <2>1, PushMove
  <2>3. InPop(PushPlaces)' = InPop(PushPlaces) /\ InPop(Emptying)' = InPop(Emptying)
    BY <1>0, PushMove
  <2> QED
    BY <2>2, <2>3
<1>2. TypeOK'
  BY Counts DEF PushLock, At, TypeOK, PermitsConserved, PushPlaces, Threads, Slots
<1>3. MutexInv' /\ PosInv'
  BY DEF PushLock, At, TypeOK, MutexInv, PosInv, Critical, Threads, Slots
<1>4. PermitsConserved'
  BY <1>1, Counts DEF PushLock, TypeOK, PermitsConserved
<1>5. Unread' = Unread
  BY <1>1, Counts DEF PushLock, TypeOK, Unread, Filling, Emptying
<1>6. Front' = Front
  BY DEF PushLock, At, Front, TypeOK, Threads
<1>7. Back' = Back
  BY DEF PushLock, At, Back, TypeOK, MutexInv, PosInv, Critical, Threads, Slots
<1>8. NoLapping'
  BY <1>5, <1>6, <1>7 DEF NoLapping
<1> QED
  BY <1>2, <1>3, <1>4, <1>5, <1>6, <1>7, <1>8 DEF Still

LEMMA PushIndexInv ==
    ASSUME IInv, NEW p \in Producers, PushIndex(p)
    PROVE  IInv' /\ Still
<1> USE RingQueueAssumption DEF IInv
<1>0. TypeOK /\ pc[p] = "index" /\ pc' = [pc EXCEPT ![p] = "copy"]
  BY DEF PushIndex, At
<1>1. /\ Cardinality(InPush(PushPlaces)') = Cardinality(InPush(PushPlaces))
      /\ Cardinality(InPush(Filling)') = Cardinality(InPush(Filling))
      /\ Cardinality(InPop(PushPlaces)') = Cardinality(InPop(PushPlaces))
      /\ Cardinality(InPop(Emptying)') = Cardinality(InPop(Emptying))
  <2>1. /\ "index" \in PushPlaces /\ "copy" \in PushPlaces
        /\ "index" \notin Filling /\ "copy" \notin Filling
    BY DEF PushPlaces, Filling
  <2>2. /\ Cardinality(InPush(PushPlaces)') = Cardinality(InPush(PushPlaces))
        /\ Cardinality(InPush(Filling)') = Cardinality(InPush(Filling))
    BY <1>0, <2>1, PushMove
  <2>3. InPop(PushPlaces)' = InPop(PushPlaces) /\ InPop(Emptying)' = InPop(Emptying)
    BY <1>0, PushMove
  <2> QED
    BY <2>2, <2>3
<1>2. TypeOK'
  <2>1. slot[p]' \in Slots /\ p_pos' \in 0 .. Capacity
    BY DEF PushIndex, At, TypeOK, PosInv, MutexInv, Critical, Threads, Slots
  <2> QED
    BY <1>0, <2>1 DEF PushIndex, TypeOK, PushPlaces, Threads, Slots
<1>3. MutexInv' /\ PosInv'
  BY DEF PushIndex, At, TypeOK, MutexInv, PosInv, Critical, Threads, Slots
<1>4. PermitsConserved'
  BY <1>1, Counts DEF PushIndex, TypeOK, PermitsConserved
<1>5. Unread' = Unread
  BY <1>1, Counts DEF PushIndex, TypeOK, Unread, Filling, Emptying
<1>6. Front' = Front
  BY DEF PushIndex, At, Front, TypeOK, Threads
<1>7. Back' = Back
  BY WrapValue DEF PushIndex, At, Back, TypeOK, MutexInv, PosInv, Critical, Threads, Slots
<1>8. NoLapping'
  BY <1>5, <1>6, <1>7 DEF NoLapping
<1> QED
  BY <1>2, <1>3, <1>4, <1>5, <1>6, <1>7, <1>8 DEF Still

LEMMA PushCopyInv ==
    ASSUME IInv, NEW p \in Producers, PushCopy(p)
    PROVE  IInv' /\ Unread' = Unread + 1 /\ Front' = Front
<1> USE RingQueueAssumption DEF IInv
<1>0. TypeOK /\ pc[p] = "copy" /\ pc' = [pc EXCEPT ![p] = "wrap"]
  BY DEF PushCopy, At
<1>1. /\ Cardinality(InPush(PushPlaces)') = Cardinality(InPush(PushPlaces))
      /\ Cardinality(InPush(Filling)') = Cardinality(InPush(Filling)) + 1
      /\ Cardinality(InPop(PushPlaces)') = Cardinality(InPop(PushPlaces))
      /\ Cardinality(InPop(Emptying)') = Cardinality(InPop(Emptying))
  <2>1. /\ "copy" \in PushPlaces /\ "wrap" \in PushPlaces
        /\ "copy" \notin Filling /\ "wrap" \in Filling
    BY DEF PushPlaces, Filling
  <2>2. /\ Cardinality(InPush(PushPlaces)') = Cardinality(InPush(PushPlaces))
        /\ Cardinality(InPush(Filling)') = Cardinality(InPush(Filling)) + 1
    BY <1>0, <2>1, PushMove
  <2>3. InPop(PushPlaces)' = InPop(PushPlaces) /\ InPop(Emptying)' = InPop(Emptying)
    BY <1>0, PushMove
  <2> QED
    BY <2>2, <2>3
<1>2. TypeOK'
  BY Counts DEF PushCopy, At, TypeOK, PermitsConserved, PushPlaces, Threads, Slots
<1>3. MutexInv' /\ PosInv'
  BY DEF PushCopy, At, TypeOK, MutexInv, PosInv, Critical, Threads, Slots
<1>4. PermitsConserved'
  BY <1>1, Counts DEF PushCopy, TypeOK, PermitsConserved
<1>5. Unread' = Unread + 1
  BY <1>1, Counts DEF PushCopy, TypeOK, Unread, Filling, Emptying
<1>6. Front' = Front
  BY DEF PushCopy, At, Front, TypeOK, Threads
<1>7. /\ Back = slot[p] /\ slot[p] + 1 = p_pos
      /\ Back' = IF p_pos = Capacity THEN 0 ELSE p_pos
  BY WrapValue DEF PushCopy, At, Back, TypeOK, MutexInv, PosInv, Critical, Threads
<1>8. Unread + 1 <= Capacity
  BY Counts DEF PushCopy, At, TypeOK, PermitsConserved, Unread, Filling, Emptying, PushPlaces
<1>9. Front \in Slots /\ Back \in Slots
  BY WrapValue DEF Front, Back, TypeOK, Slots, Threads
<1>10. NoLapping'
  <2>1. CASE p_pos = Capacity
    BY <1>5, <1>6, <1>7, <1>8, <1>9, <2>1 DEF NoLapping, Slots
  <2>2. CASE p_pos # Capacity
    BY <1>5, <1>6, <1>7, <1>8, <1>9, <2>2 DEF NoLapping, Slots
  <2> QED
    BY <2>1, <2>2
<1> QED
  BY <1>2, <1>3, <1>4, <1>5, <1>6, <1>10

LEMMA PushWrapInv ==
    ASSUME IInv, NEW p \in Producers, PushWrap(p)
    PROVE  IInv' /\ Still
<1> USE RingQueueAssumption DEF IInv
<1>0. TypeOK /\ pc[p] = "wrap" /\ pc' = [pc EXCEPT ![p] = "unlock"]
  BY DEF PushWrap, At
<1>1. /\ Cardinality(InPush(PushPlaces)') = Cardinality(InPush(PushPlaces))
      /\ Cardinality(InPush(Filling)') = Cardinality(InPush(Filling))
      /\ Cardinality(InPop(PushPlaces)') = Cardinality(InPop(PushPlaces))
      /\ Cardinality(InPop(Emptying)') = Cardinality(InPop(Emptying))
  <2>1. /\ "wrap" \in PushPlaces /\ "unlock" \in PushPlaces
        /\ "wrap" \in Filling /\ "unlock" \in Filling
    BY DEF PushPlaces, Filling
  <2>2. /\ Cardinality(InPush(PushPlaces)') = Cardinality(InPush(PushPlaces))
        /\ Cardinality(InPush(Filling)') = Cardinality(InPush(Filling))
    BY <1>0, <2>1, PushMove
  <2>3. InPop(PushPlaces)' = InPop(PushPlaces) /\ InPop(Emptying)' = InPop(Emptying)
    BY <1>0, PushMove
  <2> QED
    BY <2>2, <2>3
<1>2. TypeOK'
  <2>1. p_pos' \in 0 .. Capacity
    BY WrapValue DEF PushWrap, At, TypeOK, PosInv, MutexInv, Critical, Threads, Slots
  <2> QED
    BY <1>0, <2>1 DEF PushWrap, TypeOK, PushPlaces, Threads, Slots
<1>3. MutexInv' /\ PosInv'
  BY WrapValue DEF PushWrap, At, TypeOK, MutexInv, PosInv, Critical, Threads, Slots
<1>4. PermitsConserved'
  BY <1>1, Counts DEF PushWrap, TypeOK, PermitsConserved
<1>5. Unread' = Unread
  BY <1>1, Counts DEF PushWrap, TypeOK, Unread, Filling, Emptying
<1>6. Front' = Front
  BY DEF PushWrap, At, Front, TypeOK, Threads
<1>7. Back' = Back
  <2>1. (p_pos % Capacity) % Capacity = p_pos % Capacity
    BY WrapValue DEF TypeOK
  <2> QED
    BY <1>0, <2>1 DEF PushWrap, Back, TypeOK, MutexInv, Critical, Threads
<1>8. NoLapping'
  BY <1>5, <1>6, <1>7 DEF NoLapping
<1> QED
  BY <1>2, <1>3, <1>4, <1>5, <1>6, <1>7, <1>8 DEF Still

LEMMA PushUnlockInv ==
    ASSUME IInv, NEW p \in Producers, PushUnlock(p)
    PROVE  IInv' /\ Still
<1> USE RingQueueAssumption DEF IInv
<1>0. TypeOK /\ pc[p] = "unlock" /\ pc' = [pc EXCEPT ![p] = "V"]
  BY DEF PushUnlock, At
<1>1. /\ Cardinality(InPush(PushPlaces)') = Cardinality(InPush(PushPlaces))
      /\ Cardinality(InPush(Filling)') = Cardinality(InPush(Filling))
      /\ Cardinality(InPop(PushPlaces)') = Cardinality(InPop(PushPlaces))
      /\ Cardinality(InPop(Emptying)') = Cardinality(InPop(Emptying))
  <2>1. /\ "unlock" \in PushPlaces /\ "V" \in PushPlaces
        /\ "unlock" \in Filling /\ "V" \in Filling
    BY DEF PushPlaces, Filling
  <2>2. /\ Cardinality(InPush(PushPlaces)') = Cardinality(InPush(PushPlaces))
        /\ Cardinality(InPush(Filling)') = Cardinality(InPush(Filling))
    BY <1>0, <2>1, PushMove
  <2>3. InPop(PushPlaces)' = InPop(PushPlaces) /\ InPop(Emptying)' = InPop(Emptying)
    BY <1>0, PushMove
  <2> QED
    BY <2>2, <2>3
<1>2. TypeOK'
  BY Counts DEF PushUnlock, At, TypeOK, PermitsConserved, PushPlaces, Threads, Slots
<1>3. MutexInv' /\ PosInv'
  BY DEF PushUnlock, At, TypeOK, MutexInv, PosInv, Critical, Threads, Slots
<1>4. PermitsConserved'
  BY <1>1, Counts DEF PushUnlock, TypeOK, PermitsConserved
<1>5. Unread' = Unread
  BY <1>1, Counts DEF PushUnlock, TypeOK, Unread, Filling, Emptying
<1>6. Front' = Front
  BY DEF PushUnlock, At, Front, TypeOK, Threads
<1>7. Back' = Back
  BY DEF PushUnlock, At, Back, TypeOK, MutexInv, PosInv, Critical, Threads, Slots
<1>8. NoLapping'
  BY <1>5, <1>6, <1>7 DEF NoLapping
<1> QED
  BY <1>2, <1>3, <1>4, <1>5, <1>6, <1>7, <1>8 DEF Still

LEMMA PushVInv ==
    ASSUME IInv, NEW p \in Producers, PushV(p)
    PROVE  IInv' /\ Still
<1> USE RingQueueAssumption DEF IInv
<1>0. TypeOK /\ pc[p] = "V" /\ pc' = [pc EXCEPT ![p] = "idle"]
  BY DEF PushV, At
<1>1. /\ Cardinality(InPush(PushPlaces)') = Cardinality(InPush(PushPlaces)) - 1
      /\ Cardinality(InPush(Filling)') = Cardinality(InPush(Filling)) - 1
      /\ Cardinality(InPop(PushPlaces)') = Cardinality(InPop(PushPlaces))
      /\ Cardinality(InPop(Emptying)') = Cardinality(InPop(Emptying))
  <2>1. /\ "V" \in PushPlaces /\ "idle" \notin PushPlaces
        /\ "V" \in Filling /\ "idle" \notin Filling
    BY DEF PushPlaces, Filling
  <2>2. /\ Cardinality(InPush(PushPlaces)') = Cardinality(InPush(PushPlaces)) - 1
        /\ Cardinality(InPush(Filling)') = Cardinality(InPush(Filling)) - 1
    BY <1>0, <2>1, PushMove
  <2>3. InPop(PushPlaces)' = InPop(PushPlaces) /\ InPop(Emptying)' = InPop(Emptying)
    BY <1>0, PushMove
  <2> QED
    BY <2>2, <2>3
<1>2. TypeOK'
  <2>1. data_sem + 1 \in 0 .. Capacity
    BY <1>0, Counts DEF TypeOK, PermitsConserved, PushPlaces
  <2> QED
    BY <2>1 DEF PushV, At, TypeOK, PushPlaces, Threads
<1>3. MutexInv' /\ PosInv'
  BY DEF PushV, At, TypeOK, MutexInv, PosInv, Critical, Threads, Slots
<1>4. PermitsConserved'
  BY <1>1, Counts DEF PushV, TypeOK, PermitsConserved
<1>5. Unread' = Unread
  BY <1>1, Counts DEF PushV, TypeOK, Unread, Filling, Emptying
<1>6. Front' = Front
  BY DEF PushV, At, Front, TypeOK, Threads
<1>7. Back' = Back
  BY DEF PushV, At, Back, TypeOK, MutexInv, PosInv, Critical, Threads, Slots
<1>8. NoLapping'
  BY <1>5, <1>6, <1>7 DEF NoLapping
<1> QED
  BY <1>2, <1>3, <1>4, <1>5, <1>6, <1>7, <1>8 DEF Still

LEMMA PopCallInv ==
    ASSUME IInv, NEW c \in Consumers, PopCall(c)
    PROVE  IInv' /\ Still
<1> USE RingQueueAssumption DEF IInv
<1>0. TypeOK /\ pc[c] = "idle" /\ pc' = [pc EXCEPT ![c] = "P"]
  BY DEF PopCall, At
<1>1. /\ Cardinality(InPop(PushPlaces)') = Cardinality(InPop(PushPlaces))
      /\ Cardinality(InPop(Emptying)') = Cardinality(InPop(Emptying))
      /\ Cardinality(InPush(PushPlaces)') = Cardinality(InPush(PushPlaces))
      /\ Cardinality(InPush(Filling)') = Cardinality(InPush(Filling))
  <2>1. /\ "idle" \notin PushPlaces /\ "P" \notin PushPlaces
        /\ "idle" \notin Emptying /\ "P" \notin Emptying
    BY DEF PushPlaces, Emptying
  <2>2. /\ Cardinality(InPop(PushPlaces)') = Cardinality(InPop(PushPlaces))
        /\ Cardinality(InPop(Emptying)') = Cardinality(InPop(Emptying))
    BY <1>0, <2>1, PopMove
  <2>3. InPush(PushPlaces)' = InPush(PushPlaces) /\ InPush(Filling)' = InPush(Filling)
    BY <1>0, PopMove
  <2> QED
    BY <2>2, <2>3
<1>2. TypeOK'
  BY Counts DEF PopCall, At, TypeOK, PermitsConserved, PushPlaces, Threads, Slots
<1>3. MutexInv' /\ PosInv'
  BY DEF PopCall, At, TypeOK, MutexInv, PosInv, Critical, Threads, Slots
<1>4. PermitsConserved'
  BY <1>1, Counts DEF PopCall, TypeOK, PermitsConserved
<1>5. Unread' = Unread
  BY <1>1, Counts DEF PopCall, TypeOK, Unread, Filling, Emptying
<1>6. Back' = Back
  BY DEF PopCall, At, Back, TypeOK, Threads
<1>7. Front' = Front
  BY DEF PopCall, At, Front, TypeOK, MutexInv, PosInv, Critical, Threads, Slots
<1>8. NoLapping'
  BY <1>5, <1>6, <1>7 DEF NoLapping
<1> QED
  BY <1>2, <1>3, <1>4, <1>5, <1>6, <1>7, <1>8 DEF Still

LEMMA PopPInv ==
    ASSUME IInv, NEW c \in Consumers, PopP(c)
    PROVE  IInv' /\ Still
<1> USE RingQueueAssumption DEF IInv
<1>0. TypeOK /\ pc[c] = "P" /\ pc' = [pc EXCEPT ![c] = "lock"]
  BY DEF PopP, At
<1>1. /\ Cardinality(InPop(PushPlaces)') = Cardinality(InPop(PushPlaces)) + 1
      /\ Cardinality(InPop(Emptying)') = Cardinality(InPop(Emptying)) + 1
      /\ Cardinality(InPush(PushPlaces)') = Cardinality(InPush(PushPlaces))
      /\ Cardinality(InPush(Filling)') = Cardinality(InPush(Filling))
  <2>1. /\ "P" \notin PushPlaces /\ "lock" \in PushPlaces
        /\ "P" \notin Emptying /\ "lock" \in Emptying
    BY DEF PushPlaces, Emptying
  <2>2. /\ Cardinality(InPop(PushPlaces)') = Cardinality(InPop(PushPlaces)) + 1
        /\ Cardinality(InPop(Emptying)') = Cardinality(InPop(Emptying)) + 1
    BY <1>0, <2>1, PopMove
  <2>3. InPush(PushPlaces)' = InPush(PushPlaces) /\ InPush(Filling)' = InPush(Filling)
    BY <1>0, PopMove
  <2> QED
    BY <2>2, <2>3
<1>2. TypeOK'
  BY Counts, SMTT(40) DEF PopP, At, TypeOK, PermitsConserved, PushPlaces, Threads, Slots
<1>3. MutexInv' /\ PosInv'
  BY DEF PopP, At, TypeOK, MutexInv, PosInv, Critical, Threads, Slots
<1>4. PermitsConserved'
  BY <1>1, Counts DEF PopP, TypeOK, PermitsConserved
<1>5. Unread' = Unread
  BY <1>1, Counts DEF PopP, TypeOK, Unread, Filling, Emptying
<1>6. Back' = Back
  BY DEF PopP, At, Back, TypeOK, Threads
<1>7. Front' = Front
  BY DEF PopP, At, Front, TypeOK, MutexInv, PosInv, Critical, Threads, Slots
<1>8. NoLapping'
  BY <1>5, <1>6, <1>7 DEF NoLapping
<1> QED
  BY <1>2, <1>3, <1>4, <1>5, <1>6, <1>7, <1>8 DEF Still

LEMMA PopLockInv ==
    ASSUME IInv, NEW c \in Consumers, PopLock(c)
    PROVE  IInv' /\ Still
<1> USE RingQueueAssumption DEF IInv
<1>0. TypeOK /\ pc[c] = "lock" /\ pc' = [pc EXCEPT ![c] = "index"]
  BY DEF PopLock, At
<1>1. /\ Cardinality(InPop(PushPlaces)') = Cardinality(InPop(PushPlaces))
      /\ Cardinality(InPop(Emptying)') = Cardinality(InPop(Emptying))
      /\ Cardinality(InPush(PushPlaces)') = Cardinality(InPush(PushPlaces))
      /\ Cardinality(InPush(Filling)') = Cardinality(InPush(Filling))
  <2>1. /\ "lock" \in PushPlaces /\ "index" \in PushPlaces
        /\ "lock" \in Emptying /\ "index" \in Emptying
    BY DEF PushPlaces, Emptying
  <2>2. /\ Cardinality(InPop(PushPlaces)') = Cardinality(InPop(PushPlaces))
        /\ Cardinality(InPop(Emptying)') = Cardinality(InPop(Emptying))
    BY <1>0, <2>1, PopMove
  <2>3. InPush(PushPlaces)' = InPush(PushPlaces) /\ InPush(Filling)' = InPush(Filling)
    BY <1>0, PopMove
  <2> QED
    BY <2>2, <2>3
<1>2. TypeOK'
  BY Counts DEF PopLock, At, TypeOK, PermitsConserved, PushPlaces, Threads, Slots
<1>3. MutexInv' /\ PosInv'
  BY DEF PopLock, At, TypeOK, MutexInv, PosInv, Critical, Threads, Slots
<1>4. PermitsConserved'
  BY <1>1, Counts DEF PopLock, TypeOK, PermitsConserved
<1>5. Unread' = Unread
  BY <1>1, Counts DEF PopLock, TypeOK, Unread, Filling, Emptying
<1>6. Back' = Back
  BY DEF PopLock, At, Back, TypeOK, Threads
<1>7. Front' = Front
  BY DEF PopLock, At, Front, TypeOK, MutexInv, PosInv, Critical, Threads, Slots
<1>8. NoLapping'
  BY <1>5, <1>6, <1>7 DEF NoLapping
<1> QED
  BY <1>2, <1>3, <1>4, <1>5, <1>6, <1>7, <1>8 DEF Still

LEMMA PopIndexInv ==
    ASSUME IInv, NEW c \in Consumers, PopIndex(c)
    PROVE  IInv' /\ Still
<1> USE RingQueueAssumption DEF IInv
<1>0. TypeOK /\ pc[c] = "index" /\ pc' = [pc EXCEPT ![c] = "copy"]
  BY DEF PopIndex, At
<1>1. /\ Cardinality(InPop(PushPlaces)') = Cardinality(InPop(PushPlaces))
      /\ Cardinality(InPop(Emptying)') = Cardinality(InPop(Emptying))
      /\ Cardinality(InPush(PushPlaces)') = Cardinality(InPush(PushPlaces))
      /\ Cardinality(InPush(Filling)') = Cardinality(InPush(Filling))
  <2>1. /\ "index" \in PushPlaces /\ "copy" \in PushPlaces
        /\ "index" \in Emptying /\ "copy" \in Emptying
    BY DEF PushPlaces, Emptying
  <2>2. /\ Cardinality(InPop(PushPlaces)') = Cardinality(InPop(PushPlaces))
        /\ Cardinality(InPop(Emptying)') = Cardinality(InPop(Emptying))
    BY <1>0, <2>1, PopMove
  <2>3. InPush(PushPlaces)' = InPush(PushPlaces) /\ InPush(Filling)' = InPush(Filling)
    BY <1>0, PopMove
  <2> QED
    BY <2>2, <2>3
<1>2. TypeOK'
  <2>1. slot[c]' \in Slots /\ c_pos' \in 0 .. Capacity
    BY DEF PopIndex, At, TypeOK, PosInv, MutexInv, Critical, Threads, Slots
  <2> QED
    BY <1>0, <2>1 DEF PopIndex, TypeOK, PushPlaces, Threads, Slots
<1>3. MutexInv' /\ PosInv'
  BY DEF PopIndex, At, TypeOK, MutexInv, PosInv, Critical, Threads, Slots
<1>4. PermitsConserved'
  BY <1>1, Counts DEF PopIndex, TypeOK, PermitsConserved
<1>5. Unread' = Unread
  BY <1>1, Counts DEF PopIndex, TypeOK, Unread, Filling, Emptying
<1>6. Back' = Back
  BY DEF PopIndex, At, Back, TypeOK, Threads
<1>7. Front' = Front
  BY WrapValue DEF PopIndex, At, Front, TypeOK, MutexInv, PosInv, Critical, Threads, Slots
<1>8. NoLapping'
  BY <1>5, <1>6, <1>7 DEF NoLapping
<1> QED
  BY <1>2, <1>3, <1>4, <1>5, <1>6, <1>7, <1>8 DEF Still

LEMMA PopCopyInv ==
    ASSUME IInv, NEW c \in Consumers, PopCopy(c)
    PROVE  /\ IInv' /\ Unread >= 1 /\ Unread' = Unread - 1
           /\ Front = slot[c] /\ Front' = IF slot[c] + 1 = Capacity THEN 0 ELSE slot[c] + 1
<1> USE RingQueueAssumption DEF IInv
<1>0. TypeOK /\ pc[c] = "copy" /\ pc' = [pc EXCEPT ![c] = "wrap"]
  BY DEF PopCopy, At
<1>1. /\ Cardinality(InPop(PushPlaces)') = Cardinality(InPop(PushPlaces))
      /\ Cardinality(InPop(Emptying)') = Cardinality(InPop(Emptying)) - 1
      /\ Cardinality(InPush(PushPlaces)') = Cardinality(InPush(PushPlaces))
      /\ Cardinality(InPush(Filling)') = Cardinality(InPush(Filling))
  <2>1. /\ "copy" \in PushPlaces /\ "wrap" \in PushPlaces
        /\ "copy" \in Emptying /\ "wrap" \notin Emptying
    BY DEF PushPlaces, Emptying
  <2>2. /\ Cardinality(InPop(PushPlaces)') = Cardinality(InPop(PushPlaces))
        /\ Cardinality(InPop(Emptying)') = Cardinality(InPop(Emptying)) - 1
    BY <1>0, <2>1, PopMove
  <2>3. InPush(PushPlaces)' = InPush(PushPlaces) /\ InPush(Filling)' = InPush(Filling)
    BY <1>0, PopMove
  <2> QED
    BY <2>2, <2>3
<1>2. TypeOK'
  BY Counts DEF PopCopy, At, TypeOK, PermitsConserved, PushPlaces, Threads, Slots
<1>3. MutexInv' /\ PosInv'
  BY DEF PopCopy, At, TypeOK, MutexInv, PosInv, Critical, Threads, Slots
<1>4. PermitsConserved'
  BY <1>1, Counts DEF PopCopy, TypeOK, PermitsConserved
<1>5. Unread' = Unread - 1
  BY <1>1, Counts DEF PopCopy, TypeOK, Unread, Filling, Emptying
<1>6. Back' = Back
  BY DEF PopCopy, At, Back, TypeOK, Threads
<1>7. /\ Front = slot[c] /\ slot[c] + 1 = c_pos
      /\ Front' = IF c_pos = Capacity THEN 0 ELSE c_pos
  BY WrapValue DEF PopCopy, At, Front, TypeOK, MutexInv, PosInv, Critical, Threads
<1>8. Unread >= 1
  BY Counts DEF PopCopy, At, TypeOK, Unread, Filling, Emptying
<1>9. Front \in Slots /\ Back \in Slots
  BY WrapValue DEF Front, Back, TypeOK, Slots, Threads
<1>10. NoLapping'
  <2>1. CASE c_pos = Capacity
    BY <1>5, <1>6, <1>7, <1>8, <1>9, <2>1 DEF NoLapping, Slots
  <2>2. CASE c_pos # Capacity
    BY <1>5, <1>6, <1>7, <1>8, <1>9, <2>2 DEF NoLapping, Slots
  <2> QED
    BY <2>1, <2>2
<1> QED
  BY <1>2, <1>3, <1>4, <1>5, <1>7, <1>8, <1>10

LEMMA PopWrapInv ==
    ASSUME IInv, NEW c \in Consumers, PopWrap(c)
    PROVE  IInv' /\ Still
<1> USE RingQueueAssumption DEF IInv
<1>0. TypeOK /\ pc[c] = "wrap" /\ pc' = [pc EXCEPT ![c] = "unlock"]
  BY DEF PopWrap, At
<1>1. /\ Cardinality(InPop(PushPlaces)') = Cardinality(InPop(PushPlaces))
      /\ Cardinality(InPop(Emptying)') = Cardinality(InPop(Emptying))
      /\ Cardinality(InPush(PushPlaces)') = Cardinality(InPush(PushPlaces))
      /\ Cardinality(InPush(Filling)') = Cardinality(InPush(Filling))
  <2>1. /\ "wrap" \in PushPlaces /\ "unlock" \in PushPlaces
        /\ "wrap" \notin Emptying /\ "unlock" \notin Emptying
    BY DEF PushPlaces, Emptying
  <2>2. /\ Cardinality(InPop(PushPlaces)') = Cardinality(InPop(PushPlaces))
        /\ Cardinality(InPop(Emptying)') = Cardinality(InPop(Emptying))
    BY <1>0, <2>1, PopMove
  <2>3. InPush(PushPlaces)' = InPush(PushPlaces) /\ InPush(Filling)' = InPush(Filling)
    BY <1>0, PopMove
  <2> QED
    BY <2>2, <2>3
<1>2. TypeOK'
  <2>1. c_pos' \in 0 .. Capacity
    BY WrapValue DEF PopWrap, At, TypeOK, PosInv, MutexInv, Critical, Threads, Slots
  <2> QED
    BY <1>0, <2>1 DEF PopWrap, TypeOK, PushPlaces, Threads, Slots
<1>3. MutexInv' /\ PosInv'
  BY WrapValue DEF PopWrap, At, TypeOK, MutexInv, PosInv, Critical, Threads, Slots
<1>4. PermitsConserved'
  BY <1>1, Counts DEF PopWrap, TypeOK, PermitsConserved
<1>5. Unread' = Unread
  BY <1>1, Counts DEF PopWrap, TypeOK, Unread, Filling, Emptying
<1>6. Back' = Back
  BY DEF PopWrap, At, Back, TypeOK, Threads
<1>7. Front' = Front
  <2>1. (c_pos % Capacity) % Capacity = c_pos % Capacity
    BY WrapValue DEF TypeOK
  <2> QED
    BY <1>0, <2>1 DEF PopWrap, Front, TypeOK, MutexInv, Critical, Threads
<1>8. NoLapping'
  BY <1>5, <1>6, <1>7 DEF NoLapping
<1> QED
  BY <1>2, <1>3, <1>4, <1>5, <1>6, <1>7, <1>8 DEF Still

LEMMA PopUnlockInv ==
    ASSUME IInv, NEW c \in Consumers, PopUnlock(c)
    PROVE  IInv' /\ Still
<1> USE RingQueueAssumption DEF IInv
<1>0. TypeOK /\ pc[c] = "unlock" /\ pc' = [pc EXCEPT ![c] = "V"]
  BY DEF PopUnlock, At
<1>1. /\ Cardinality(InPop(PushPlaces)') = Cardinality(InPop(PushPlaces))
      /\ Cardinality(InPop(Emptying)') = Cardinality(InPop(Emptying))
      /\ Cardinality(InPush(PushPlaces)') = Cardinality(InPush(PushPlaces))
      /\ Cardinality(InPush(Filling)') = Cardinality(InPush(Filling))
  <2>1. /\ "unlock" \in PushPlaces /\ "V" \in PushPlaces
        /\ "unlock" \notin Emptying /\ "V" \notin Emptying
    BY DEF PushPlaces, Emptying
  <2>2. /\ Cardinality(InPop(PushPlaces)') = Cardinality(InPop(PushPlaces))
        /\ Cardinality(InPop(Emptying)') = Cardinality(InPop(Emptying))
    BY <1>0, <2>1, PopMove
  <2>3. InPush(PushPlaces)' = InPush(PushPlaces) /\ InPush(Filling)' = InPush(Filling)
    BY <1>0, PopMove
  <2> QED
    BY <2>2, <2>3
<1>2. TypeOK'
  BY Counts DEF PopUnlock, At, TypeOK, PermitsConserved, PushPlaces, Threads, Slots
<1>3. MutexInv' /\ PosInv'
  BY DEF PopUnlock, At, TypeOK, MutexInv, PosInv, Critical, Threads, Slots
<1>4. PermitsConserved'
  BY <1>1, Counts DEF PopUnlock, TypeOK, PermitsConserved
<1>5. Unread' = Unread
  BY <1>1, Counts DEF PopUnlock, TypeOK, Unread, Filling, Emptying
<1>6. Back' = Back
  BY DEF PopUnlock, At, Back, TypeOK, Threads
<1>7. Front' = Front
  BY DEF PopUnlock, At, Front, TypeOK, MutexInv, PosInv, Critical, Threads, Slots
<1>8. NoLapping'
  BY <1>5, <1>6, <1>7 DEF NoLapping
<1> QED
  BY <1>2, <1>3, <1>4, <1>5, <1>6, <1>7, <1>8 DEF Still

LEMMA PopVInv ==
    ASSUME IInv, NEW c \in Consumers, PopV(c)
    PROVE  IInv' /\ Still
<1> USE RingQueueAssumption DEF IInv
<1>0. TypeOK /\ pc[c] = "V" /\ pc' = [pc EXCEPT ![c] = "idle"]
  BY DEF PopV, At
<1>1. /\ Cardinality(InPop(PushPlaces)') = Cardinality(InPop(PushPlaces)) - 1
      /\ Cardinality(InPop(Emptying)') = Cardinality(InPop(Emptying))
      /\ Cardinality(InPush(PushPlaces)') = Cardinality(InPush(PushPlaces))
      /\ Cardinality(InPush(Filling)') = Cardinality(InPush(Filling))
  <2>1. /\ "V" \in PushPlaces /\ "idle" \notin PushPlaces
        /\ "V" \notin Emptying /\ "idle" \notin Emptying
    BY DEF PushPlaces, Emptying
  <2>2. /\ Cardinality(InPop(PushPlaces)') = Cardinality(InPop(PushPlaces)) - 1
        /\ Cardinality(InPop(Emptying)') = Cardinality(InPop(Emptying))
    BY <1>0, <2>1, PopMove
  <2>3. InPush(PushPlaces)' = InPush(PushPlaces) /\ InPush(Filling)' = InPush(Filling)
    BY <1>0, PopMove
  <2> QED
    BY <2>2, <2>3
<1>2. TypeOK'
  <2>1. space_sem + 1 \in 0 .. Capacity
    BY <1>0, Counts DEF TypeOK, PermitsConserved, PushPlaces
  <2> QED
    BY <2>1 DEF PopV, At, TypeOK, PushPlaces, Threads
<1>3. MutexInv' /\ PosInv'
  BY DEF PopV, At, TypeOK, MutexInv, PosInv, Critical, Threads, Slots
<1>4. PermitsConserved'
  BY <1>1, Counts DEF PopV, TypeOK, PermitsConserved
<1>5. Unread' = Unread
  BY <1>1, Counts DEF PopV, TypeOK, Unread, Filling, Emptying
<1>6. Back' = Back
  BY DEF PopV, At, Back, TypeOK, Threads
<1>7. Front' = Front
  BY DEF PopV, At, Front, TypeOK, MutexInv, PosInv, Critical, Threads, Slots
<1>8. NoLapping'
  BY <1>5, <1>6, <1>7 DEF NoLapping
<1> QED
  BY <1>2, <1>3, <1>4, <1>5, <1>6, <1>7, <1>8 DEF Still

-----------------------------------------------------------------------------
LEMMA NextInv == IInv /\ [Next]_vars => IInv'
<1> SUFFICES ASSUME IInv, [Next]_vars PROVE IInv'
  OBVIOUS
<1>1. CASE UNCHANGED vars
  BY <1>1 DEF vars, IInv, TypeOK, MutexInv, PosInv, PermitsConserved, NoLapping,
              Unread, Front, Back, InPush, InPop
<1>2. ASSUME NEW p \in Producers, NEW v \in Items, PushCall(p, v) PROVE IInv'
  BY <1>2, PushCallInv
<1>3. ASSUME NEW p \in Producers, PushStep(p) PROVE IInv'
  BY <1>3, PushPInv, PushLockInv, PushIndexInv, PushCopyInv, PushWrapInv,
     PushUnlockInv, PushVInv DEF PushStep
<1>4. ASSUME NEW c \in Consumers, PopStep(c) PROVE IInv'
  BY <1>4, PopCallInv, PopPInv, PopLockInv, PopIndexInv, PopCopyInv, PopWrapInv,
     PopUnlockInv, PopVInv DEF PopStep
<1> QED
  BY <1>1, <1>2, <1>3, <1>4 DEF Next

\* The invariant holds in every reachable state.
THEOREM Invariance == Spec => []IInv
BY InitInv, NextInv, PTL DEF Spec

(***************************************************************************)
(* Two producers, or two consumers, cannot both be copying, because of     *)
(* their mutex; a producer and a consumer cannot be at the same slot,      *)
(* because the consumer's slot is the front of the unread items, the       *)
(* producer's is the back, and in between there is at least the item being *)
(* read and at most Capacity - 1 items.                                    *)
(***************************************************************************)
LEMMA ExclusionFromShape == IInv => SlotExclusion
<1> SUFFICES ASSUME IInv, NEW t \in Threads, NEW u \in Threads, t # u,
                    pc[t] = "copy", pc[u] = "copy"
             PROVE  slot[t] # slot[u]
  BY DEF SlotExclusion
<1> USE RingQueueAssumption DEF IInv
<1>1. ASSUME NEW p \in Producers, NEW c \in Consumers, pc[p] = "copy", pc[c] = "copy"
      PROVE  slot[p] # slot[c]
  <2>1. p_mtx = p /\ c_mtx = c
    BY <1>1 DEF MutexInv, Critical
  <2>2. Back = slot[p] /\ Front = slot[c]
    BY <1>1, <2>1 DEF Front, Back
  <2>3. Unread >= 1
    BY <1>1, Counts DEF TypeOK, Unread, Filling, Emptying
  <2>4. Unread + 1 <= Capacity
    BY <1>1, Counts DEF TypeOK, PermitsConserved, Unread, Filling, Emptying, PushPlaces
  <2>5. slot[p] \in Int /\ slot[c] \in Int /\ Unread \in Int
    BY DEF TypeOK, Slots, Threads, NoLapping
  <2> QED
    BY <2>2, <2>3, <2>4, <2>5 DEF NoLapping
<1>2. ~ (t \in Producers /\ u \in Producers) /\ ~ (t \in Consumers /\ u \in Consumers)
  BY DEF MutexInv, Critical
<1> QED
  BY <1>1, <1>2 DEF Threads

\* Every variable keeps its type; in particular the semaphores stay within
\* the capacity and no index leaves the vector.
THEOREM TypeCorrect == Spec => []TypeOK
BY Invariance, PTL DEF IInv

\* No two threads ever access the same slot at once.
THEOREM SlotsExclusive == Spec => []SlotExclusion
BY Invariance, ExclusionFromShape, PTL

\* Permits are neither lost nor forged.
THEOREM PermitsConservation == Spec => []PermitsConserved
BY Invariance, PTL DEF IInv

\* Producers and consumers never lap each other.
THEOREM NeverLapped == Spec => []NoLapping
BY Invariance, PTL DEF IInv

-----------------------------------------------------------------------------
(* The refinement of BoundedFifo *)

Pushing == {"P", "lock", "index", "copy"}

\* A push keeps what it was called with until the copy is complete, and a pop
\* has nothing before.
Asked ==
    /\ \A p \in Producers : /\ pc[p] \in Pushing => data[p] \in Items
                            /\ pc[p] = "idle" => data[p] = None
    /\ \A c \in Consumers : pc[c] \in Pushing => pdata[c] = None

LEMMA AskedInit == Init => Asked
BY DEF Init, Asked, Pushing, Threads

LEMMA AskedNext == TypeOK /\ Asked /\ [Next]_vars => Asked'
<1> SUFFICES ASSUME TypeOK, Asked, [Next]_vars PROVE Asked'
  OBVIOUS
<1>1. CASE UNCHANGED vars
  BY <1>1 DEF vars, Asked
<1>d. /\ DOMAIN pc = Producers \cup Consumers /\ DOMAIN data = Producers /\ DOMAIN pdata = Consumers
      /\ Producers \cap Consumers = {}
  BY RingQueueAssumption DEF TypeOK, Threads
<1>2. ASSUME NEW p \in Producers, NEW v \in Items, PushCall(p, v) PROVE Asked'
  BY <1>d, <1>2 DEF PushCall, At, Asked, Pushing
<1>3. ASSUME NEW p \in Producers, PushStep(p) PROVE Asked'
  <2>1. CASE PushV(p)
    BY <1>d, <2>1 DEF PushV, At, Asked, Pushing
  <2>2. CASE ~ PushV(p)
    <3>1. UNCHANGED <<data, pdata>>
      BY <1>3, <2>2 DEF PushStep, PushP, PushLock, PushIndex, PushCopy, PushWrap, PushUnlock
    <3>2. PICK w : w # "idle" /\ pc' = [pc EXCEPT ![p] = w] /\ (w \in Pushing => pc[p] \in Pushing)
      BY <1>3, <2>2 DEF PushStep, PushP, PushLock, PushIndex, PushCopy, PushWrap, PushUnlock, At, Pushing
    <3> QED
      BY <1>d, <3>1, <3>2 DEF Asked
  <2> QED
    BY <2>1, <2>2
<1>4. ASSUME NEW c \in Consumers, PopStep(c) PROVE Asked'
  <2>1. CASE PopCall(c)
    BY <1>d, <2>1 DEF PopCall, At, Asked, Pushing
  <2>2. CASE PopCopy(c)
    BY <1>d, <2>2 DEF PopCopy, At, Asked, Pushing
  <2>3. CASE ~ PopCall(c) /\ ~ PopCopy(c)
    <3>1. UNCHANGED <<data, pdata>>
      BY <1>4, <2>3 DEF PopStep, PopP, PopLock, PopIndex, PopWrap, PopUnlock, PopV
    <3>2. PICK w : pc' = [pc EXCEPT ![c] = w] /\ (w \in Pushing => pc[c] \in Pushing)
      BY <1>4, <2>3 DEF PopStep, PopP, PopLock, PopIndex, PopWrap, PopUnlock, PopV, At, Pushing
    <3> QED
      BY <1>d, <3>1, <3>2 DEF Asked
  <2> QED
    BY <2>1, <2>2, <2>3
<1> QED
  BY <1>1, <1>2, <1>3, <1>4 DEF Next

\* The i-th slot from f, around the ring.
LEMMA RingIndex ==
    ASSUME NEW f \in Slots, NEW i \in 1 .. Capacity
    PROVE  (f + i - 1) % Capacity = IF f + i - 1 < Capacity THEN f + i - 1 ELSE f + i - 1 - Capacity
<1>1. PICK d \in Nat \ {0} : d = Capacity
  BY RingQueueAssumption
<1>2. PICK n \in Nat : n = f + i - 1 /\ n < 2 * d
  BY <1>1 DEF Slots
<1>3. PICK q \in Int, m \in 0 .. d - 1 : m = n % d /\ n = d * q + m
  <2>1. /\ n \div d \in Int /\ n % d \in 0 .. d - 1
        /\ n = d * (n \div d) + (n % d)
    OBVIOUS
  <2> QED
    BY <2>1
<1>4. CASE q <= -1
  BY <1>2, <1>3, <1>4
<1>5. CASE q = 0
  BY <1>1, <1>2, <1>3, <1>5
<1>6. CASE q = 1
  <2>1. n = d + m /\ m = n - d /\ n >= d
    BY <1>3, <1>6
  <2>2. (f + i - 1) % Capacity = m
    BY <1>1, <1>2, <1>3
  <2>3. m = f + i - 1 - Capacity /\ ~ (f + i - 1 < Capacity)
    BY <1>1, <1>2, <2>1 DEF Slots
  <2> QED
    BY <2>2, <2>3
<1>7. CASE q >= 2
  BY <1>2, <1>3, <1>7
<1> QED
  BY <1>4, <1>5, <1>6, <1>7

Place(i) == (Front + i - 1) % Capacity

LEMMA Shape ==
    ASSUME IInv
    PROVE  /\ Front \in Slots /\ Back \in Slots /\ Unread \in 0 .. Capacity
           /\ Contents \in Seq(Items \cup {None}) /\ Len(Contents) = Unread
           /\ \A i \in 1 .. Unread : Place(i) \in Slots /\ Contents[i] = Rqueue[Place(i)]
           /\ Unread < Capacity => Place(Unread + 1) = Back /\ \A i \in 1 .. Unread : Place(i) # Back
<1> USE RingQueueAssumption
<1>1. Front \in Slots /\ Back \in Slots /\ Unread \in 0 .. Capacity
  BY WrapValue DEF IInv, Front, Back, TypeOK, Slots, Threads, NoLapping
<1>2. PICK f \in Slots, b \in Slots, n \in 0 .. Capacity : f = Front /\ b = Back /\ n = Unread
  BY <1>1
<1>3. f + n \in {b, b + Capacity}
  BY <1>2 DEF IInv, NoLapping
<1>4. \A i \in 1 .. Capacity : Place(i) = IF f + i - 1 < Capacity THEN f + i - 1 ELSE f + i - 1 - Capacity
  BY <1>2, RingIndex DEF Place
<1>5. \A i \in 1 .. Capacity : Place(i) \in Slots
  BY <1>4 DEF Slots
<1>6. Contents = [i \in 1 .. n |-> Rqueue[Place(i)]]
  BY <1>2 DEF Contents, Place
<1>7. Contents \in Seq(Items \cup {None}) /\ Len(Contents) = n /\ \A i \in 1 .. n : Contents[i] = Rqueue[Place(i)]
  BY <1>5, <1>6 DEF IInv, TypeOK
<1>8. n < Capacity => Place(n + 1) = b
  BY <1>3, <1>4 DEF Slots
<1>9. ASSUME n < Capacity, NEW i \in 1 .. n PROVE Place(i) # b
  BY <1>3, <1>4, <1>9 DEF Slots
<1> QED
  BY <1>1, <1>2, <1>5, <1>7, <1>8, <1>9

\* Who is about to write has a slot that is not among the unread ones.
LEMMA Room ==
    ASSUME IInv, NEW p \in Producers, pc[p] \in {"index", "copy"}
    PROVE  /\ Unread < Capacity
           /\ Back = IF pc[p] = "copy" THEN slot[p] ELSE p_pos
<1> USE RingQueueAssumption
<1>1. Unread < Capacity
  BY Counts DEF IInv, TypeOK, PermitsConserved, Unread, Filling, Emptying, PushPlaces
<1>2. p_mtx = p
  BY DEF IInv, MutexInv, Critical
<1>3. pc[p] = "index" => p_pos \in Slots
  BY <1>2 DEF IInv, PosInv, TypeOK, Slots
<1> QED
  BY <1>1, <1>2, <1>3, WrapValue DEF Back, Slots

In == [p \in Producers |-> IF pc[p] \in Pushing THEN data[p] ELSE None]

LEMMA StillContents ==
    ASSUME IInv, Still, Rqueue' = Rqueue
    PROVE  Contents' = Contents
BY DEF Still, Contents

LEMMA IndexContents ==
    ASSUME IInv, NEW p \in Producers, PushIndex(p)
    PROVE  Contents' = Contents
<1>1. Still
  BY PushIndexInv
<1>2. pc[p] = "index" /\ Rqueue' = [Rqueue EXCEPT ![p_pos] = None]
  BY DEF PushIndex, At
<1>3. \A i \in 1 .. Unread : Place(i) # p_pos
  BY <1>2, Room, Shape
<1>4. \A i \in 1 .. Unread : Rqueue'[Place(i)] = Rqueue[Place(i)]
  BY <1>2, <1>3
<1>5. Contents' = [i \in 1 .. Unread |-> Rqueue'[Place(i)]]
  BY <1>1 DEF Still, Contents, Place
<1>6. Contents = [i \in 1 .. Unread |-> Rqueue[Place(i)]]
  BY DEF Contents, Place
<1> QED
  BY <1>4, <1>5, <1>6

LEMMA CopyInserts ==
    ASSUME IInv, Asked, NEW p \in Producers, PushCopy(p)
    PROVE  Fifo!Insert(p)
<1>1. Unread' = Unread + 1 /\ Front' = Front
  BY PushCopyInv
<1>2. /\ pc[p] = "copy" /\ pc' = [pc EXCEPT ![p] = "wrap"]
      /\ Rqueue' = [Rqueue EXCEPT ![slot[p]] = data[p]] /\ UNCHANGED <<data, pdata>>
  BY DEF PushCopy, At
<1>3. PICK n \in Nat : n = Unread /\ n < Capacity /\ Place(n + 1) = slot[p] /\ slot[p] \in Slots
                       /\ \A i \in 1 .. n : Place(i) # slot[p]
  BY <1>2, Room, Shape
<1>4. data[p] \in Items /\ data[p] # None
  BY <1>2, RingQueueAssumption DEF Asked, Pushing
<1>5. \A i \in 1 .. n : Rqueue'[Place(i)] = Rqueue[Place(i)]
  BY <1>2, <1>3
<1>6. Rqueue'[Place(n + 1)] = data[p]
  BY <1>2, <1>3 DEF IInv, TypeOK
<1>7. Contents' = [i \in 1 .. n + 1 |-> Rqueue'[Place(i)]]
  BY <1>1, <1>3 DEF Contents, Place
<1>8. Contents' = Append(Contents, data[p])
  <2>1. Contents \in Seq(Items \cup {None}) /\ Len(Contents) = n /\ \A i \in 1 .. n : Contents[i] = Rqueue[Place(i)]
    BY <1>3, Shape
  <2>2. PICK s \in Seq(Items \cup {None}) : s = Contents
    BY <2>1
  <2>3. Append(s, data[p]) = [i \in 1 .. n + 1 |-> IF i = n + 1 THEN data[p] ELSE s[i]]
    BY <2>1, <2>2
  <2>4. \A i \in 1 .. n + 1 : Rqueue'[Place(i)] = IF i = n + 1 THEN data[p] ELSE s[i]
    BY <1>5, <1>6, <2>1, <2>2
  <2> QED
    BY <1>7, <2>2, <2>3, <2>4
<1>9. /\ In[p] = data[p] /\ In' = [In EXCEPT ![p] = None] /\ Len(Contents) < Capacity
  <2>1. Len(Contents) < Capacity
    BY <1>3, Shape
  <2>2. \A q \in Producers : pc'[q] = IF q = p THEN "wrap" ELSE pc[q]
    BY <1>2 DEF IInv, TypeOK, Threads
  <2>3. \A q \in Producers : In'[q] = IF q = p THEN None ELSE In[q]
    BY <1>2, <2>2 DEF In, Pushing
  <2>4. In' = [In EXCEPT ![p] = None]
    BY <2>3 DEF In
  <2> QED
    BY <1>2, <2>1, <2>4 DEF In, Pushing
<1> QED
  BY <1>2, <1>4, <1>8, <1>9 DEF Fifo!Insert, In, Pushing

LEMMA TailValue ==
    ASSUME NEW S, NEW s \in Seq(S), s # <<>>
    PROVE  Tail(s) = [i \in 1 .. Len(s) - 1 |-> s[i + 1]]
<1>1. /\ Tail(s) \in Seq(S) /\ Len(Tail(s)) = Len(s) - 1
      /\ \A i \in 1 .. Len(Tail(s)) : Tail(s)[i] = s[i + 1]
  BY HeadTailProperties
<1>2. PICK t \in Seq(S) : t = Tail(s)
  BY <1>1
<1>3. t = [i \in 1 .. Len(t) |-> t[i]]
  OBVIOUS
<1> QED
  BY <1>1, <1>2, <1>3

LEMMA CopyRemoves ==
    ASSUME IInv, Asked, NEW c \in Consumers, PopCopy(c)
    PROVE  Fifo!Remove(c)
<1>1. /\ IInv' /\ Unread >= 1 /\ Unread' = Unread - 1
      /\ Front = slot[c] /\ Front' = IF slot[c] + 1 = Capacity THEN 0 ELSE slot[c] + 1
  BY PopCopyInv
<1>2. /\ pc[c] = "copy" /\ pc' = [pc EXCEPT ![c] = "wrap"]
      /\ pdata' = [pdata EXCEPT ![c] = Rqueue[slot[c]]] /\ UNCHANGED <<Rqueue, data>>
  BY DEF PopCopy, At
<1>3. PICK n \in 1 .. Capacity, f \in Slots, g \in Slots :
          n = Unread /\ f = Front /\ g = Front' /\ g = IF f + 1 = Capacity THEN 0 ELSE f + 1
  <2>1. Front \in Slots /\ Unread \in 1 .. Capacity
    BY <1>1, Shape
  <2>2. Front' = (IF Front + 1 = Capacity THEN 0 ELSE Front + 1)
    BY <1>1
  <2>3. Front' \in Slots
    BY <2>1, <2>2, RingQueueAssumption DEF Slots
  <2> QED
    BY <2>1, <2>2, <2>3
<1>4. \A i \in 1 .. n - 1 : (g + i - 1) % Capacity = (f + i) % Capacity
  <2> SUFFICES ASSUME NEW i \in 1 .. n - 1 PROVE (g + i - 1) % Capacity = (f + i) % Capacity
    OBVIOUS
  <2>1. i \in 1 .. Capacity /\ i + 1 \in 1 .. Capacity /\ f + (i + 1) - 1 = f + i
    BY RingQueueAssumption DEF Slots
  <2>2. (g + i - 1) % Capacity = IF g + i - 1 < Capacity THEN g + i - 1 ELSE g + i - 1 - Capacity
    BY <2>1, RingIndex
  <2>3. (f + i) % Capacity = IF f + i < Capacity THEN f + i ELSE f + i - Capacity
    <3>1. (f + (i + 1) - 1) % Capacity
              = IF f + (i + 1) - 1 < Capacity THEN f + (i + 1) - 1 ELSE f + (i + 1) - 1 - Capacity
      BY <2>1, RingIndex
    <3> QED
      BY <2>1, <3>1
  <2> QED
    BY <1>3, <2>2, <2>3, RingQueueAssumption DEF Slots
<1>5. Contents' = [i \in 1 .. n - 1 |-> Rqueue[(f + i) % Capacity]]
  <2>1. Contents' = [i \in 1 .. n - 1 |-> Rqueue[(g + i - 1) % Capacity]]
    BY <1>1, <1>2, <1>3 DEF Contents
  <2> QED
    BY <1>4, <2>1
<1>6. PICK s \in Seq(Items \cup {None}) : s = Contents /\ Len(s) = n
  BY <1>3, Shape
<1>7. \A i \in 1 .. n : s[i] = Rqueue[(f + i - 1) % Capacity]
  BY <1>3, <1>6 DEF Contents
<1>8. Head(s) = Rqueue[slot[c]]
  <2>1. (f + 1 - 1) % Capacity = f
    BY RingIndex, RingQueueAssumption DEF Slots
  <2> QED
    BY <1>1, <1>3, <1>6, <1>7, <2>1
<1>9. Contents' = Tail(s)
  <2>1. Tail(s) = [i \in 1 .. n - 1 |-> s[i + 1]]
    <3>1. s # <<>>
      BY <1>6
    <3> QED
      BY <1>6, <3>1, TailValue
  <2>2. \A i \in 1 .. n - 1 : s[i + 1] = Rqueue[(f + i) % Capacity]
    <3> SUFFICES ASSUME NEW i \in 1 .. n - 1 PROVE s[i + 1] = Rqueue[(f + i) % Capacity]
      OBVIOUS
    <3>1. i + 1 \in 1 .. n /\ f + (i + 1) - 1 = f + i
      BY DEF Slots
    <3> QED
      BY <1>7, <3>1
  <2> QED
    BY <1>5, <2>1, <2>2
<1>10. In' = In
  BY <1>2, RingQueueAssumption DEF In, IInv, TypeOK, Threads
<1>11. pdata[c] = None /\ s # <<>>
  BY <1>2, <1>6 DEF Asked, Pushing
<1> QED
  BY <1>2, <1>6, <1>8, <1>9, <1>10, <1>11 DEF Fifo!Remove, In, Pushing

LEMMA StepRefines == IInv /\ Asked /\ [Next]_vars => [Fifo!Next]_(Fifo!vars)
<1> SUFFICES ASSUME IInv, Asked, [Next]_vars PROVE Fifo!Next \/ (Contents' = Contents /\ In' = In /\ pdata' = pdata)
  BY DEF Fifo!vars, In, Pushing
<1>d. /\ DOMAIN pc = Producers \cup Consumers /\ DOMAIN data = Producers /\ DOMAIN pdata = Consumers
      /\ Producers \cap Consumers = {}
  BY RingQueueAssumption DEF IInv, TypeOK, Threads
<1>1. CASE UNCHANGED vars
  BY <1>1 DEF vars, Contents, Unread, Front, InPush, InPop, In
<1>2. ASSUME NEW p \in Producers, NEW v \in Items, PushCall(p, v) PROVE Fifo!Next
  <2>1. Contents' = Contents
    BY <1>2, PushCallInv, StillContents DEF PushCall
  <2>2. In[p] = None /\ In' = [In EXCEPT ![p] = v] /\ pdata' = pdata
    BY <1>d, <1>2 DEF PushCall, At, In, Pushing
  <2>3. Fifo!Call(p, v)
    BY <2>1, <2>2 DEF Fifo!Call, In, Pushing
  <2> QED
    BY <2>3 DEF Fifo!Next
<1>3. ASSUME NEW p \in Producers, PushStep(p)
      PROVE  Fifo!Next \/ (Contents' = Contents /\ In' = In /\ pdata' = pdata)
  <2>1. CASE PushCopy(p)
    BY <2>1, CopyInserts DEF Fifo!Next
  <2>2. CASE PushP(p)
    BY <1>d, <2>2, PushPInv, StillContents DEF PushP, At, In, Pushing
  <2>3. CASE PushLock(p)
    BY <1>d, <2>3, PushLockInv, StillContents DEF PushLock, At, In, Pushing
  <2>4. CASE PushIndex(p)
    BY <1>d, <2>4, IndexContents DEF PushIndex, At, In, Pushing
  <2>5. CASE PushWrap(p)
    BY <1>d, <2>5, PushWrapInv, StillContents DEF PushWrap, At, In, Pushing
  <2>6. CASE PushUnlock(p)
    BY <1>d, <2>6, PushUnlockInv, StillContents DEF PushUnlock, At, In, Pushing
  <2>7. CASE PushV(p)
    BY <1>d, <2>7, PushVInv, StillContents DEF PushV, At, In, Pushing
  <2> QED
    BY <1>3, <2>1, <2>2, <2>3, <2>4, <2>5, <2>6, <2>7 DEF PushStep
<1>4. ASSUME NEW c \in Consumers, PopStep(c)
      PROVE  Fifo!Next \/ (Contents' = Contents /\ In' = In /\ pdata' = pdata)
  <2>i. ASSUME data' = data, NEW w, pc' = [pc EXCEPT ![c] = w] PROVE In' = In
    BY <1>d, <2>i DEF In
  <2>1. CASE PopCopy(c)
    BY <2>1, CopyRemoves DEF Fifo!Next
  <2>2. CASE PopCall(c)
    <3>1. Contents' = Contents /\ In' = In /\ pdata' = [pdata EXCEPT ![c] = None]
      BY <2>2, <2>i, PopCallInv, StillContents DEF PopCall, At
    <3>2. CASE pdata[c] = None
      <4>1. pdata \in [Consumers -> Items \cup {None}]
        BY DEF IInv, TypeOK
      <4> QED
        BY <3>1, <3>2, <4>1
    <3>3. CASE pdata[c] # None
      <4>1. Fifo!Return(c)
        BY <3>1, <3>3 DEF Fifo!Return, In, Pushing
      <4> QED
        BY <4>1 DEF Fifo!Next
    <3> QED
      BY <3>2, <3>3
  <2>3. CASE PopP(c)
    BY <2>3, <2>i, PopPInv, StillContents DEF PopP, At
  <2>4. CASE PopLock(c)
    BY <2>4, <2>i, PopLockInv, StillContents DEF PopLock, At
  <2>5. CASE PopIndex(c)
    BY <2>5, <2>i, PopIndexInv, StillContents DEF PopIndex, At
  <2>6. CASE PopWrap(c)
    BY <2>6, <2>i, PopWrapInv, StillContents DEF PopWrap, At
  <2>7. CASE PopUnlock(c)
    BY <2>7, <2>i, PopUnlockInv, StillContents DEF PopUnlock, At
  <2>8. CASE PopV(c)
    BY <2>8, <2>i, PopVInv, StillContents DEF PopV, At
  <2> QED
    BY <1>4, <2>1, <2>2, <2>3, <2>4, <2>5, <2>6, <2>7, <2>8 DEF PopStep
<1> QED
  BY <1>1, <1>2, <1>3, <1>4 DEF Next

LEMMA InitRefines == Init => Fifo!Init
<1> SUFFICES ASSUME Init PROVE Fifo!Init
  OBVIOUS
<1>1. IInv
  BY InitInv
<1>2. Unread = 0
  <2>1. InPush(Filling) = {} /\ InPop(Emptying) = {}
    BY DEF Init, InPush, InPop, Filling, Emptying, Threads
  <2>2. Cardinality(InPush(Filling)) = 0 /\ Cardinality(InPop(Emptying)) = 0
    BY <2>1, FS_EmptySet
  <2> QED
    BY <2>2 DEF Init, Unread, Filling, Emptying
<1>3. Contents = <<>>
  BY <1>1, <1>2, Shape
<1>4. In = [p \in Producers |-> None]
  BY DEF Init, In, Pushing, Threads
<1> QED
  BY <1>3, <1>4 DEF Init, Fifo!Init, In, Pushing

(***************************************************************************)
(* The ring is a bounded queue, for any number of threads and slots: each  *)
(* push inserts its item once, behind those that are in; each pop takes    *)
(* the oldest, whole; the other steps of push and pop, wherever they are   *)
(* interrupted, change nothing a caller can see.                           *)
(***************************************************************************)
THEOREM Refinement == Spec => IsFifo
<1>1. Spec => [](IInv /\ Asked)
  <2>1. IInv /\ Asked /\ [Next]_vars => Asked'
    BY AskedNext DEF IInv
  <2> QED
    BY InitInv, NextInv, AskedInit, <2>1, PTL DEF Spec
<1> QED
  BY <1>1, InitRefines, StepRefines, PTL DEF Spec, IsFifo, Fifo!Spec

-----------------------------------------------------------------------------
\* Who can take a step of push or pop: PushStep or PopStep is enabled.
CanMove(t) ==
    \/ pc[t] \in Critical \cup {"V"}
    \/ pc[t] = "lock" /\ (IF t \in Producers THEN p_mtx ELSE c_mtx) = NoOwner
    \/ pc[t] = "P" /\ (IF t \in Producers THEN space_sem ELSE data_sem) > 0
    \/ pc[t] = "idle" /\ t \in Consumers

\* Nobody who has something to do waits while nobody can move.
NoStandstill ==
    (Unread > 0 \/ \E p \in Producers : pc[p] # "idle") => \E t \in Threads : CanMove(t)

LEMMA NoneStuck ==
    ASSUME IInv, Consumers # {}
    PROVE  NoStandstill
<1> SUFFICES ASSUME \A t \in Threads : ~ CanMove(t)
             PROVE  Unread = 0 /\ \A p \in Producers : pc[p] = "idle"
  BY DEF NoStandstill
<1> USE RingQueueAssumption DEF IInv
<1>1. p_mtx = NoOwner /\ c_mtx = NoOwner
  BY DEF CanMove, TypeOK, MutexInv, Threads
<1>2. \A c \in Consumers : pc[c] = "P"
  BY <1>1 DEF CanMove, TypeOK, Threads, PushPlaces, Critical
<1>3. \A p \in Producers : pc[p] \in {"idle", "P"}
  BY <1>1 DEF CanMove, TypeOK, Threads, PushPlaces, Critical
<1>4. data_sem = 0
  BY <1>2 DEF CanMove, TypeOK, Threads
<1>5. \A A \in {PushPlaces, Filling, Emptying} : InPush(A) = {} /\ InPop(A) = {}
  BY <1>2, <1>3 DEF InPush, InPop, PushPlaces, Filling, Emptying
<1>6. \A A \in {PushPlaces, Filling, Emptying} :
          Cardinality(InPush(A)) = 0 /\ Cardinality(InPop(A)) = 0
  BY <1>5, FS_EmptySet
<1>7. Unread = 0
  BY <1>4, <1>6 DEF Unread, Filling, Emptying
<1>8. space_sem > 0
  BY <1>4, <1>6 DEF PermitsConserved, TypeOK
<1> QED
  BY <1>3, <1>7, <1>8 DEF CanMove, Threads

(***************************************************************************)
(* Push and pop never end in a deadlock, whatever order threads come in at *)
(* the semaphores and, behind them, at the mutexes: with a consumer, as    *)
(* long as there is an item or a push under way, some thread can move.     *)
(***************************************************************************)
THEOREM NeverStuck == ASSUME Consumers # {} PROVE Spec => []NoStandstill
<1>1. IInv => NoStandstill
  BY NoneStuck
<1> QED
  BY <1>1, Invariance, PTL
=============================================================================
