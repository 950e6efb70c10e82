--------------------------- MODULE DirLockProofs ---------------------------
(* TLAPS proofs about DirLock, for any set of stacks. *)
EXTENDS DirLock, SequenceTheorems, FiniteSetTheorems, TLAPS

\* The walk of dir_entry_lock stops at a waiter of the list.
LEMMA LinkAfterInQueue ==
  ASSUME NEW S, NEW q \in Seq(S), q # <<>>, NEW k
  PROVE  LinkAfter(q, k) \in 1..Len(q)
<1>1. IsFiniteSet(1..Len(q) - 1) /\ Cardinality(1..Len(q) - 1) = Len(q) - 1
  BY FS_Interval
<1>2. Passed(q, k) \subseteq 1..Len(q) - 1
  BY DEF Passed
<1>3. /\ Cardinality(Passed(q, k)) \in Nat
      /\ Cardinality(Passed(q, k)) <= Len(q) - 1
  BY <1>1, <1>2, FS_Subset, FS_CardinalityType
<1> QED BY <1>3 DEF LinkAfter

\* e is q with k put at some place, the others in their order.
Inserted(e, q, k) ==
  /\ Len(e) = Len(q) + 1
  /\ \E p \in 1..Len(q) + 1 :
       /\ e[p] = k
       /\ \A i \in 1..p - 1 : e[i] = q[i]
       /\ \A i \in p..Len(q) : e[i + 1] = q[i]

\* Linking a stack behind a waiter keeps every waiter in its order.
LEMMA EnqueueShape ==
  ASSUME NEW S, NEW q \in Seq(S), NEW k \in S
  PROVE  Enqueue(q, k) \in Seq(S) /\ Inserted(Enqueue(q, k), q, k)
<1> DEFINE e == Enqueue(q, k)
<1>1. CASE q = <<>>
  <2>1. e = <<k>> /\ Len(q) = 0
    BY <1>1 DEF Enqueue
  <2>2. e \in Seq(S) /\ Len(e) = 1 /\ e[1] = k
    BY <2>1
  <2>3. /\ 1 \in 1..Len(q) + 1
        /\ \A i \in 1..1 - 1 : e[i] = q[i]
        /\ \A i \in 1..Len(q) : e[i + 1] = q[i]
    BY <2>1
  <2> QED BY <2>1, <2>2, <2>3 DEF Inserted
<1>2. CASE q # <<>>
  <2> DEFINE p == LinkAfter(q, k) + 1
             L == SubSeq(q, 1, p - 1)
             F == L \o <<k>>
             R == SubSeq(q, p, Len(q))
  <2>1. p \in 2..Len(q) + 1 /\ p \in Nat /\ Len(q) \in Nat
    BY <1>2, LinkAfterInQueue
  <2>2. e = F \o R
    BY <1>2 DEF Enqueue, InsertAt
  <2> HIDE DEF p
  <2>3. L \in Seq(S) /\ Len(L) = p - 1 /\ \A i \in 1..p - 1 : L[i] = q[i]
    BY <2>1
  <2>4. /\ R \in Seq(S) /\ Len(R) = Len(q) + 1 - p
        /\ \A i \in 1..Len(q) + 1 - p : R[i] = q[p + i - 1]
    BY <2>1
  <2> HIDE DEF L, R
  <2>5. /\ F \in Seq(S) /\ Len(F) = p /\ F[p] = k
        /\ \A i \in 1..p - 1 : F[i] = q[i]
    BY <2>1, <2>3
  <2>c. /\ F \o R \in Seq(S) /\ Len(F \o R) = Len(F) + Len(R)
        /\ \A i \in 1..Len(F) + Len(R) :
             (F \o R)[i] = IF i <= Len(F) THEN F[i] ELSE R[i - Len(F)]
    BY <2>4, <2>5, ConcatProperties
  <2> HIDE DEF F, e
  <2>6. e \in Seq(S) /\ Len(e) = Len(q) + 1
    BY <2>1, <2>2, <2>4, <2>5, <2>c
  <2>7. \A i \in 1..p : e[i] = F[i]
    BY <2>1, <2>2, <2>4, <2>5, <2>c
  <2>8. ASSUME NEW i \in p..Len(q) PROVE e[i + 1] = q[i]
    <3> DEFINE d == i + 1 - p
    <3>1. /\ d \in 1..Len(R) /\ i + 1 = Len(F) + d /\ p + d - 1 = i
          /\ i + 1 \in 1..Len(F) + Len(R) /\ ~(i + 1 <= Len(F))
          /\ (i + 1) - Len(F) = d
      BY <2>1, <2>4, <2>5
    <3>2. e[i + 1] = R[d]
      BY <2>2, <2>c, <3>1
    <3>3. R[d] = q[p + d - 1]
      BY <2>4, <3>1
    <3> QED BY <3>1, <3>2, <3>3
  <2>9. p \in 1..Len(q) + 1 /\ e[p] = k /\ \A i \in 1..p - 1 : e[i] = q[i]
    BY <2>1, <2>5, <2>7
  <2> QED BY <2>6, <2>8, <2>9 DEF e, Inserted
<1> QED BY <1>1, <1>2

\* The invariant that carries the proofs: the queue holds exactly the waiting
\* stacks, once each, and only blocking stacks wait.
IInv ==
  /\ TypeOK /\ Exclusive /\ QueueExact /\ NoLostWakeup
  /\ \A k \in Stacks : pc[k] = "waiting" => k \in Blocking

\* A free entry with an empty queue satisfies the invariant.
LEMMA InitInv == Init => IInv
<1> SUFFICES ASSUME Init PROVE IInv
  OBVIOUS
<1> USE DEF Init
<1>1. TypeOK
  <2>1. queue \in Seq(Blocking)
    BY EmptySeq
  <2>2. pc \in [Stacks -> Places]
    BY DEF Places
  <2> QED BY <2>1, <2>2 DEF TypeOK
<1>2. Exclusive /\ QueueExact /\ NoLostWakeup
  BY DEF Exclusive, QueueExact, NoLostWakeup
<1> QED BY <1>1, <1>2 DEF IInv

\* Queueing a stack that is not queued.
LEMMA WaitInv ==
  ASSUME IInv, NEW k \in Stacks, Wait(k)
  PROVE  IInv'
<1> DEFINE e == Enqueue(queue, k)
<1> USE DEF IInv
<1>1. /\ queue \in Seq(Blocking) /\ pc \in [Stacks -> Places] /\ queue' = e
      /\ k \in Blocking /\ Blocking \subseteq Stacks
  BY StacksAssumption DEF TypeOK, Wait
<1>0. e \in Seq(Blocking) /\ Inserted(e, queue, k)
  BY <1>1, EnqueueShape
<1>2. e \in Seq(Blocking) /\ Len(e) = Len(queue) + 1
  BY <1>0 DEF Inserted
<1>3. PICK p \in 1..Len(queue) + 1 :
              /\ e[p] = k
              /\ \A i \in 1..p - 1 : e[i] = queue[i]
              /\ \A i \in p..Len(queue) : e[i + 1] = queue[i]
  BY <1>0 DEF Inserted
<1> HIDE DEF e
<1>a. Len(queue) \in Nat
  BY <1>1
<1>4. \A i \in 1..Len(e) : \/ i < p /\ i \in 1..Len(queue) /\ e[i] = queue[i]
                           \/ i = p /\ e[i] = k
                           \/ /\ i > p /\ i - 1 \in 1..Len(queue)
                              /\ e[i] = queue[i - 1]
  <2> TAKE i \in 1..Len(e)
  <2>1. CASE i > p
    <3>1. i - 1 \in p..Len(queue) /\ (i - 1) + 1 = i
      BY <1>2, <1>a, <2>1
    <3>2. e[(i - 1) + 1] = queue[i - 1]
      BY <1>3, <3>1
    <3> QED BY <2>1, <3>1, <3>2, <1>a
  <2> QED BY <1>2, <1>3, <1>a, <2>1
<1>5. \A i \in 1..Len(queue) : queue[i] # k
  BY DEF QueueExact, Wait
<1>6. TypeOK'
  BY <1>1, <1>2 DEF TypeOK, Wait, Places
<1>7. Exclusive'
  BY <1>1 DEF Exclusive, Wait
<1>8. \A i, j \in 1..Len(e) : e[i] = e[j] => i = j
  <2> TAKE i, j \in 1..Len(e)
  <2> HAVE e[i] = e[j]
  <2>1. CASE i = p \/ j = p
    BY <1>4, <1>5, <2>1
  <2>2. CASE i # p /\ j # p
    <3> DEFINE r(h) == IF h < p THEN h ELSE h - 1
    <3>1. r(i) \in 1..Len(queue) /\ r(j) \in 1..Len(queue)
      BY <1>4, <2>2, <1>a, <1>2
    <3>2. queue[r(i)] = queue[r(j)]
      BY <1>4, <2>2, <1>a, <1>2
    <3>3. r(i) = r(j)
      BY <3>1, <3>2 DEF QueueExact
    <3>4. i < p \/ i > p
      BY <2>2, <1>a, <1>2
    <3>5. j < p \/ j > p
      BY <2>2, <1>a, <1>2
    <3> QED BY <3>3, <3>4, <3>5, <1>a, <1>2
  <2> QED BY <2>1, <2>2
<1>9. \A j \in Stacks : pc'[j] = "waiting" <=> \E i \in 1..Len(e) : e[i] = j
  <2> TAKE j \in Stacks
  <2>1. CASE j = k
    BY <1>1, <1>2, <1>3, <1>a, <2>1 DEF Wait
  <2>2. CASE j # k
    <3>1. ASSUME NEW i \in 1..Len(queue), queue[i] = j
          PROVE  \E h \in 1..Len(e) : e[h] = j
      <4>1. CASE i < p
        BY <1>2, <1>3, <1>a, <3>1, <4>1
      <4>2. CASE i >= p
        <5>1. i + 1 \in 1..Len(e) /\ e[i + 1] = queue[i]
          BY <1>2, <1>3, <1>a, <4>2
        <5> QED BY <3>1, <5>1
      <4> QED BY <4>1, <4>2, <1>a
    <3>2. ASSUME NEW i \in 1..Len(e), e[i] = j
          PROVE  \E h \in 1..Len(queue) : queue[h] = j
      BY <1>4, <2>2, <3>2
    <3>3. pc'[j] = pc[j]
      BY <1>1, <2>2 DEF Wait
    <3> QED BY <3>1, <3>2, <3>3 DEF QueueExact
  <2> QED BY <2>1, <2>2
<1>10. QueueExact'
  BY <1>1, <1>8, <1>9 DEF QueueExact
<1>11. NoLostWakeup'
  BY DEF NoLostWakeup, Wait
<1>12. \A j \in Stacks : pc'[j] = "waiting" => j \in Blocking
  BY <1>1 DEF Wait
<1> QED BY <1>6, <1>7, <1>10, <1>11, <1>12

\* Unlocking with somebody queued: the first waiter becomes scheduled.
LEMMA HandoverInv ==
  ASSUME IInv, NEW k \in Stacks, Unlock(k), queue # <<>>
  PROVE  IInv'
<1> DEFINE h == Head(queue)
<1> USE DEF IInv
<1>1. /\ queue \in Seq(Blocking) /\ pc \in [Stacks -> Places]
      /\ queue' = Tail(queue) /\ lock' = FALSE
      /\ pc' = [pc EXCEPT ![k] = "done", ![h] = "trying"]
  BY DEF TypeOK, Unlock
<1>2. /\ Len(queue) \in Nat /\ Len(queue) > 0 /\ h = queue[1] /\ h \in Blocking /\ h \in Stacks
      /\ Tail(queue) \in Seq(Blocking) /\ Len(Tail(queue)) = Len(queue) - 1
      /\ \A i \in 1..Len(queue) - 1 : Tail(queue)[i] = queue[i + 1]
  BY <1>1, StacksAssumption
<1>3. pc[h] = "waiting" /\ h # k /\ h \in Blocking
  BY <1>2 DEF QueueExact, Unlock
<1> HIDE DEF h
<1>4. TypeOK'
  BY <1>1, <1>2, <1>3 DEF TypeOK, Places
<1>5. Exclusive'
  BY <1>1, <1>3 DEF Exclusive, Unlock
<1>6. QueueExact'
  <2>1. \A i, j \in 1..Len(queue') : queue'[i] = queue'[j] => i = j
    <3> TAKE i, j \in 1..Len(queue')
    <3> HAVE queue'[i] = queue'[j]
    <3>1. /\ i + 1 \in 1..Len(queue) /\ j + 1 \in 1..Len(queue)
          /\ queue[i + 1] = queue[j + 1]
      BY <1>1, <1>2
    <3>2. i + 1 = j + 1
      BY <3>1 DEF QueueExact
    <3> QED BY <1>1, <1>2, <3>2
  <2>2. ASSUME NEW j \in Stacks
        PROVE  pc'[j] = "waiting" <=> \E i \in 1..Len(queue') : queue'[i] = j
    <3>1. ASSUME pc'[j] = "waiting"
          PROVE  \E i \in 1..Len(queue') : queue'[i] = j
      <4>1. pc[j] = "waiting" /\ j # h
        BY <1>1, <1>2, <1>3, <3>1
      <4>2. PICK i \in 1..Len(queue) : queue[i] = j
        BY <4>1 DEF QueueExact
      <4>3. i # 1 /\ i - 1 \in 1..Len(queue) - 1 /\ (i - 1) + 1 = i
        BY <1>2, <4>1, <4>2
      <4>4. queue'[i - 1] = queue[(i - 1) + 1]
        BY <1>1, <1>2, <4>3
      <4> QED BY <1>1, <1>2, <4>2, <4>3, <4>4
    <3>2. ASSUME NEW i \in 1..Len(queue'), queue'[i] = j
          PROVE  pc'[j] = "waiting"
      <4>1. i + 1 \in 1..Len(queue) /\ queue[i + 1] = j /\ i + 1 # 1
        BY <1>1, <1>2, <3>2
      <4>2. pc[j] = "waiting" /\ j # h
        BY <4>1, <1>2 DEF QueueExact
      <4> QED BY <1>1, <4>2 DEF Unlock
    <3> QED BY <3>1, <3>2
  <2> QED BY <2>1, <2>2 DEF QueueExact
<1>7. NoLostWakeup'
  BY <1>1, <1>2, <1>3 DEF NoLostWakeup
<1>8. \A j \in Stacks : pc'[j] = "waiting" => j \in Blocking
  BY <1>1
<1> QED BY <1>4, <1>5, <1>6, <1>7, <1>8

\* Every step keeps the invariant.
LEMMA NextInv == IInv /\ [Next]_vars => IInv'
<1> SUFFICES ASSUME IInv, [Next]_vars PROVE IInv'
  OBVIOUS
<1> USE DEF IInv
<1>1. ASSUME NEW k \in Stacks, Request(k) PROVE IInv'
  BY <1>1, StacksAssumption
     DEF Request, TypeOK, Places, Exclusive, QueueExact, NoLostWakeup
<1>2. ASSUME NEW k \in Stacks, Lock(k) PROVE IInv'
  BY <1>2 DEF Lock, TypeOK, Places, Exclusive, QueueExact, NoLostWakeup
<1>3. ASSUME NEW k \in Stacks, Wait(k) PROVE IInv'
  BY <1>3, WaitInv
<1>4. ASSUME NEW k \in Stacks, Fail(k) PROVE IInv'
  BY <1>4, StacksAssumption
     DEF Fail, TypeOK, Places, Exclusive, QueueExact, NoLostWakeup
<1>5. ASSUME NEW k \in Stacks, Unlock(k), queue = <<>> PROVE IInv'
  <2>1. /\ pc' = [pc EXCEPT ![k] = "done"] /\ pc[k] = "holding"
        /\ queue' = queue /\ lock' = FALSE
    BY <1>5 DEF Unlock
  <2>2. TypeOK'
    BY <2>1 DEF TypeOK, Places
  <2>3. Exclusive'
    BY <2>1 DEF TypeOK, Exclusive
  <2>4. QueueExact' /\ NoLostWakeup'
    BY <1>5, <2>1 DEF TypeOK, QueueExact, NoLostWakeup
  <2>5. \A j \in Stacks : pc'[j] = "waiting" => j \in Blocking
    BY <2>1 DEF TypeOK
  <2> QED BY <2>2, <2>3, <2>4, <2>5
<1>6. ASSUME NEW k \in Stacks, Unlock(k), queue # <<>> PROVE IInv'
  BY <1>6, HandoverInv
<1>7. ASSUME UNCHANGED vars PROVE IInv'
  BY <1>7 DEF vars, TypeOK, Exclusive, QueueExact, NoLostWakeup
<1> QED BY <1>1, <1>2, <1>3, <1>4, <1>5, <1>6, <1>7 DEF Next, Step, Done

\* dir_entry_lock and dir_entry_unlock keep every field of the lock in its
\* type, for any set of stacks.
THEOREM TypeCorrect == Spec => []TypeOK
<1>1. IInv => TypeOK
  BY DEF IInv
<1> QED BY <1>1, InitInv, NextInv, PTL DEF Spec

\* At most one stack at a time works on a directory entry.
THEOREM LockIsExclusive == Spec => []Exclusive
<1>1. IInv => Exclusive
  BY DEF IInv
<1> QED BY <1>1, InitInv, NextInv, PTL DEF Spec

\* The intrusive list never loses or duplicates a suspended stack.
THEOREM QueueIsExact == Spec => []QueueExact
<1>1. IInv => QueueExact
  BY DEF IInv
<1> QED BY <1>1, InitInv, NextInv, PTL DEF Spec

\* dir_entry_unlock never leaves a waiter behind a free entry without a
\* scheduled stack that will lock it.
THEOREM NoWakeupIsLost == Spec => []NoLostWakeup
<1>1. IInv => NoLostWakeup
  BY DEF IInv
<1> QED BY <1>1, InitInv, NextInv, PTL DEF Spec
=============================================================================
