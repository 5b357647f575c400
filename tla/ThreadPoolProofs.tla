-------------------------- MODULE ThreadPoolProofs --------------------------
(***************************************************************************)
(* The thread pool, for any number of workers, tasks and calls of          *)
(* pool_delete.  The counter of waiting tasks is right up to the tasks     *)
(* pool_delete lost, and one worker at most holds the lock; so what a      *)
(* worker has read under the lock is still true when it takes a task.      *)
(***************************************************************************)
EXTENDS ThreadPool, SequenceTheorems, TLAPS

\* cur_queue_size counts the waiting tasks and those pool_delete has lost.
SizeCounts == owner # "done" => size = Len(queue) + dropped

\* One worker at most holds queue_lock.
Holds(t)  == pc[t] \in {"sleepy", "check", "take"}
OneHolder == \A t, u \in Threads : Holds(t) /\ Holds(u) => t = u

\* What a worker knows while it holds the lock.
HolderKnows ==
  \A t \in Threads : /\ pc[t] = "check" => size # 0 \/ shutdown
                     /\ pc[t] = "take"  => size # 0

\* After a late task no worker is on its way to another.
LateIsLast == late > 0 => /\ late = 1 /\ shutdown
                          /\ \A t \in Threads : pc[t] # "take"

\* The list is gone only when all workers are.
DoneIsOver == owner = "done" => \A t \in Threads : pc[t] = "exited"

IInv == /\ TypeOK /\ AssertsHold /\ SizeCounts
        /\ OneHolder /\ HolderKnows /\ LateIsLast /\ DoneIsOver

-----------------------------------------------------------------------------
\* Taking one task off the list leaves a list that is one shorter.
LEMMA RemoveAtType ==
  ASSUME NEW q \in Seq(Tasks), NEW k \in 1 .. Len(q)
  PROVE  RemoveAt(q, k) \in Seq(Tasks) /\ Len(RemoveAt(q, k)) = Len(q) - 1
<1> DEFINE before == SubSeq(q, 1, k - 1)
           after  == SubSeq(q, k + 1, Len(q))
<1>1. \A i \in 1 .. Len(q) : q[i] \in Tasks  BY ElementOfSeq
<1>2. before \in Seq(Tasks) /\ Len(before) = k - 1
  <2>1. \A i \in 1 .. (k - 1) : q[i] \in Tasks  BY <1>1
  <2> QED BY <2>1, SubSeqProperties
<1>3. after \in Seq(Tasks) /\ Len(after) = Len(q) - k
  <2>1. \A i \in (k + 1) .. Len(q) : q[i] \in Tasks  BY <1>1
  <2>2. Len(q) \in Nat  BY LenProperties
  <2> QED BY <2>1, <2>2, SubSeqProperties
<1>4. RemoveAt(q, k) = before \o after  BY DEF RemoveAt
<1> HIDE DEF before, after
<1>5. before \o after \in Seq(Tasks) /\ Len(before \o after) = Len(before) + Len(after)
  BY <1>2, <1>3, ConcatProperties, Zenon
<1>6. Len(before) + Len(after) = Len(q) - 1
  <2>1. Len(q) \in Nat  BY LenProperties
  <2> QED BY <2>1, <1>2, <1>3
<1> QED BY <1>4, <1>5, <1>6, Zenon

\* pool_delete takes one task off the counter, and one task or two off the list.
LEMMA DeleteAtType ==
  ASSUME TypeOK, NEW k \in DOMAIN queue, DeleteAt(k),
         size = Len(queue) + dropped
  PROVE  /\ queue' \in Seq(Tasks) /\ size' \in Nat /\ dropped' \in Nat
         /\ size' = Len(queue') + dropped'
<1>1. queue \in Seq(Tasks) /\ size \in Nat /\ dropped \in Nat /\ Len(queue) \in Nat
  BY LenProperties DEF TypeOK
<1>2. k \in 1 .. Len(queue)  BY <1>1, LenProperties
<1>3. CASE k = 2
  <2>1. queue # <<>> /\ Len(queue) >= 2  BY <1>1, <1>2, <1>3
  <2>2. Tail(queue) \in Seq(Tasks) /\ Len(Tail(queue)) = Len(queue) - 1
    BY <1>1, <2>1, HeadTailProperties
  <2>3. Tail(queue) # <<>>
    <3>1. Len(Tail(queue)) # 0  BY <1>1, <2>1, <2>2
    <3> QED BY <3>1, EmptySeq, Zenon
  <2>4. Tail(Tail(queue)) \in Seq(Tasks) /\ Len(Tail(Tail(queue))) = Len(queue) - 2
    BY <1>1, <2>2, <2>3, HeadTailProperties
  <2>5. queue' = Tail(Tail(queue)) /\ size' = size - 1 /\ dropped' = dropped + 1
    BY <1>3 DEF DeleteAt
  <2>6. queue' \in Seq(Tasks) /\ Len(queue') = Len(queue) - 2
    BY <2>4, <2>5, Zenon
  <2>7. /\ size' \in Nat /\ dropped' \in Nat
        /\ size' = (Len(queue) - 2) + dropped'
    BY <1>1, <2>1, <2>5
  <2> QED BY <2>6, <2>7, Zenon
<1>4. CASE k # 2
  <2>1. RemoveAt(queue, k) \in Seq(Tasks) /\ Len(RemoveAt(queue, k)) = Len(queue) - 1
    BY <1>1, <1>2, RemoveAtType
  <2>2. queue' = RemoveAt(queue, k) /\ size' = size - 1 /\ dropped' = dropped
    BY <1>4 DEF DeleteAt
  <2> QED BY <1>1, <1>2, <2>1, <2>2
<1> QED BY <1>3, <1>4

-----------------------------------------------------------------------------
\* pool_init establishes the invariant.
LEMMA InitInv == Init => IInv
<1> SUFFICES ASSUME Init PROVE IInv  OBVIOUS
<1>1. <<>> \in Seq(Tasks) /\ Len(<<>>) = 0  BY EmptySeq
<1>2. TypeOK
  <2>1. queue \in Seq(Tasks)  BY <1>1, Zenon DEF Init
  <2>2. /\ added \in 0 .. TaskNum /\ deletes \in 0 .. MaxDeletes
        /\ size \in Nat /\ dropped \in Nat /\ late \in Nat
    BY PoolAssumption DEF Init
  <2>3. pc \in [Threads -> {"loop", "sleepy", "waiting", "woken",
                            "check", "take", "work", "exited"}]
    BY DEF Init
  <2> QED BY <2>1, <2>2, <2>3, Zenon DEF Init, TypeOK
<1>3. SizeCounts  BY <1>1 DEF Init, SizeCounts
<1>4. AssertsHold /\ LateIsLast /\ DoneIsOver
  BY DEF Init, AssertsHold, LateIsLast, DoneIsOver
<1>5. OneHolder /\ HolderKnows  BY DEF Init, Holds, OneHolder, HolderKnows
<1> QED BY <1>2, <1>3, <1>4, <1>5 DEF IInv

\* A step of a worker.
LEMMA WorkerInv ==
  ASSUME IInv, NEW t \in Threads, Worker(t) \/ Spurious(t)
  PROVE  IInv'
<1> USE DEF IInv
<1>1. ASSUME Test(t) PROVE IInv'
  <2> USE <1>1 DEF Test
  <2>1. TypeOK'  BY DEF TypeOK
  <2>2. OneHolder'  BY DEF OneHolder, Holds, LockFree, TypeOK
  <2>3. HolderKnows'  BY DEF HolderKnows, Idle, LockFree, TypeOK
  <2>4. AssertsHold' /\ SizeCounts'  BY DEF AssertsHold, SizeCounts
  <2>5. LateIsLast' /\ DoneIsOver'  BY DEF LateIsLast, DoneIsOver, TypeOK
  <2> QED BY <2>1, <2>2, <2>3, <2>4, <2>5
<1>2. ASSUME Check(t) PROVE IInv'
  <2> USE <1>2 DEF Check
  <2>1. TypeOK'  BY DEF TypeOK
  <2>2. OneHolder'  BY DEF OneHolder, Holds, TypeOK
  <2>3. HolderKnows'  BY DEF HolderKnows, Leaves, TypeOK
  <2>4. AssertsHold' /\ SizeCounts'  BY DEF AssertsHold, SizeCounts
  <2>5. LateIsLast' /\ DoneIsOver'  BY DEF LateIsLast, DoneIsOver, Leaves, TypeOK
  <2> QED BY <2>1, <2>2, <2>3, <2>4, <2>5
<1>3. ASSUME Take(t), size # 0, queue # <<>> PROVE IInv'
  <2>1. /\ queue' = Tail(queue) /\ size' = size - 1
        /\ pc' = [pc EXCEPT ![t] = "work"]
        /\ late' = late + (IF shutdown THEN 1 ELSE 0)
        /\ UNCHANGED <<shutdown, owner, added, deletes, dropped, failed>>
        /\ pc[t] = "take"
    BY <1>3 DEF Take
  <2>2. queue' \in Seq(Tasks) /\ Len(queue') = Len(queue) - 1
    BY <1>3, <2>1, HeadTailProperties DEF TypeOK
  <2>3. late = 0 /\ late' = (IF shutdown THEN 1 ELSE 0)
    BY <2>1 DEF LateIsLast, TypeOK
  <2>4. TypeOK'  BY <1>3, <2>1, <2>2, <2>3 DEF TypeOK
  <2>5. AssertsHold' /\ DoneIsOver'
    BY <2>1 DEF AssertsHold, DoneIsOver, TypeOK
  <2>6. SizeCounts'
    <3>1. owner # "done"  BY <2>1 DEF DoneIsOver
    <3>2. Len(queue) \in Nat  BY LenProperties DEF TypeOK
    <3> QED BY <2>1, <2>2, <3>1, <3>2 DEF SizeCounts, TypeOK
  <2>7. OneHolder'  BY <2>1 DEF OneHolder, Holds, TypeOK
  <2>8. \A u \in Threads : pc'[u] \notin {"check", "take"}
    BY <2>1 DEF OneHolder, Holds, TypeOK
  <2>9. HolderKnows' /\ LateIsLast'
    BY <2>1, <2>3, <2>8 DEF HolderKnows, LateIsLast
  <2> QED BY <2>4, <2>5, <2>6, <2>7, <2>9
<1>4. ASSUME Take(t), size = 0 \/ queue = <<>> PROVE IInv'
  <2>1. /\ UNCHANGED <<queue, size, shutdown, pc, owner, added, deletes, dropped, late>>
        /\ failed' = "assert" /\ pc[t] = "take"
    BY <1>4 DEF Take
  <2>2. size # 0 /\ size = Len(queue) + dropped
    BY <2>1 DEF HolderKnows, SizeCounts, DoneIsOver
  <2>3. queue = <<>>  BY <1>4, <2>2
  <2>4. Len(queue) = 0  BY <2>3
  <2>5. dropped > 0  BY <2>2, <2>4 DEF TypeOK
  <2> QED BY <2>1, <2>5 DEF TypeOK, AssertsHold, SizeCounts, OneHolder, Holds,
                            HolderKnows, LateIsLast, DoneIsOver
<1>5. ASSUME Sleep(t) \/ Work(t) \/ Spurious(t) PROVE IInv'
  <2>1. PICK p \in {"waiting", "loop", "woken"} : pc' = [pc EXCEPT ![t] = p]
    BY <1>5 DEF Sleep, Work, Spurious
  <2>2. UNCHANGED <<queue, size, shutdown, owner, added, deletes, dropped, late, failed>>
    BY <1>5 DEF Sleep, Work, Spurious
  <2>3. pc[t] # "exited"  BY <1>5 DEF Sleep, Work, Spurious
  <2>4. TypeOK'  BY <2>1, <2>2 DEF TypeOK
  <2>5. OneHolder' /\ HolderKnows'
    BY <2>1, <2>2 DEF OneHolder, Holds, HolderKnows, TypeOK
  <2>6. AssertsHold' /\ SizeCounts'  BY <2>2 DEF AssertsHold, SizeCounts
  <2>7. LateIsLast' /\ DoneIsOver'
    BY <2>1, <2>2, <2>3 DEF LateIsLast, DoneIsOver, TypeOK
  <2> QED BY <2>4, <2>5, <2>6, <2>7
<1> QED BY <1>1, <1>2, <1>3, <1>4, <1>5 DEF Worker

\* A step of the owner that wakes workers: what they have to know stays known.
LEMMA WakeInv ==
  ASSUME IInv, Signal \/ Broadcast
  PROVE  IInv'
<1> USE DEF IInv
<1>1. UNCHANGED <<queue, size, shutdown, added, deletes, dropped, late, failed>>
  BY DEF Signal, Broadcast
<1>2. owner \in {"signal", "broadcast"} /\ owner' \in {"idle", "join"}
  BY DEF Signal, Broadcast
<1>3. \A t \in Threads : pc'[t] = pc[t] \/ pc'[t] = "woken"
  BY DEF Signal, Broadcast, TypeOK
<1>4. pc' \in [Threads -> {"loop", "sleepy", "waiting", "woken",
                           "check", "take", "work", "exited"}]
  BY DEF Signal, Broadcast, TypeOK
<1>5. TypeOK'  BY <1>1, <1>2, <1>4 DEF TypeOK
<1>6. OneHolder' /\ HolderKnows'
  BY <1>1, <1>3 DEF OneHolder, Holds, HolderKnows
<1>7. AssertsHold' /\ SizeCounts' /\ DoneIsOver'
  BY <1>1, <1>2 DEF AssertsHold, SizeCounts, DoneIsOver
<1>8. LateIsLast'  BY <1>1, <1>3 DEF LateIsLast
<1> QED BY <1>5, <1>6, <1>7, <1>8

\* A step of the owner that changes the pool.
LEMMA OwnerInv ==
  ASSUME IInv, failed = "no", Add \/ Delete \/ Destroy \/ Free
  PROVE  IInv'
<1> USE DEF IInv
<1>1. UNCHANGED pc  BY DEF Add, Delete, Destroy, Free
<1>2. UNCHANGED late  BY DEF Add, Delete, Destroy, Free
<1>3. OneHolder'  BY <1>1 DEF OneHolder, Holds
<1>4. CASE Add
  <2> USE <1>4 DEF Add
  <2>1. added' \in Tasks /\ added' \in 0 .. TaskNum
    BY PoolAssumption DEF TypeOK, Tasks, MoreTasks
  <2>2. queue' \in Seq(Tasks) /\ Len(queue') = Len(queue) + 1
    BY <2>1, AppendProperties DEF TypeOK
  <2>3. TypeOK'  BY <2>1, <2>2 DEF TypeOK
  <2>4. SizeCounts'
    <3>1. Len(queue) \in Nat  BY LenProperties DEF TypeOK
    <3> QED BY <2>2, <3>1 DEF SizeCounts, TypeOK
  <2>5. HolderKnows'  BY <1>1 DEF HolderKnows, LockFree
  <2>6. AssertsHold' /\ LateIsLast' /\ DoneIsOver'
    BY DEF AssertsHold, LateIsLast, DoneIsOver
  <2> QED BY <1>3, <2>3, <2>4, <2>5, <2>6
<1>5. CASE Delete
  <2> USE <1>5 DEF Delete
  <2>1. deletes' \in 0 .. MaxDeletes  BY PoolAssumption DEF TypeOK
  <2>2. size = Len(queue) + dropped  BY DEF SizeCounts
  <2>3. /\ queue' \in Seq(Tasks) /\ size' \in Nat /\ dropped' \in Nat
        /\ size' = Len(queue') + dropped'
    BY <2>2, DeleteAtType DEF TypeOK
  <2>4. failed' \in {"no", "null"}  BY DEF DeleteAt
  <2>5. TypeOK'  BY <2>1, <2>3, <2>4 DEF TypeOK
  <2>6. SizeCounts'  BY <2>3 DEF SizeCounts
  <2>7. HolderKnows'  BY <1>1 DEF HolderKnows, LockFree
  <2>8. AssertsHold'  BY <2>4 DEF AssertsHold
  <2>9. LateIsLast' /\ DoneIsOver'  BY DEF LateIsLast, DoneIsOver
  <2> QED BY <1>3, <2>5, <2>6, <2>7, <2>8, <2>9
<1>6. CASE Destroy
  <2> USE <1>6 DEF Destroy
  <2>1. TypeOK'  BY DEF TypeOK
  <2>2. AssertsHold' /\ SizeCounts'  BY DEF AssertsHold, SizeCounts
  <2>3. HolderKnows' /\ LateIsLast' /\ DoneIsOver'
    BY DEF HolderKnows, LateIsLast, DoneIsOver
  <2> QED BY <1>3, <2>1, <2>2, <2>3
<1>7. CASE Free
  <2> USE <1>7 DEF Free
  <2>1. TypeOK'  BY DEF TypeOK
  <2>2. AssertsHold' /\ SizeCounts'  BY DEF AssertsHold, SizeCounts
  <2>3. HolderKnows' /\ LateIsLast' /\ DoneIsOver'
    BY DEF HolderKnows, LateIsLast, DoneIsOver
  <2> QED BY <1>3, <2>1, <2>2, <2>3
<1> QED BY <1>4, <1>5, <1>6, <1>7

\* Every step, of a worker, a call or its end, preserves it.
LEMMA StepInv == IInv /\ [Next]_poolVars => IInv'
<1> SUFFICES ASSUME IInv, [Next]_poolVars PROVE IInv'  OBVIOUS
<1>1. ASSUME NEW t \in Threads, Worker(t) \/ (failed = "no" /\ Spurious(t)) PROVE IInv'
  BY <1>1, WorkerInv
<1>2. CASE Owner  BY <1>2, WakeInv, OwnerInv DEF Owner
<1>3. CASE Calls  BY <1>3, OwnerInv DEF Calls
<1>4. CASE UNCHANGED poolVars
  BY <1>4 DEF poolVars, IInv, TypeOK, AssertsHold, SizeCounts, OneHolder, Holds,
              HolderKnows, LateIsLast, DoneIsOver
<1> QED BY <1>1, <1>2, <1>3, <1>4 DEF Next

\* The invariant holds in every reachable state.
LEMMA Invariant == Spec => []IInv
<1> QED BY InitInv, StepInv, PTL DEF Spec

\* The pool's variables keep their types; cur_queue_size never goes below 0.
THEOREM PoolTypeCorrect == Spec => []TypeOK
<1>1. IInv => TypeOK  BY DEF IInv
<1> QED BY <1>1, Invariant, PTL

\* Without a call of pool_delete that hits the second waiting task, no worker
\* ever finds the list empty or the counter 0 when it takes a task.
THEOREM AssertionsHold == Spec => []AssertsHold
<1>1. IInv => AssertsHold  BY DEF IInv
<1> QED BY <1>1, Invariant, PTL

\* Once pool_destroy has set shutdown, one more task is taken at most.
THEOREM OneTaskAfterShutdown == Spec => []OneTaskLate
<1>1. IInv => OneTaskLate  BY DEF IInv, LateIsLast, OneTaskLate, TypeOK
<1> QED BY <1>1, Invariant, PTL

=============================================================================
