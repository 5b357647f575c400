----------------------------- MODULE ThreadPool -----------------------------
(***************************************************************************)
(* The thread pool of source/udpbase.c: the workers of thread_routine, and *)
(* the thread that owns the TaskPool and calls InitTask, pool_delete and   *)
(* CloseTask.  queue_lock guards the list of waiting tasks; the owner      *)
(* signals queue_ready, and sets shutdown, without holding it.             *)
(***************************************************************************)
EXTENDS Integers, Sequences, SequencesExt

CONSTANTS Threads,     \* pool->threadid: max_thread_num of them
          TaskNum,     \* task->taskNum; tasks are numbered from 1
          MaxDeletes   \* bound: calls of pool_delete

ASSUME PoolAssumption == /\ TaskNum \in Nat
                         /\ MaxDeletes \in Nat

VARIABLES queue,     \* pool->queue_head: the list of waiting tasks
          size,      \* pool->cur_queue_size
          shutdown,  \* pool->shutdown
          pc,        \* where each worker is in thread_routine
          owner,     \* where the owner is
          added,     \* tasks given to pool_add_worker
          deletes,   \* calls of pool_delete
          dropped,   \* number of tasks pool_delete lost beside the one it was asked for
          late,      \* tasks taken from the list after shutdown
          failed     \* what stopped the program: an assertion, a null pointer

poolVars == <<queue, size, shutdown, pc, owner, added, deletes, dropped, late, failed>>

Tasks == 1..TaskNum

-----------------------------------------------------------------------------
\* Mutant of LockFree: a worker gives the lock up before it joins the waiters.
LockFreeEarly == \A t \in Threads : pc[t] \notin {"check", "take"}

\* nobody holds queue_lock: the owner holds it for a single step only
LockFree == \A t \in Threads : pc[t] \notin {"sleepy", "check", "take"}

\* Mutant of Idle: a woken worker does not look at the queue again.
IdleIf(t) == size = 0 /\ ~shutdown /\ pc[t] # "woken"

\* the condition of the while loop around pthread_cond_wait
Idle(t) == size = 0 /\ ~shutdown

\* A worker has the lock, at the top of its loop or coming back from the wait.
Test(t) ==
  /\ pc[t] \in {"loop", "woken"} /\ LockFree
  /\ pc' = [pc EXCEPT ![t] = IF Idle(t) THEN "sleepy" ELSE "check"]
  /\ UNCHANGED <<queue, size, shutdown, owner, added, deletes, dropped, late, failed>>

\* pthread_cond_wait: unlock and join the waiters in one step.
Sleep(t) ==
  /\ pc[t] = "sleepy"
  /\ pc' = [pc EXCEPT ![t] = "waiting"]
  /\ UNCHANGED <<queue, size, shutdown, owner, added, deletes, dropped, late, failed>>

\* Mutant of Leaves: the worker first runs the tasks that still wait.
LeavesEmpty == shutdown /\ size = 0

\* the pool is about to be destroyed
Leaves == shutdown

\* The second look at shutdown, which may have changed since Test.
Check(t) ==
  /\ pc[t] = "check"
  /\ pc' = [pc EXCEPT ![t] = IF Leaves THEN "exited" ELSE "take"]
  /\ UNCHANGED <<queue, size, shutdown, owner, added, deletes, dropped, late, failed>>

\* Take the head of the list and unlock, or fail one of the two assertions.
Take(t) ==
  /\ pc[t] = "take"
  /\ IF size # 0 /\ queue # <<>>
       THEN /\ queue' = Tail(queue) /\ size' = size - 1
            /\ pc' = [pc EXCEPT ![t] = "work"]
            /\ late' = late + (IF shutdown THEN 1 ELSE 0)
            /\ UNCHANGED failed
       ELSE failed' = "assert" /\ UNCHANGED <<queue, size, pc, late>>
  /\ UNCHANGED <<shutdown, owner, added, deletes, dropped>>

\* The task's function returns.
Work(t) ==
  /\ pc[t] = "work"
  /\ pc' = [pc EXCEPT ![t] = "loop"]
  /\ UNCHANGED <<queue, size, shutdown, owner, added, deletes, dropped, late, failed>>

\* pthread_cond_wait may return without a signal.
Spurious(t) ==
  /\ pc[t] = "waiting"
  /\ pc' = [pc EXCEPT ![t] = "woken"]
  /\ UNCHANGED <<queue, size, shutdown, owner, added, deletes, dropped, late, failed>>

-----------------------------------------------------------------------------
\* Mutant of MoreTasks: the loop of InitTask runs once too often.
MoreTasksOver == added <= TaskNum

\* the loop of InitTask
MoreTasks == added < TaskNum

\* InitTask, AddTask: the next task joins the list, under the lock.
Add ==
  /\ owner = "idle" /\ ~shutdown /\ MoreTasks /\ LockFree
  /\ added' = added + 1
  /\ queue' = Append(queue, added') /\ size' = size + 1
  /\ owner' = "signal"
  /\ UNCHANGED <<shutdown, pc, deletes, dropped, late, failed>>

\* pthread_cond_signal, after the unlock: one waiter, if there is any.
Signal ==
  /\ owner = "signal" /\ owner' = "idle"
  /\ \/ \E t \in Threads : pc[t] = "waiting" /\ pc' = [pc EXCEPT ![t] = "woken"]
     \/ (\A t \in Threads : pc[t] # "waiting") /\ UNCHANGED pc
  /\ UNCHANGED <<queue, size, shutdown, added, deletes, dropped, late, failed>>

\* pool_delete's tests last == head hold for the second task too: queue_head
\* moves past both, only the second is freed, and only one is counted.
DeleteAt(k) ==
  /\ queue' = IF k = 2 THEN Tail(Tail(queue)) ELSE RemoveAt(queue, k)
  /\ dropped' = IF k = 2 THEN dropped + 1 ELSE dropped
  /\ size' = size - 1
  /\ UNCHANGED failed

\* pool_delete: a task that waits, one that does not, or no task waits at all.
\* No code of the repository calls it; the owner may.
Delete ==
  /\ owner = "idle" /\ ~shutdown /\ deletes < MaxDeletes /\ LockFree
  /\ deletes' = deletes + 1
  /\ \/ \E k \in DOMAIN queue : DeleteAt(k)
     \/ queue # <<>> /\ UNCHANGED <<queue, size, dropped, failed>>
     \/ queue = <<>> /\ failed' = "null" /\ UNCHANGED <<queue, size, dropped>>
  /\ UNCHANGED <<shutdown, pc, owner, added, late>>

\* CloseTask, pool_destroy: shutdown is set without the lock.
Destroy ==
  /\ owner = "idle" /\ ~shutdown
  /\ shutdown' = TRUE /\ owner' = "broadcast"
  /\ UNCHANGED <<queue, size, pc, added, deletes, dropped, late, failed>>

\* Mutant of Woken: pthread_cond_signal in the place of the broadcast.
WokenOne(t) == pc[t] = "waiting" /\ t = CHOOSE u \in Threads : TRUE

\* the workers that the broadcast wakes
Woken(t) == pc[t] = "waiting"

\* pthread_cond_broadcast
Broadcast ==
  /\ owner = "broadcast" /\ owner' = "join"
  /\ pc' = [t \in Threads |-> IF Woken(t) THEN "woken" ELSE pc[t]]
  /\ UNCHANGED <<queue, size, shutdown, added, deletes, dropped, late, failed>>

\* All workers have been joined: the list, the pool and the tasks' objects go.
Free ==
  /\ owner = "join" /\ \A t \in Threads : pc[t] = "exited"
  /\ owner' = "done" /\ queue' = <<>>
  /\ UNCHANGED <<size, shutdown, pc, added, deletes, dropped, late, failed>>

-----------------------------------------------------------------------------
\* pool_init: the threads are about to take the lock for the first time.
Init ==
  /\ queue = <<>> /\ size = 0 /\ shutdown = FALSE
  /\ pc = [t \in Threads |-> "loop"]
  /\ owner = "idle" /\ added = 0 /\ deletes = 0 /\ dropped = 0
  /\ late = 0 /\ failed = "no"

Worker(t) == failed = "no" /\ (Test(t) \/ Sleep(t) \/ Check(t) \/ Take(t) \/ Work(t))

\* the steps by which a call of the owner comes to its end
Owner == failed = "no" /\ (Signal \/ Broadcast \/ Free)

\* the calls the owner may make
Calls == failed = "no" /\ (Add \/ Delete \/ Destroy)

Next == \/ \E t \in Threads : Worker(t) \/ (failed = "no" /\ Spurious(t))
        \/ Owner \/ Calls

\* The threads run, a task returns, and the mutex is fair among its waiters.
Spec == Init /\ [][Next]_poolVars /\ WF_poolVars(Owner)
             /\ \A t \in Threads : SF_poolVars(Worker(t))

-----------------------------------------------------------------------------
\* The variables have their types.
TypeOK ==
  /\ queue \in Seq(Tasks) /\ size \in Nat
  /\ shutdown \in BOOLEAN
  /\ pc \in [Threads -> {"loop", "sleepy", "waiting", "woken",
                         "check", "take", "work", "exited"}]
  /\ owner \in {"idle", "signal", "broadcast", "join", "done"}
  /\ added \in 0..TaskNum /\ deletes \in 0..MaxDeletes
  /\ dropped \in Nat /\ late \in Nat
  /\ failed \in {"no", "assert", "null"}

\* The assertions of thread_routine (udpbase.c:2245-2246) can only fail after
\* pool_delete has dropped a task it was not asked for.
AssertsHold == failed = "assert" => dropped > 0

\* pool_destroy (udpbase.c:2124) promises that no waiting task is run any
\* more: one is, at most, by the worker that holds the lock meanwhile.
OneTaskLate == late <= 1

\* A task that waits is taken, if the pool lasts: no signal is missed although
\* pool_add_worker sends it after the unlock.
EveryTaskTaken ==
  \A k \in Tasks : k \in Range(queue) ~>
                     (k \notin Range(queue) \/ shutdown \/ failed # "no")

\* pool_destroy returns, when no worker is between its look at shutdown and
\* pthread_cond_wait while the broadcast is due.
PoolDestroyReturns ==
  (owner = "broadcast" /\ \A t \in Threads : pc[t] # "sleepy")
    ~> (owner = "done" \/ failed # "no")
=============================================================================
