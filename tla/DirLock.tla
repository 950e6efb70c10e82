------------------------------ MODULE DirLock ------------------------------
(***************************************************************************)
(* The lock of one directory entry (struct dir_lock_t): dir_entry_lock and *)
(* dir_entry_unlock of src/src/mem-system/directory.c, as FIND_AND_LOCK    *)
(* and the handlers that unlock an entry use them.  The same code guards   *)
(* the prefetch slots (dir_pref_entry_lock and dir_pref_entry_unlock).     *)
(*                                                                         *)
(* A stack tries to lock the entry.  If it is locked, a blocking stack is  *)
(* queued and a non-blocking one returns an error.  The holder unlocks the *)
(* entry and schedules the first waiter for the next cycle, which then     *)
(* tries again: it is not given the lock, and any other stack that tries   *)
(* in between gets it first.                                               *)
(***************************************************************************)
EXTENDS LockQueue

CONSTANTS
  Stacks,    \* find_and_lock stacks: tuples whose first element is their id
  Blocking   \* the stacks with 'blocking' set

ASSUME StacksAssumption ==
  /\ \A k \in Stacks : k \in Seq(Nat) /\ k # <<>>
  /\ Blocking \subseteq Stacks

VARIABLES
  lock,      \* dir_lock->lock
  queue,     \* dir_lock->lock_queue and the dir_lock_next links
  pc         \* pc[k]: what stack k is doing

vars == <<lock, queue, pc>>

\* "new": not created yet; "trying": its FIND_AND_LOCK event is scheduled;
\* "waiting": suspended in the queue; "holding": has the entry locked;
\* "done": has unlocked the entry or failed to lock it.
Places == {"new", "trying", "waiting", "holding", "done"}

Init ==
  /\ lock = FALSE
  /\ queue = <<>>
  /\ pc = [k \in Stacks |-> "new"]

\* A handler calls find_and_lock.
Request(k) ==
  /\ pc[k] = "new"
  /\ pc' = [pc EXCEPT ![k] = "trying"]
  /\ UNCHANGED <<lock, queue>>

\* Bug: the entry is not marked as locked.
LockUnmarked(k) ==
  /\ pc[k] = "trying" /\ ~lock
  /\ pc' = [pc EXCEPT ![k] = "holding"]
  /\ UNCHANGED <<lock, queue>>

\* dir_entry_lock on a free entry.
Lock(k) ==
  /\ pc[k] = "trying" /\ ~lock
  /\ lock' = TRUE
  /\ pc' = [pc EXCEPT ![k] = "holding"]
  /\ UNCHANGED queue

\* Bug: a non-blocking stack is queued too.
WaitAnyone(k) ==
  /\ pc[k] = "trying" /\ lock
  /\ queue' = Enqueue(queue, k)
  /\ pc' = [pc EXCEPT ![k] = "waiting"]
  /\ UNCHANGED lock

\* dir_entry_lock on a locked entry.
Wait(k) ==
  /\ pc[k] = "trying" /\ lock /\ k \in Blocking
  /\ queue' = Enqueue(queue, k)
  /\ pc' = [pc EXCEPT ![k] = "waiting"]
  /\ UNCHANGED lock

\* FIND_AND_LOCK_PORT of a non-blocking stack on a locked entry.
Fail(k) ==
  /\ pc[k] = "trying" /\ lock /\ k \notin Blocking
  /\ pc' = [pc EXCEPT ![k] = "done"]
  /\ UNCHANGED <<lock, queue>>

\* Bug: the waiter is taken off the queue and never scheduled.
UnlockForgetsWaiter(k) ==
  /\ pc[k] = "holding"
  /\ lock' = FALSE
  /\ queue' = IF queue = <<>> THEN queue ELSE Tail(queue)
  /\ pc' = [pc EXCEPT ![k] = "done"]

\* dir_entry_unlock: free the entry and schedule the first waiter.
Unlock(k) ==
  /\ pc[k] = "holding"
  /\ lock' = FALSE
  /\ \/ /\ queue = <<>>
        /\ pc' = [pc EXCEPT ![k] = "done"]
        /\ UNCHANGED queue
     \/ /\ queue # <<>>
        /\ pc' = [pc EXCEPT ![k] = "done", ![Head(queue)] = "trying"]
        /\ queue' = Tail(queue)

Step(k) == Lock(k) \/ Wait(k) \/ Fail(k) \/ Unlock(k)

Done == /\ \A k \in Stacks : pc[k] = "done"
        /\ UNCHANGED vars

Next == (\E k \in Stacks : Request(k) \/ Step(k)) \/ Done

Spec == Init /\ [][Next]_vars

\* Scheduled events are executed, and every handler that locks an entry goes
\* on to unlock it.
FairSpec == Spec /\ \A k \in Stacks : WF_vars(Step(k))

-----------------------------------------------------------------------------
(* Properties *)

\* The lock flag and the places have their types, and only blocking stacks
\* are ever queued.
TypeOK ==
  /\ lock \in BOOLEAN
  /\ queue \in Seq(Blocking)
  /\ pc \in [Stacks -> Places]

\* dir_entry_lock hands the entry to one stack at a time, and the flag says
\* whether somebody has it.
Exclusive ==
  /\ \A j, k \in Stacks : pc[j] = "holding" /\ pc[k] = "holding" => j = k
  /\ lock <=> \E k \in Stacks : pc[k] = "holding"

\* The links of dir_lock_next hold every suspended stack exactly once, and
\* no stack that is scheduled, running or gone.
QueueExact ==
  /\ \A k \in Stacks :
       pc[k] = "waiting" <=> \E i \in 1..Len(queue) : queue[i] = k
  /\ \A i, j \in 1..Len(queue) : queue[i] = queue[j] => i = j

\* No lost wakeup: while somebody is queued the entry is locked, and will be
\* unlocked, or a stack is scheduled that will lock it.
NoLostWakeup ==
  queue # <<>> => lock \/ \E k \in Blocking : pc[k] = "trying"

\* Every stack that tries to lock the entry ends, however the attempts and
\* the wakeups interleave.
AllServed == \A k \in Stacks : pc[k] = "trying" ~> pc[k] = "done"

\* "Stack goes in front or middle of queue" (directory.c:355): the queue is
\* ordered by age, so that the oldest access is woken first.
OldestFirst ==
  \A i, j \in 1..Len(queue) : i < j => queue[i][1] <= queue[j][1]
=============================================================================
