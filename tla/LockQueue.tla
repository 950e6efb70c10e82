----------------------------- MODULE LockQueue -----------------------------
(***************************************************************************)
(* The waiting queue of a directory lock: the list that dir_entry_lock of  *)
(* src/src/mem-system/directory.c threads through 'dir_lock_next'.  A      *)
(* waiter k is a non-empty tuple and k[1] is the id of its access, which   *)
(* grows with every access, so that a smaller id is an older access.       *)
(***************************************************************************)
EXTENDS Integers, FiniteSets, SequencesExt

\* The walk over the list passes the waiters older than k, but never the last
\* one, and stops at the next.
Passed(q, k) == {j \in 1..Len(q) - 1 : \A i \in 1..j : q[i][1] < k[1]}
LinkAfter(q, k) == Cardinality(Passed(q, k)) + 1

\* Bug: the new waiter replaces the rest of the list instead of preceding it.
EnqueueDropsRest(q, k) ==
  IF q = <<>> THEN <<k>> ELSE Append(SubSeq(q, 1, LinkAfter(q, k)), k)

\* The list with k linked behind the waiter where the walk stopped.
Enqueue(q, k) ==
  IF q = <<>> THEN <<k>> ELSE InsertAt(q, LinkAfter(q, k) + 1, k)
=============================================================================
