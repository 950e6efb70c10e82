----------------------------- MODULE Coherence -----------------------------
(***************************************************************************)
(* What the memory hierarchy promises to the processor cores: for every    *)
(* block, one cache with write permission or many with read permission,    *)
(* and no cache that can read anything but the value stored last.          *)
(*                                                                         *)
(* Nmoesi implements this specification on hierarchies whose first-level   *)
(* caches are joined by one directory.  It abstracts what the handlers of  *)
(* src/src/mem-system/nmoesi-protocol.c do to the blocks of those caches.  *)
(***************************************************************************)
EXTENDS Naturals

CONSTANTS
  Caches,    \* the caches the cores access
  Blocks     \* block addresses

VARIABLES
  perm,      \* perm[c][b]: what the core of c may do with its copy of b:
             \* "none", "read" or "write"
  latest     \* latest[c][b]: the copy has the value stored last

vars == <<perm, latest>>

Init ==
  /\ perm = [c \in Caches |-> [b \in Blocks |-> "none"]]
  /\ latest = [c \in Caches |-> [b \in Blocks |-> FALSE]]

NoWriter(c, b) == \A d \in Caches \ {c} : perm[d][b] # "write"
Alone(c, b)    == \A d \in Caches \ {c} : perm[d][b] = "none"

\* LOAD_MISS with a shared block.
FillShared(c, b) ==
  /\ perm[c][b] = "none" /\ NoWriter(c, b)
  /\ perm' = [perm EXCEPT ![c][b] = "read"]
  /\ latest' = [latest EXCEPT ![c][b] = TRUE]

\* LOAD_MISS with a block nobody shares.
FillExclusive(c, b) ==
  /\ perm[c][b] = "none" /\ Alone(c, b)
  /\ perm' = [perm EXCEPT ![c][b] = "write"]
  /\ latest' = [latest EXCEPT ![c][b] = TRUE]

\* STORE_UNLOCK: the store completes and makes any other copy an old one.
Store(c, b) ==
  /\ Alone(c, b)
  /\ perm' = [perm EXCEPT ![c][b] = "write"]
  /\ latest' = [d \in Caches |-> [latest[d] EXCEPT ![b] = (d = c)]]

\* READ_REQUEST_DOWNUP_FINISH: another cache is going to read.
Downgrade(c, b) ==
  /\ perm[c][b] = "write"
  /\ perm' = [perm EXCEPT ![c][b] = "read"]
  /\ UNCHANGED latest

\* WRITE_REQUEST_DOWNUP or an eviction.
Drop(c, b) ==
  /\ perm[c][b] # "none"
  /\ perm' = [perm EXCEPT ![c][b] = "none"]
  /\ latest' = [latest EXCEPT ![c][b] = FALSE]

Next == \E c \in Caches, b \in Blocks :
          \/ FillShared(c, b) \/ FillExclusive(c, b) \/ Store(c, b)
          \/ Downgrade(c, b) \/ Drop(c, b)

Spec == Init /\ [][Next]_vars
=============================================================================
