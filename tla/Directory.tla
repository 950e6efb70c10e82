----------------------------- MODULE Directory -----------------------------
(***************************************************************************)
(* The directory entries of one way of a module (struct dir_entry_t of     *)
(* src/src/mem-system/directory.c), one per sub-block, and what the        *)
(* handlers of nmoesi-protocol.c do to them while they hold the lock of    *)
(* the way.  An entry records the owner and the sharers of its sub-block   *)
(* among the modules above, and counts the sharers in num_sharers.         *)
(*                                                                         *)
(* A module above requests one of its own blocks, which spans one or more  *)
(* sub-blocks: Spans[n] is the set of them.  Nmoesi models one sub-block   *)
(* per block and the sharers as a set, and takes the cardinality of the    *)
(* set for num_sharers; CountExact is what justifies it.                   *)
(***************************************************************************)
EXTENDS Integers, FiniteSets

CONSTANTS
  Nodes,      \* nodes of the network above the module (num_nodes)
  SubBlocks,  \* sub-blocks of a block (zsize)
  Spans,      \* Spans[n]: the sets of sub-blocks that are blocks of node n
  None        \* DIR_ENTRY_OWNER_NONE

ASSUME DirectoryAssumption ==
  /\ IsFiniteSet(Nodes) /\ None \notin Nodes
  /\ Spans \in [Nodes -> SUBSET (SUBSET SubBlocks)]

VARIABLES
  entry,      \* entry[z]: directory entry of sub-block z
  only        \* module for which INVALIDATE spared the way, while a write
              \* request of it holds the lock; None otherwise

vars == <<entry, only>>

Entries == [owner : Nodes \cup {None}, sharer : SUBSET Nodes,
            num_sharers : 0..Cardinality(Nodes)]

\* dir_create
Init ==
  /\ entry = [z \in SubBlocks |->
                [owner |-> None, sharer |-> {}, num_sharers |-> 0]]
  /\ only = None

\* Bug: the counter grows although the sharer was already set.
SetSharerTwice(e, n) ==
  [e EXCEPT !.sharer = @ \cup {n}, !.num_sharers = @ + 1]

dir_entry_set_sharer(e, n) ==
  IF n \in e.sharer THEN e
  ELSE [e EXCEPT !.sharer = @ \cup {n}, !.num_sharers = @ + 1]

\* Bug: the counter shrinks although n was no sharer.
ClearSharerUnchecked(e, n) ==
  [e EXCEPT !.sharer = @ \ {n}, !.num_sharers = @ - 1]

dir_entry_clear_sharer(e, n) ==
  IF n \in e.sharer
  THEN [e EXCEPT !.sharer = @ \ {n}, !.num_sharers = @ - 1]
  ELSE e

dir_entry_set_owner(e, n) == [e EXCEPT !.owner = n]

\* Clear sharer n, and the owner if it is n.
Forget(e, n) ==
  LET f == dir_entry_clear_sharer(e, n)
  IN IF e.owner = n THEN dir_entry_set_owner(f, None) ELSE f

\* READ_REQUEST_UPDOWN_FINISH for block g of node n.  'below' is the 'shared'
\* that the request of this module returned with, and 'retain' says that an
\* owner above keeps the block in state O.
ReadEntry(n, g, below, retain) ==
  LET kept(z)  == IF retain \/ entry[z].owner = n THEN entry[z]
                  ELSE dir_entry_set_owner(entry[z], None)
      added(z) == IF z \in g THEN dir_entry_set_sharer(kept(z), n)
                  ELSE kept(z)
      shared   == \E z \in g : added(z).num_sharers > 1 \/ below
  IN [z \in SubBlocks |->
        IF z \in g /\ ~shared THEN dir_entry_set_owner(added(z), n)
                              ELSE added(z)]

ReadGrant(n, g, below, retain) ==
  /\ only = None
  /\ \A z \in g : entry[z].owner # n
  /\ retain => \E z \in SubBlocks : entry[z].owner \notin {None, n}
  /\ entry' = ReadEntry(n, g, below, retain)
  /\ UNCHANGED only

\* Bug: the requester's own copy stays recorded, the others' are not cleared.
InvalidateNothing(except) ==
  /\ only = None
  /\ only' = except
  /\ UNCHANGED entry

\* INVALIDATE: forget all sharers but 'except' (None on an eviction) and send
\* them write requests.
Invalidate(except) ==
  /\ only = None
  /\ entry' = [z \in SubBlocks |->
       LET outs == entry[z].sharer \ {except}
       IN [owner       |-> IF entry[z].owner \in outs THEN None
                           ELSE entry[z].owner,
           sharer      |-> entry[z].sharer \ outs,
           num_sharers |-> entry[z].num_sharers - Cardinality(outs)]]
  /\ only' = except

\* WRITE_REQUEST_UPDOWN_FINISH: block g of node n becomes exclusive.
WriteGrant(n, g) ==
  /\ only = n
  /\ entry' = [z \in SubBlocks |->
       IF z \in g THEN dir_entry_set_owner(dir_entry_set_sharer(entry[z], n), n)
                  ELSE entry[z]]
  /\ only' = None

\* The same handler with an error from below.
WriteError ==
  /\ only # None
  /\ only' = None
  /\ UNCHANGED entry

\* Bug: an eviction leaves the evicting module as the owner.
EvictKeepsOwner(n, g) ==
  /\ only = None
  /\ entry' = [z \in SubBlocks |->
       IF z \in g THEN dir_entry_clear_sharer(entry[z], n) ELSE entry[z]]
  /\ UNCHANGED only

\* EVICT_PROCESS: node n gives back its block g.
EvictProcess(n, g) ==
  /\ only = None
  /\ entry' = [z \in SubBlocks |->
       IF z \in g THEN Forget(entry[z], n) ELSE entry[z]]
  /\ UNCHANGED only

\* READ_REQUEST_DOWNUP_FINISH: the owners above have become sharers.
DownupFinish ==
  /\ only = None
  /\ \E z \in SubBlocks : entry[z].owner # None
  /\ entry' = [z \in SubBlocks |-> dir_entry_set_owner(entry[z], None)]
  /\ UNCHANGED only

Next ==
  \/ \E n \in Nodes : \E g \in Spans[n] :
       \/ \E below, retain \in BOOLEAN : ReadGrant(n, g, below, retain)
       \/ WriteGrant(n, g)
       \/ EvictProcess(n, g)
  \/ \E n \in Nodes \cup {None} : Invalidate(n)
  \/ WriteError
  \/ DownupFinish

Spec == Init /\ [][Next]_vars

-----------------------------------------------------------------------------
(* Properties *)

\* Entries have their types; in particular num_sharers stays in the range of
\* the assertions of dir_entry_set_sharer and dir_entry_clear_sharer.
TypeOK ==
  /\ entry \in [SubBlocks -> Entries]
  /\ only \in Nodes \cup {None}

\* "Number of 1s in next field" (mem-system.h:323): the counter agrees with
\* the bitmap, so the test num_sharers > 1 of READ_REQUEST_UPDOWN_FINISH
\* really asks whether another module shares the sub-block.
CountExact ==
  \A z \in SubBlocks : entry[z].num_sharers = Cardinality(entry[z].sharer)

\* The owner of a sub-block is one of its sharers: INVALIDATE, which visits
\* the sharers, reaches it.
OwnerIsSharer ==
  \A z \in SubBlocks :
    entry[z].owner # None => entry[z].owner \in entry[z].sharer

\* assert(dir_entry->num_sharers == 1) of WRITE_REQUEST_UPDOWN_FINISH: when a
\* write is granted the requester is the only sharer, whatever happened to
\* the way before INVALIDATE.
SoleSharer ==
  \A n \in Nodes, z \in SubBlocks :
    only = n => dir_entry_set_sharer(entry[z], n).num_sharers = 1
=============================================================================
