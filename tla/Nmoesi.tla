------------------------------- MODULE Nmoesi -------------------------------
(***************************************************************************)
(* The NMOESI directory protocol of src/src/mem-system/nmoesi-protocol.c,  *)
(* at the granularity of its event handlers, on an arbitrary tree of       *)
(* memory modules, with the caches, directories, directory locks and       *)
(* access lists of cache.c, directory.c and module.c that it works on.     *)
(*                                                                         *)
(* A 'struct mod_stack_t' is an activation record of an event-driven call: *)
(* a handler creates a child stack, schedules its first event, and goes on *)
(* in its own 'ret_event' when the child returns.  Here stk maps the path  *)
(* of call labels <<access id, label, label, ...>> to such a record, so    *)
(* the parent of k (ret_stack) is Front(k) and the id of k is k[1].        *)
(*                                                                         *)
(* What the model leaves out: stream-buffer prefetching (prefetch_enabled  *)
(* = 0), non-coherent stores (NC_STORE_LOCK gives its find_and_lock stack  *)
(* no request_dir, so the first assertion of the handler stops it), ports  *)
(* (every mod_lock_port finds one free) and sub-blocks (all modules have   *)
(* the same block size, so zsize = 1 and the tag of a block is its         *)
(* address).  All blocks map to one set.  Victim ways are arbitrary, which *)
(* covers the LRU, FIFO and random policies.  Scheduled events and network *)
(* messages may take any time, in any order.                               *)
(***************************************************************************)
EXTENDS LockQueue

CONSTANTS
  Mods,          \* the memory modules
  Cores,         \* the modules the processor cores access (first level)
  MM,            \* the main memory module
  Low,           \* Low[m]: the low module of m (mod_get_low_mod), m # MM
  Blocks,        \* block addresses
  Assoc,         \* Assoc[m]: ways of module m
  MaxAccesses,   \* bound: accesses issued by the cores in a behaviour
  Workload,      \* Workload[i]: what the i-th access of the cores may be
  MaxInFlight,   \* bound: accesses in flight at the same time
  None           \* the NULL of modules, tags and stacks

ASSUME TreeAssumption ==
  /\ Cores \subseteq Mods \ {MM}
  /\ MM \in Mods
  /\ Low \in [Mods \ {MM} -> Mods \ Cores]
  /\ \A m \in Mods : Assoc[m] \in Nat \ {0}
  /\ None \notin Mods \cup Blocks
  /\ IsFiniteSet(Mods) /\ Mods \cap {"FAL", "EVICT", "INV", "REQ"} = {}
  /\ MaxAccesses \in Nat /\ MaxInFlight \in Nat
  /\ Workload \in [1..MaxAccesses ->
                      SUBSET (Cores \X {"load", "store"} \X Blocks)]

VARIABLES
  stk,      \* in-flight stacks, by path
  blk,      \* blk[m][w]: tag, state, transient tag of the block in way w
  dir,      \* dir[m][w]: owner and sharers recorded in the directory
  lock,     \* lock[m][w]: directory lock and its queue of waiting stacks
  acc,      \* acc[m]: access list of m, oldest insertion first
  nextId,   \* mod_stack_id + 1
  draining, \* esim_process_events is in the middle of a cycle
  fresh     \* ghost: fresh[b] = modules whose copy of b has its last store

vars == <<stk, blk, dir, lock, acc, nextId, draining, fresh>>

-----------------------------------------------------------------------------
(* Stacks *)

Ways(m) == 1..Assoc[m]
States  == {"I", "S", "E", "O", "M"}
Dirty   == {"M", "O"}

\* mod_stack_create: everything a new stack starts with.  ev is the event
\* scheduled next for the stack, n how many times it is scheduled, and now
\* says that it is due in the current cycle (it was scheduled with delay 0).
NewStack(ev, m, b) ==
  [ev |-> ev, n |-> 1, now |-> TRUE, wait |-> <<>>, mod |-> m, tgt |-> None, addr |-> b,
   kind |-> "none", down |-> TRUE, blocking |-> FALSE, peer |-> FALSE,
   way |-> 0, src |-> 0, state |-> "I", hit |-> FALSE, evict |-> FALSE,
   err |-> FALSE, shared |-> FALSE, retain |-> FALSE, reply |-> "NO_REPLY",
   pending |-> 0, master |-> <<>>, ported |-> FALSE, good |-> FALSE]

At(k, ev)  == stk[k].ev = ev /\ stk[k].n > 0
Parent(k)  == Front(k)

Put(s, k, f) == [x \in DOMAIN s \cup {k} |-> IF x = k THEN f ELSE s[x]]

\* esim_schedule_event of the handler's own next event ...
Goto(s, k, ev) == [s EXCEPT ![k].ev = ev, ![k].now = TRUE]

\* ... in a later cycle: after a latency, or when a message arrives ...
Later(s, k, ev) == [s EXCEPT ![k].ev = ev, ![k].now = FALSE]

\* ... and a call: create the stack under label l and suspend until it returns.
Call(s, k, ev, l, f) ==
  Put([s EXCEPT ![k].ev = ev, ![k].n = @ - 1], Append(k, l), f)

\* Bug: the stacks waiting in k are not woken.
ReturnWakesNobody(s, k) ==
  LET rest == [x \in DOMAIN s \ {k} |-> s[x]]
  IN IF Len(k) = 1 THEN rest
     ELSE [rest EXCEPT ![Parent(k)].n = @ + 1, ![Parent(k)].now = TRUE]

\* mod_stack_wakeup_stack
WakeupStack(s, k) ==
  [x \in DOMAIN s |->
     IF s[x].wait = k
     THEN [s[x] EXCEPT !.wait = <<>>, !.n = 1, !.now = TRUE]
     ELSE s[x]]

\* mod_stack_return: wake the stacks waiting in k, free k, schedule ret_event.
Return(s, k) ==
  LET awake == WakeupStack(s, k)
      rest  == [x \in DOMAIN s \ {k} |-> awake[x]]
  IN IF Len(k) = 1 THEN rest
     ELSE [rest EXCEPT ![Parent(k)].n = @ + 1, ![Parent(k)].now = TRUE]

\* mod_stack_wait_in_stack
WaitInStack(s, k, master, ev) ==
  [s EXCEPT ![k].ev = ev, ![k].n = 0, ![k].wait = master]

-----------------------------------------------------------------------------
(* Caches and directories *)

SetBlock(b, m, w, tag, state) ==
  [b EXCEPT ![m][w].tag = tag, ![m][w].state = state]

EmptyEntry == [owner |-> None, sharers |-> {}]
SharedOrOwned(m, w) == dir[m][w] # EmptyEntry

\* Bug: an eviction leaves the directory as it was.
ClearNothing(e, node) == e

\* Bug: the evicting module stays the owner.
ClearSharerOnly(e, node) == [e EXCEPT !.sharers = @ \ {node}]

ClearNode(e, node) ==
  [owner   |-> IF e.owner = node THEN None ELSE e.owner,
   sharers |-> e.sharers \ {node}]

\* Bug: a block on its way into the cache is not found.
HitsResident(m, b) ==
  {w \in Ways(m) : blk[m][w].tag = b /\ blk[m][w].state # "I"}

\* mod_find_block: a transient tag counts while its way is locked or awaited.
Hits(m, b) ==
  {w \in Ways(m) :
     \/ blk[m][w].tag = b /\ blk[m][w].state # "I"
     \/ /\ blk[m][w].transient = b
        /\ lock[m][w].held \/ lock[m][w].queue # <<>>}

\* dir_entry_unlock: free the entry and schedule its first waiter, in the
\* next cycle.
Unlocked(m, w) ==
  [lock EXCEPT ![m][w].held = FALSE,
               ![m][w].queue = IF @ = <<>> THEN <<>> ELSE Tail(@)]
Wake(s, m, w) ==
  LET q == lock[m][w].queue
  IN IF q = <<>> THEN s ELSE [s EXCEPT ![Head(q)].n = 1, ![Head(q)].now = FALSE]

-----------------------------------------------------------------------------
(* Access lists *)

\* In-flight accesses of m that precede k in its access list (all, if k is
\* not in the list: access_list_prev of such a stack is NULL, see Prev).
Indices(m, k) == {i \in DOMAIN acc[m] : acc[m][i] = k}
Prev(m, k) ==
  IF Indices(m, k) = {} THEN <<>>
  ELSE SubSeq(acc[m], 1, Min(Indices(m, k)) - 1)

\* mod_in_flight_write: the youngest store before k in the list.
InFlightWrite(m, k) ==
  LET p == Prev(m, k)
      I == {i \in DOMAIN p : stk[p[i]].kind = "store"}
  IN IF I = {} THEN <<>> ELSE p[Max(I)]

\* mod_in_flight_address: the first in the bucket with a smaller id.
InFlightAddress(m, b, k) ==
  LET I == {i \in DOMAIN acc[m] :
              acc[m][i][1] < k[1] /\ stk[acc[m][i]].addr = b}
  IN IF I = {} THEN <<>> ELSE acc[m][Min(I)]

MasterOf(k) == IF stk[k].master = <<>> THEN k ELSE stk[k].master

\* mod_can_coalesce for a new access k by module from, at the tail of acc[m].
CanCoalesce(m, kind, b, k, from) ==
  LET p     == acc[m]
      stop  == {i \in DOMAIN p : stk[p[i]].kind # "load"} \cup {0}
      loads == {i \in DOMAIN p : /\ i > Max(stop)
                                 /\ stk[p[i]].mod = from
                                 /\ stk[p[i]].addr = b}
      last  == p[Len(p)]
  IN CASE InFlightAddress(m, b, k) = <<>> -> <<>>
       [] kind = "load" ->
            IF loads = {} THEN <<>> ELSE MasterOf(p[Max(loads)])
       [] kind = "store" ->
            IF /\ stk[last].kind = "store"
               /\ stk[last].addr = b
               /\ ~stk[last].ported
            THEN MasterOf(last) ELSE <<>>

-----------------------------------------------------------------------------
(* Initial state: mem_system_init leaves every cache and directory empty.   *)

Init ==
  /\ stk = <<>>
  /\ blk = [m \in Mods |-> [w \in Ways(m) |->
              [tag |-> None, state |-> "I", transient |-> None]]]
  /\ dir = [m \in Mods |-> [w \in Ways(m) |-> EmptyEntry]]
  /\ lock = [m \in Mods |-> [w \in Ways(m) |->
               [held |-> FALSE, queue |-> <<>>]]]
  /\ acc = [m \in Mods |-> <<>>]
  /\ nextId = 1
  /\ draining = FALSE
  /\ fresh = [b \in Blocks |-> {MM}]

-----------------------------------------------------------------------------
(* Entry points: mod_access runs the LOAD or the STORE handler at once.     *)
(* The cores run before the events of a cycle, never between two of them.   *)

InFlight == {k \in DOMAIN stk : Len(k) = 1}

\* Record the access; coalesce it with an older one or go and lock.
Access(c, kind, b, lockEv, finishEv) ==
  /\ ~draining
  /\ Cardinality(InFlight) < MaxInFlight
  /\ LET k      == <<nextId>>
         master == CanCoalesce(c, kind, b, k, c)
         s      == Put(stk, k, [NewStack(lockEv, c, b) EXCEPT
                                  !.kind = kind, !.master = master])
     IN stk' = IF master = <<>> THEN s
               ELSE WaitInStack(s, k, master, finishEv)
  /\ acc' = [acc EXCEPT ![c] = Append(@, <<nextId>>)]
  /\ nextId' = nextId + 1
  /\ UNCHANGED <<blk, dir, lock, draining, fresh>>

Load(c, b)  == Access(c, "load", b, "LOAD_LOCK", "LOAD_FINISH")
Store(c, b) == Access(c, "store", b, "STORE_LOCK", "STORE_FINISH")

\* The find_and_lock stack of a request to lock block b in module m.
FalStack(m, b, down, blocking) ==
  [NewStack("FIND_AND_LOCK", m, b) EXCEPT
     !.down = down, !.blocking = blocking]

-----------------------------------------------------------------------------
(* mod_handler_nmoesi_load *)

LoadLock(k) ==
  /\ At(k, "LOAD_LOCK")
  /\ LET m     == stk[k].mod
         write == InFlightWrite(m, k)
         older == IF write # <<>> THEN write
                  ELSE InFlightAddress(m, stk[k].addr, k)
     IN stk' = IF older # <<>> THEN WaitInStack(stk, k, older, "LOAD_LOCK")
               ELSE Call(stk, k, "LOAD_ACTION", "FAL",
                         FalStack(m, stk[k].addr, TRUE, TRUE))
  /\ UNCHANGED <<blk, dir, lock, acc, nextId, fresh>>

\* The read request a miss sends to the low module of 'from'.
ReadStack(from, b, peer) ==
  [NewStack("READ_REQUEST_RECEIVE", from, b) EXCEPT
     !.now = FALSE, !.tgt = Low[from], !.kind = "load", !.peer = peer]

LoadAction(k) ==
  /\ At(k, "LOAD_ACTION")
  /\ stk' = CASE stk[k].err          -> Later(stk, k, "LOAD_LOCK")
              [] ~stk[k].err /\ stk[k].state # "I" ->
                   Goto(stk, k, "LOAD_UNLOCK")
              [] OTHER ->
                   Call([stk EXCEPT ![k].shared = FALSE], k, "LOAD_MISS",
                        "REQ", ReadStack(stk[k].mod, stk[k].addr, TRUE))
  /\ UNCHANGED <<blk, dir, lock, acc, nextId, fresh>>

\* Receive(m, b, good): the ghost effect of b's data arriving in m.
Receive(m, b, good) ==
  [fresh EXCEPT ![b] = IF good THEN @ \cup {m} ELSE @ \ {m}]

LoadMiss(k) ==
  /\ At(k, "LOAD_MISS")
  /\ LET f == stk[k] IN
       \/ /\ f.err
          /\ stk' = Wake(Later(stk, k, "LOAD_LOCK"), f.mod, f.way)
          /\ lock' = Unlocked(f.mod, f.way)
          /\ UNCHANGED <<blk, fresh>>
       \/ /\ ~f.err
          /\ blk' = SetBlock(blk, f.mod, f.way, f.addr,
                             IF f.shared THEN "S" ELSE "E")
          /\ fresh' = Receive(f.mod, f.addr, f.good)
          /\ stk' = Goto(stk, k, "LOAD_UNLOCK")
          /\ UNCHANGED lock
  /\ UNCHANGED <<dir, acc, nextId>>

\* Bug: the way stays locked.
LoadUnlockKeepsLock(k) ==
  /\ At(k, "LOAD_UNLOCK")
  /\ stk' = Goto(stk, k, "LOAD_FINISH")
  /\ UNCHANGED <<blk, dir, lock, acc, nextId, fresh>>

LoadUnlock(k) ==
  /\ At(k, "LOAD_UNLOCK")
  /\ stk' = Wake(Goto(stk, k, "LOAD_FINISH"), stk[k].mod, stk[k].way)
  /\ lock' = Unlocked(stk[k].mod, stk[k].way)
  /\ UNCHANGED <<blk, dir, acc, nextId, fresh>>

\* Bug: the access stays in the access list.
FinishStaysListed(k) ==
  /\ stk' = Return(stk, k)
  /\ UNCHANGED <<acc, blk, dir, lock, nextId, fresh>>

\* mod_access_finish unlinks the access from the list.
Unlinked(list, k) == RemoveAt(list, CHOOSE i \in 1..Len(list) : list[i] = k)

\* mod_access_finish and mod_stack_return, for loads and for stores.
Finish(k) ==
  /\ stk' = Return(stk, k)
  /\ acc' = [acc EXCEPT ![stk[k].mod] = Unlinked(@, k)]
  /\ UNCHANGED <<blk, dir, lock, nextId, fresh>>

LoadFinish(k) == At(k, "LOAD_FINISH") /\ Finish(k)

-----------------------------------------------------------------------------
(* mod_handler_nmoesi_store *)

StoreLock(k) ==
  /\ At(k, "STORE_LOCK")
  /\ LET p == Prev(stk[k].mod, k)
     IN stk' = IF p # <<>> THEN WaitInStack(stk, k, Last(p), "STORE_LOCK")
               ELSE Call(stk, k, "STORE_ACTION", "FAL",
                         FalStack(stk[k].mod, stk[k].addr, TRUE, TRUE))
  /\ UNCHANGED <<blk, dir, lock, acc, nextId, fresh>>

\* The write request for block b from module 'from' to module 'to'.
WriteStack(from, to, b, down) ==
  [NewStack("WRITE_REQUEST_RECEIVE", from, b) EXCEPT
     !.now = FALSE, !.tgt = to, !.down = down]

StoreAction(k) ==
  /\ At(k, "STORE_ACTION")
  /\ stk' = CASE stk[k].err -> Later(stk, k, "STORE_LOCK")
              [] ~stk[k].err /\ stk[k].state \in {"M", "E"} ->
                   Goto(stk, k, "STORE_UNLOCK")
              [] OTHER ->
                   Call([stk EXCEPT ![k].good = FALSE], k,
                        "STORE_UNLOCK", "REQ",
                        WriteStack(stk[k].mod, Low[stk[k].mod],
                                   stk[k].addr, TRUE))
  /\ UNCHANGED <<blk, dir, lock, acc, nextId, fresh>>

\* Ghost: data of b on its way when a store to b completes is old data.
Outdate(s, b) ==
  [x \in DOMAIN s |-> IF s[x].addr = b THEN [s[x] EXCEPT !.good = FALSE]
                                       ELSE s[x]]

StoreUnlock(k) ==
  /\ At(k, "STORE_UNLOCK")
  /\ LET f == stk[k]
         next == IF f.err THEN Later(stk, k, "STORE_LOCK")
                 ELSE Goto(Outdate(stk, f.addr), k, "STORE_FINISH")
     IN /\ stk' = Wake(next, f.mod, f.way)
        /\ lock' = Unlocked(f.mod, f.way)
        /\ \/ f.err /\ UNCHANGED <<blk, fresh>>
           \/ /\ ~f.err
              /\ blk' = SetBlock(blk, f.mod, f.way, f.addr, "M")
              /\ fresh' = [fresh EXCEPT ![f.addr] = {f.mod}]
  /\ UNCHANGED <<dir, acc, nextId>>

StoreFinish(k) == At(k, "STORE_FINISH") /\ Finish(k)

-----------------------------------------------------------------------------
(* mod_handler_nmoesi_find_and_lock *)

\* Bug: a stack that was queued on a way chooses a victim again.
CandidatesAnew(m, b, chosen) ==
  IF Hits(m, b) # {} THEN {Min(Hits(m, b))} ELSE Ways(m)

\* The way of block b in m, the victim chosen before ('chosen', 0 if none),
\* or any victim.  An eviction leaves the number of its own way in 'chosen';
\* were its block not found below, a module with fewer ways would take the
\* lock beyond its last one, which is that of some way of another set.
Candidates(m, b, chosen) ==
  CASE Hits(m, b) # {}                         -> {Min(Hits(m, b))}
    [] Hits(m, b) = {} /\ chosen \in Ways(m)   -> {chosen}
    [] OTHER                                   -> Ways(m)

\* FIND_AND_LOCK and, a port being free, FIND_AND_LOCK_PORT: look the block
\* up, choose a victim on a miss, and lock the way, wait for it, or fail.
FindAndLock(k) ==
  /\ At(k, "FIND_AND_LOCK")
  /\ LET f    == stk[k]
         m    == f.mod
         p    == Parent(k)
         hits == Hits(m, f.addr)
         s    == [stk EXCEPT ![p].err = FALSE, ![p].ported = TRUE]
     IN \E w \in Candidates(m, f.addr, stk[p].way) :
          \/ /\ lock[m][w].held /\ ~f.blocking
             /\ stk' = Return([s EXCEPT ![p].err = TRUE], k)
             /\ UNCHANGED <<blk, lock>>
          \/ /\ lock[m][w].held /\ f.blocking
             /\ lock' = [lock EXCEPT ![m][w].queue = Enqueue(@, k)]
             /\ stk' = [s EXCEPT ![p].way = w, ![k].n = 0]
             /\ UNCHANGED blk
          \/ /\ ~lock[m][w].held
             /\ lock' = [lock EXCEPT ![m][w].held = TRUE]
             /\ blk' = IF f.down THEN [blk EXCEPT ![m][w].transient = f.addr]
                       ELSE blk
             /\ stk' = Later([s EXCEPT ![k].hit = hits # {}, ![k].way = w,
                                       ![k].state = blk[m][w].state],
                             k, "FIND_AND_LOCK_ACTION")
  /\ UNCHANGED <<dir, acc, nextId, fresh>>

\* A valid victim is evicted first.
FindAndLockAction(k) ==
  /\ At(k, "FIND_AND_LOCK_ACTION")
  /\ LET f == stk[k]
     IN stk' = IF ~f.hit /\ f.state # "I" /\ f.down
               THEN Call([stk EXCEPT ![k].evict = TRUE], k,
                         "FIND_AND_LOCK_FINISH", "EVICT",
                         [NewStack("EVICT", f.mod, None) EXCEPT
                            !.way = f.way])
               ELSE Goto(stk, k, "FIND_AND_LOCK_FINISH")
  /\ UNCHANGED <<blk, dir, lock, acc, nextId, fresh>>

FindAndLockFinish(k) ==
  /\ At(k, "FIND_AND_LOCK_FINISH")
  /\ LET f == stk[k]
         m == f.mod
         p == Parent(k)
         state == IF f.evict THEN blk[m][f.way].state ELSE f.state
         here  == m = MM /\ state = "I"   \* only missing in the directory
     IN \/ /\ f.err /\ f.evict
           /\ stk' = Wake(Return([stk EXCEPT ![p].err = TRUE], k), m, f.way)
           /\ lock' = Unlocked(m, f.way)
           /\ UNCHANGED blk
        \/ /\ ~(f.err /\ f.evict)
           /\ blk' = IF here THEN SetBlock(blk, m, f.way, f.addr, "E") ELSE blk
           /\ stk' = Return([stk EXCEPT ![p].err = FALSE, ![p].way = f.way,
                               ![p].state = IF here THEN "E" ELSE state], k)
           /\ UNCHANGED lock
  /\ UNCHANGED <<dir, acc, nextId, fresh>>

-----------------------------------------------------------------------------
(* mod_handler_nmoesi_evict *)

\* An INVALIDATE stack keeps 'except_mod' in tgt.
InvalidateStack(m, w, except) ==
  [NewStack("INVALIDATE", m, None) EXCEPT !.way = w, !.tgt = except]

Evict(k) ==
  /\ At(k, "EVICT")
  /\ LET f == stk[k]
         b == blk[f.mod][f.way]
     IN stk' = Call([stk EXCEPT ![Parent(k)].err = FALSE, ![k].addr = b.tag,
                                ![k].state = b.state, ![k].src = f.way,
                                ![k].tgt = IF f.mod = MM THEN None
                                           ELSE Low[f.mod]],
                    k, "EVICT_INVALID", "INV",
                    InvalidateStack(f.mod, f.way, None))
  /\ UNCHANGED <<blk, dir, lock, acc, nextId, fresh>>

\* Main memory only forgets the block, and keeps its data.
EvictInvalid(k) ==
  /\ At(k, "EVICT_INVALID")
  /\ LET f == stk[k] IN
       \/ /\ f.mod = MM
          /\ blk' = SetBlock(blk, MM, f.src, None, "I")
          /\ stk' = Return(stk, k)
       \/ /\ f.mod # MM
          /\ stk' = Goto(stk, k, "EVICT_ACTION")
          /\ UNCHANGED blk
  /\ UNCHANGED <<dir, lock, acc, nextId, fresh>>

\* Bug: only Owned copies are written back.
EvictActionOwnedOnly(k) ==
  /\ At(k, "EVICT_ACTION")
  /\ LET f == stk[k]
     IN stk' = Later([stk EXCEPT
                        ![k].reply = IF f.state = "O" THEN "ACK_DATA"
                                     ELSE "ACK",
                        ![k].good = f.mod \in fresh[f.addr]],
                     k, "EVICT_RECEIVE")
  /\ UNCHANGED <<blk, dir, lock, acc, nextId, fresh>>

\* The state read before the invalidation decides whether data is sent.
EvictAction(k) ==
  /\ At(k, "EVICT_ACTION")
  /\ LET f == stk[k]
     IN stk' = IF f.state = "I" THEN Return(stk, k)
               ELSE Later([stk EXCEPT
                             ![k].reply = IF f.state \in Dirty
                                          THEN "ACK_DATA" ELSE "ACK",
                             ![k].good = f.mod \in fresh[f.addr]],
                          k, "EVICT_RECEIVE")
  /\ UNCHANGED <<blk, dir, lock, acc, nextId, fresh>>

EvictReceive(k) ==
  /\ At(k, "EVICT_RECEIVE")
  /\ stk' = Call(stk, k, "EVICT_PROCESS", "FAL",
                 FalStack(stk[k].tgt, stk[k].addr, TRUE, FALSE))
  /\ UNCHANGED <<blk, dir, lock, acc, nextId, fresh>>

EvictProcess(k) ==
  /\ At(k, "EVICT_PROCESS")
  /\ LET f == stk[k]
         next == Later(stk, k, "EVICT_REPLY_RECEIVE")
     IN \/ /\ f.err
           /\ stk' = [next EXCEPT ![Parent(k)].err = TRUE]
           /\ UNCHANGED <<blk, dir, lock, fresh>>
        \/ /\ ~f.err
           /\ IF f.reply = "ACK_DATA"
              THEN /\ blk' = SetBlock(blk, f.tgt, f.way, f.addr, "M")
                   /\ fresh' = Receive(f.tgt, f.addr, f.good)
              ELSE UNCHANGED <<blk, fresh>>
           /\ dir' = [dir EXCEPT ![f.tgt][f.way] = ClearNode(@, f.mod)]
           /\ lock' = Unlocked(f.tgt, f.way)
           /\ stk' = Wake(next, f.tgt, f.way)
  /\ UNCHANGED <<acc, nextId>>

EvictReplyReceive(k) ==
  /\ At(k, "EVICT_REPLY_RECEIVE")
  /\ LET f == stk[k]
     IN IF f.err THEN UNCHANGED <<blk, fresh>>
        ELSE /\ blk' = SetBlock(blk, f.mod, f.src, None, "I")
             /\ fresh' = [fresh EXCEPT ![f.addr] = @ \ {f.mod}]
  /\ stk' = Return(stk, k)
  /\ UNCHANGED <<dir, lock, acc, nextId>>

-----------------------------------------------------------------------------
(* mod_handler_nmoesi_invalidate *)

\* Bug: the invalidated sharers stay in the directory.
InvalidateForgetsNobody(k) ==
  /\ At(k, "INVALIDATE")
  /\ LET f    == stk[k]
         b    == blk[f.mod][f.way].tag
         kids == {Append(k, s) : s \in dir[f.mod][f.way].sharers \ {f.tgt}}
         self == [f EXCEPT !.ev = "INVALIDATE_FINISH", !.addr = b,
                           !.pending = 1 + Cardinality(kids)]
     IN stk' = [x \in DOMAIN stk \cup kids |->
                  CASE x = k       -> self
                    [] x \in kids  -> WriteStack(f.mod, Last(x), b, FALSE)
                    [] OTHER       -> stk[x]]
  /\ UNCHANGED <<blk, dir, lock, acc, nextId, fresh>>

Invalidate(k) ==
  /\ At(k, "INVALIDATE")
  /\ LET f    == stk[k]
         e    == dir[f.mod][f.way]
         b    == blk[f.mod][f.way].tag
         outs == e.sharers \ {f.tgt}
         kids == {Append(k, s) : s \in outs}
         self == [f EXCEPT !.ev = "INVALIDATE_FINISH", !.addr = b,
                           !.pending = 1 + Cardinality(outs)]
     IN /\ dir' = [dir EXCEPT ![f.mod][f.way] =
                     [owner   |-> IF e.owner \in outs THEN None ELSE e.owner,
                      sharers |-> e.sharers \ outs]]
        /\ stk' = [x \in DOMAIN stk \cup kids |->
                     CASE x = k       -> self
                       [] x \in kids  -> WriteStack(f.mod, Last(x), b, FALSE)
                       [] OTHER       -> stk[x]]
  /\ UNCHANGED <<blk, lock, acc, nextId, fresh>>

\* LastPending(k): this event is the last of the replies k waits for.
LastPending(k) == stk[k].pending = 1
Countdown(s, k) == [s EXCEPT ![k].pending = @ - 1, ![k].n = @ - 1]

InvalidateFinish(k) ==
  /\ At(k, "INVALIDATE_FINISH")
  /\ stk' = IF LastPending(k) THEN Return(stk, k) ELSE Countdown(stk, k)
  /\ UNCHANGED <<blk, dir, lock, acc, nextId, fresh>>

-----------------------------------------------------------------------------
(* mod_handler_nmoesi_write_request: stack k, from f.mod to f.tgt *)

WriteRequestReceive(k) ==
  /\ At(k, "WRITE_REQUEST_RECEIVE")
  /\ LET f == stk[k]
     IN stk' = Call(stk, k, "WRITE_REQUEST_ACTION", "FAL",
                    FalStack(f.tgt, f.addr, f.down, ~f.down))
  /\ UNCHANGED <<blk, dir, lock, acc, nextId, fresh>>

\* Bug: the other sharers are not invalidated.
WriteRequestActionNoInvalidate(k) ==
  /\ At(k, "WRITE_REQUEST_ACTION")
  /\ stk' = IF stk[k].err
            THEN Later([stk EXCEPT ![Parent(k)].err = TRUE], k,
                       "WRITE_REQUEST_FINISH")
            ELSE Goto(stk, k, "WRITE_REQUEST_EXCLUSIVE")
  /\ UNCHANGED <<blk, dir, lock, acc, nextId, fresh>>

\* Invalidate the other sharers above the target.
WriteRequestAction(k) ==
  /\ At(k, "WRITE_REQUEST_ACTION")
  /\ LET f == stk[k]
     IN stk' = IF f.err
               THEN Later([stk EXCEPT ![Parent(k)].err = TRUE], k,
                          "WRITE_REQUEST_FINISH")
               ELSE Call(stk, k, "WRITE_REQUEST_EXCLUSIVE", "INV",
                         InvalidateStack(f.tgt, f.way, f.mod))
  /\ UNCHANGED <<blk, dir, lock, acc, nextId, fresh>>

\* Up-down: the target must be exclusive itself before it grants the block.
WriteRequestUpdown(k) ==
  /\ At(k, "WRITE_REQUEST_EXCLUSIVE") /\ stk[k].down
  /\ LET f == stk[k]
     IN stk' = IF f.state \in {"M", "E"}
               THEN Goto(stk, k, "WRITE_REQUEST_UPDOWN_FINISH")
               ELSE Call(stk, k, "WRITE_REQUEST_UPDOWN_FINISH", "REQ",
                         WriteStack(f.tgt, Low[f.tgt], f.addr, TRUE))
  /\ UNCHANGED <<blk, dir, lock, acc, nextId, fresh>>

\* Ghost: the target of f has the last store, its own copy or from below.
Supplied(f) == f.good \/ f.tgt \in fresh[f.addr]

WriteRequestUpdownFinish(k) ==
  /\ At(k, "WRITE_REQUEST_UPDOWN_FINISH")
  /\ LET f == stk[k]
         p == Parent(k)
         next == Later(stk, k, "WRITE_REQUEST_FINISH")
     IN /\ lock' = Unlocked(f.tgt, f.way)
        /\ \/ /\ f.err
              /\ stk' = Wake([next EXCEPT ![p].err = TRUE], f.tgt, f.way)
              /\ UNCHANGED <<blk, dir, fresh>>
           \/ /\ ~f.err
              /\ dir' = [dir EXCEPT ![f.tgt][f.way] =
                           [owner   |-> f.mod,
                            sharers |-> @.sharers \cup {f.mod}]]
              /\ blk' = SetBlock(blk, f.tgt, f.way, f.addr, "E")
              /\ fresh' = Receive(f.tgt, f.addr, Supplied(f))
              /\ stk' = Wake([next EXCEPT ![p].good = Supplied(f)],
                             f.tgt, f.way)
  /\ UNCHANGED <<acc, nextId>>

\* Bug: an invalidated Modified copy does not send its data back.
WriteRequestDownupOwnedOnly(k) ==
  /\ At(k, "WRITE_REQUEST_EXCLUSIVE") /\ ~stk[k].down
  /\ LET f == stk[k]
         holders == fresh[f.addr]
     IN /\ blk' = SetBlock(blk, f.tgt, f.way, None, "I")
        /\ fresh' = [fresh EXCEPT ![f.addr] =
                       IF f.state = "O" /\ f.tgt \in holders
                       THEN (holders \cup {f.mod}) \ {f.tgt}
                       ELSE holders \ {f.tgt}]
        /\ lock' = Unlocked(f.tgt, f.way)
        /\ stk' = Wake(Later(stk, k, "WRITE_REQUEST_FINISH"), f.tgt, f.way)
  /\ UNCHANGED <<dir, acc, nextId>>

\* Down-up (WRITE_REQUEST_DOWNUP and _DOWNUP_FINISH): lose the block; dirty
\* data goes back to f.mod, since 'peer' is never set on this path.
WriteRequestDownup(k) ==
  /\ At(k, "WRITE_REQUEST_EXCLUSIVE") /\ ~stk[k].down
  /\ LET f == stk[k]
         holders == fresh[f.addr]
     IN /\ blk' = SetBlock(blk, f.tgt, f.way, None, "I")
        /\ fresh' = [fresh EXCEPT ![f.addr] =
                       IF f.state \in Dirty /\ f.tgt \in holders
                       THEN (holders \cup {f.mod}) \ {f.tgt}
                       ELSE holders \ {f.tgt}]
        /\ lock' = Unlocked(f.tgt, f.way)
        /\ stk' = Wake(Later(stk, k, "WRITE_REQUEST_FINISH"), f.tgt, f.way)
  /\ UNCHANGED <<dir, acc, nextId>>

WriteRequestFinish(k) ==
  /\ At(k, "WRITE_REQUEST_FINISH")
  /\ stk' = Return(stk, k)
  /\ UNCHANGED <<blk, dir, lock, acc, nextId, fresh>>

-----------------------------------------------------------------------------
(* mod_handler_nmoesi_read_request: stack k, from f.mod to f.tgt *)

\* Up-down requests are recorded in the target's access list.  The handler
\* asserts that it finds a prefetch if it finds an access to coalesce with.
ReadRequestReceive(k) ==
  /\ At(k, "READ_REQUEST_RECEIVE")
  /\ stk' = Goto(stk, k, "READ_REQUEST_LOCK")
  /\ acc' = IF stk[k].down THEN [acc EXCEPT ![stk[k].tgt] = Append(@, k)]
            ELSE acc
  /\ UNCHANGED <<blk, dir, lock, nextId, fresh>>

ReadRequestLock(k) ==
  /\ At(k, "READ_REQUEST_LOCK")
  /\ LET f     == stk[k]
         write == InFlightWrite(f.tgt, k)
         older == IF write # <<>> THEN write
                  ELSE InFlightAddress(f.tgt, f.addr, k)
     IN stk' = IF older # <<>>
               THEN WaitInStack(stk, k, older, "READ_REQUEST_LOCK")
               ELSE Call(stk, k, "READ_REQUEST_ACTION", "FAL",
                         FalStack(f.tgt, f.addr, f.down, ~f.down))
  /\ UNCHANGED <<blk, dir, lock, acc, nextId, fresh>>

\* The read request sent up to the owner of a block held in module m.
OwnerRead(m, w, b, peer) ==
  [NewStack("READ_REQUEST_RECEIVE", m, b) EXCEPT
     !.now = FALSE, !.tgt = dir[m][w].owner, !.down = FALSE, !.kind = "load", !.peer = peer]

\* READ_REQUEST_ACTION with an error: nothing was locked, reply at once.
ReadRequestError(k) ==
  /\ At(k, "READ_REQUEST_ACTION") /\ stk[k].err
  /\ stk' = Later([stk EXCEPT ![Parent(k)].err = TRUE], k,
                  "READ_REQUEST_FINISH")
  /\ UNCHANGED <<blk, dir, lock, acc, nextId, fresh>>

\* A read request from the requester or from the target itself, while the
\* handler's own event stays scheduled: two events are then pending.
Ask(s, k, ev, child) ==
  Put(Goto([s EXCEPT ![k].pending = 2], k, ev), Append(k, child.tgt), child)
NoAsk(s, k, ev) == Goto([s EXCEPT ![k].pending = 1], k, ev)

ReadRequestUpdown(k) ==
  /\ At(k, "READ_REQUEST_ACTION") /\ ~stk[k].err /\ stk[k].down
  /\ LET f == stk[k]
         owner == dir[f.tgt][f.way].owner
     IN stk' = CASE f.state = "I" ->
                      Call([stk EXCEPT ![k].pending = 1], k,
                           "READ_REQUEST_UPDOWN_MISS", "REQ",
                           ReadStack(f.tgt, f.addr, FALSE))
                 [] f.state # "I" /\ owner \in {None, f.mod} ->
                      NoAsk([stk EXCEPT ![k].good = f.tgt \in fresh[f.addr]],
                            k, "READ_REQUEST_UPDOWN_FINISH")
                 [] OTHER ->
                      Ask(stk, k, "READ_REQUEST_UPDOWN_FINISH",
                          OwnerRead(f.tgt, f.way, f.addr, TRUE))
  /\ UNCHANGED <<blk, dir, lock, acc, nextId, fresh>>

ReadRequestUpdownMiss(k) ==
  /\ At(k, "READ_REQUEST_UPDOWN_MISS")
  /\ LET f == stk[k] IN
       \/ /\ f.err
          /\ lock' = Unlocked(f.tgt, f.way)
          /\ stk' = Wake(Later([stk EXCEPT ![Parent(k)].err = TRUE], k,
                               "READ_REQUEST_FINISH"), f.tgt, f.way)
          /\ UNCHANGED <<blk, fresh>>
       \/ /\ ~f.err
          /\ blk' = SetBlock(blk, f.tgt, f.way, f.addr,
                             IF f.shared THEN "S" ELSE "E")
          /\ fresh' = Receive(f.tgt, f.addr, f.good)
          /\ stk' = Goto(stk, k, "READ_REQUEST_UPDOWN_FINISH")
          /\ UNCHANGED lock
  /\ UNCHANGED <<dir, acc, nextId>>

\* Bug: the requester becomes the owner whoever else shares the block.
GrantedExclusive(f, e) ==
  [shared |-> FALSE,
   entry  |-> [sharers |-> e.sharers \cup {f.mod}, owner |-> f.mod]]

\* Bug: an owner that has become a sharer stays the owner.
GrantedKeepsOwner(f, e) ==
  LET sharers == e.sharers \cup {f.mod}
      shared  == Cardinality(sharers) > 1 \/ f.shared
  IN [shared |-> shared,
      entry  |-> [sharers |-> sharers,
                  owner   |-> IF shared THEN e.owner ELSE f.mod]]

\* The directory entry once the request of f is served.
Granted(f, e) ==
  LET sharers == e.sharers \cup {f.mod}
      shared  == Cardinality(sharers) > 1 \/ f.shared
  IN [shared |-> shared,
      entry  |-> [sharers |-> sharers,
                  owner   |-> CASE ~shared -> f.mod
                                [] shared /\ (f.retain \/ e.owner = f.mod) ->
                                     e.owner
                                [] OTHER -> None]]

\* Bug: the target's way stays locked after the read is served.
ReadRequestUpdownFinishKeepsLock(k) ==
  /\ At(k, "READ_REQUEST_UPDOWN_FINISH")
  /\ LET f == stk[k]
         p == Parent(k)
         g == Granted(f, dir[f.tgt][f.way])
     IN IF ~LastPending(k)
        THEN stk' = Countdown(stk, k) /\ UNCHANGED dir
        ELSE /\ dir' = [dir EXCEPT ![f.tgt][f.way] = g.entry]
             /\ stk' = Later([stk EXCEPT ![p].shared = g.shared,
                                         ![p].good = f.good],
                             k, "READ_REQUEST_FINISH")
  /\ UNCHANGED <<blk, lock, acc, nextId, fresh>>

ReadRequestUpdownFinish(k) ==
  /\ At(k, "READ_REQUEST_UPDOWN_FINISH")
  /\ LET f == stk[k]
         p == Parent(k)
         g == Granted(f, dir[f.tgt][f.way])
     IN IF ~LastPending(k)
        THEN stk' = Countdown(stk, k) /\ UNCHANGED <<dir, lock>>
        ELSE /\ dir' = [dir EXCEPT ![f.tgt][f.way] = g.entry]
             /\ lock' = Unlocked(f.tgt, f.way)
             /\ stk' = Wake(Later([stk EXCEPT ![p].shared = g.shared,
                                              ![p].good = f.good],
                                  k, "READ_REQUEST_FINISH"), f.tgt, f.way)
  /\ UNCHANGED <<blk, acc, nextId, fresh>>

\* Down-up: the target owns the block; ask its own owner above it first.
ReadRequestDownup(k) ==
  /\ At(k, "READ_REQUEST_ACTION") /\ ~stk[k].err /\ ~stk[k].down
  /\ LET f == stk[k]
     IN stk' = IF dir[f.tgt][f.way].owner = None
               THEN NoAsk(stk, k, "READ_REQUEST_DOWNUP_WAIT_FOR_REQS")
               ELSE Ask(stk, k, "READ_REQUEST_DOWNUP_WAIT_FOR_REQS",
                        OwnerRead(f.tgt, f.way, f.addr, FALSE))
  /\ UNCHANGED <<blk, dir, lock, acc, nextId, fresh>>

\* PEER_SEND to PEER_FINISH: the copy travels to the peer, which acknowledges
\* it, and only then is DOWNUP_FINISH scheduled.
ToPeer(s, k) == Later(s, k, "READ_REQUEST_DOWNUP_FINISH")

ReadRequestDownupWaitForReqs(k) ==
  /\ At(k, "READ_REQUEST_DOWNUP_WAIT_FOR_REQS")
  /\ stk' = CASE ~LastPending(k) -> Countdown(stk, k)
              [] LastPending(k) /\ stk[k].peer  -> ToPeer(stk, k)
              [] LastPending(k) /\ ~stk[k].peer ->
                   Goto(stk, k, "READ_REQUEST_DOWNUP_FINISH")
  /\ UNCHANGED <<blk, dir, lock, acc, nextId, fresh>>

\* Next state of the owner: dirty data stays with an Owned copy when it went
\* to a peer, and goes down with the reply when there is no peer.
DownupState(f) ==
  IF /\ f.peer
     /\ \/ f.reply = "ACK_DATA"
        \/ f.reply = "NO_REPLY" /\ f.state \in Dirty
  THEN "O" ELSE "S"

DownupReply(f) ==
  IF f.reply = "NO_REPLY"
  THEN IF f.state \in Dirty THEN "ACK_DATA" ELSE "ACK"
  ELSE f.reply

ReadRequestDownupFinish(k) ==
  /\ At(k, "READ_REQUEST_DOWNUP_FINISH")
  /\ LET f == stk[k]
         p == Parent(k)
         t == f.tgt
         state == DownupState(f)
         s == IF f.peer
              THEN [stk EXCEPT ![p].retain = @ \/ state = "O",
                               ![p].good = t \in fresh[f.addr]]
              ELSE [stk EXCEPT ![p].reply = DownupReply(f)]
     IN /\ blk' = SetBlock(blk, t, f.way, f.addr, state)
        /\ dir' = IF f.reply = "NO_REPLY" THEN dir
                  ELSE [dir EXCEPT ![t][f.way].owner = None]
        /\ fresh' = IF ~f.peer /\ DownupReply(f) = "ACK_DATA"
                    THEN Receive(f.mod, f.addr, t \in fresh[f.addr])
                    ELSE fresh
        /\ lock' = Unlocked(t, f.way)
        /\ stk' = Wake(Later(s, k, "READ_REQUEST_FINISH"), t, f.way)
  /\ UNCHANGED <<acc, nextId>>

ReadRequestFinish(k) ==
  /\ At(k, "READ_REQUEST_FINISH")
  /\ acc' = IF stk[k].down
            THEN [acc EXCEPT ![stk[k].tgt] = Unlinked(@, k)]
            ELSE acc
  /\ stk' = Return(stk, k)
  /\ UNCHANGED <<blk, dir, lock, nextId, fresh>>

-----------------------------------------------------------------------------
(* Specification *)

Handler(k) ==
  \/ LoadLock(k) \/ LoadAction(k) \/ LoadMiss(k) \/ LoadUnlock(k)
  \/ LoadFinish(k)
  \/ StoreLock(k) \/ StoreAction(k) \/ StoreUnlock(k) \/ StoreFinish(k)
  \/ FindAndLock(k) \/ FindAndLockAction(k) \/ FindAndLockFinish(k)
  \/ Evict(k) \/ EvictInvalid(k) \/ EvictAction(k) \/ EvictReceive(k)
  \/ EvictProcess(k) \/ EvictReplyReceive(k)
  \/ Invalidate(k) \/ InvalidateFinish(k)
  \/ WriteRequestReceive(k) \/ WriteRequestAction(k)
  \/ WriteRequestUpdown(k) \/ WriteRequestUpdownFinish(k)
  \/ WriteRequestDownup(k) \/ WriteRequestFinish(k)
  \/ ReadRequestReceive(k) \/ ReadRequestLock(k) \/ ReadRequestError(k)
  \/ ReadRequestUpdown(k) \/ ReadRequestUpdownMiss(k)
  \/ ReadRequestUpdownFinish(k) \/ ReadRequestDownup(k)
  \/ ReadRequestDownupWaitForReqs(k) \/ ReadRequestDownupFinish(k)
  \/ ReadRequestFinish(k)

\* All accesses allowed by the bound have been issued and have finished.
Done ==
  /\ nextId > MaxAccesses /\ stk = <<>>
  /\ UNCHANGED vars

\* One event of the heap is handled; events due in this cycle come before
\* the cores run again, all others are due at some later cycle.
Due == \E k \in DOMAIN stk : stk[k].n > 0 /\ stk[k].now
StepOf(i) == /\ \E k \in DOMAIN stk : k[1] = i /\ Handler(k)
             /\ draining' = Due'
Event == \E i \in 1..MaxAccesses : StepOf(i)

Issue ==
  /\ nextId <= MaxAccesses
  /\ \E c \in Cores, b \in Blocks :
       \/ <<c, "load", b>> \in Workload[nextId] /\ Load(c, b)
       \/ <<c, "store", b>> \in Workload[nextId] /\ Store(c, b)

Next == Issue \/ Event \/ Done

Spec == Init /\ [][Next]_vars

\* esim_process_events executes every scheduled event in the end, so each
\* access that has one goes on.
FairSpec == Spec /\ \A i \in 1..MaxAccesses : WF_vars(StepOf(i))

-----------------------------------------------------------------------------
(* Properties *)

Labels == {"FAL", "EVICT", "INV", "REQ"} \cup Mods

\* Every stack, block, directory entry, lock and list has its type.
TypeOK ==
  /\ \A k \in DOMAIN stk :
       /\ k[1] \in 1..MaxAccesses
       /\ \A i \in 2..Len(k) : k[i] \in Labels
       /\ Len(k) > 1 => Parent(k) \in DOMAIN stk
       /\ stk[k].n \in 0..Cardinality(Mods) /\ stk[k].state \in States
  /\ \A m \in Mods : \A w \in Ways(m) :
       /\ blk[m][w] \in [tag : Blocks \cup {None}, state : States,
                         transient : Blocks \cup {None}]
       /\ dir[m][w] \in [owner : Mods \cup {None}, sharers : SUBSET Mods]
       /\ \A i \in DOMAIN lock[m][w].queue :
            lock[m][w].queue[i] \in DOMAIN stk
  /\ \A m \in Mods : \A i \in DOMAIN acc[m] : acc[m][i] \in DOMAIN stk
  /\ nextId \in 1..MaxAccesses + 1
  /\ fresh \in [Blocks -> SUBSET Mods]

\* The block in (m, w) has been given back to the low module, which may have
\* granted it to others; its way stays locked until the reply arrives.
Leaving(m, w) ==
  \E k \in DOMAIN stk : /\ stk[k].ev = "EVICT_REPLY_RECEIVE" /\ ~stk[k].err
                        /\ stk[k].mod = m /\ stk[k].src = w

\* The ways with a copy of b in m, and its state ("I" if there is none).
Copies(m, b) ==
  {w \in Ways(m) : /\ blk[m][w].tag = b /\ blk[m][w].state # "I"
                   /\ ~Leaving(m, w)}
Holds(m, b) ==
  IF Copies(m, b) = {} THEN "I" ELSE blk[m][Min(Copies(m, b))].state

\* Coherence: a core that may write b is the only core with a copy of it.
SingleWriter ==
  \A b \in Blocks : \A c, d \in Cores :
    c # d /\ Holds(c, b) \in {"M", "E"} => Holds(d, b) = "I"

\* Whatever a core can read without a request is the last value stored.
LoadsReadLatest ==
  \A b \in Blocks, c \in Cores : Holds(c, b) # "I" => c \in fresh[b]

\* A completing store merges its word into the last value of the block.
NoLostUpdate ==
  \A k \in DOMAIN stk :
    At(k, "STORE_UNLOCK") /\ ~stk[k].err =>
      stk[k].good \/ stk[k].mod \in fresh[stk[k].addr]

\* Some module always has the last value stored in a block.
DataSurvives == \A b \in Blocks : fresh[b] # {}

\* Directory and caches agree about b wherever no access is at work on it: a
\* module is recorded as a sharer exactly when it has a copy, as the owner
\* exactly when its copy is M, O or E, and no copy is without one below it.
DirectoryExact ==
  \A m \in Mods \ {MM}, b \in Blocks :
    LET low   == Low[m]
        busy  == \E v \in Ways(m) : /\ b \in {blk[m][v].tag, blk[m][v].transient}
                                    /\ lock[m][v].held
    IN /\ Holds(m, b) # "I" => Holds(low, b) # "I"
       /\ \A w \in Copies(low, b) :
            ~busy /\ ~lock[low][w].held =>
              /\ m \in dir[low][w].sharers <=> Holds(m, b) # "I"
              /\ dir[low][w].owner = m <=> Holds(m, b) \in {"M", "O", "E"}

\* The assertions of the handlers, at the events that evaluate them.
AssertionsHold ==
  \A k \in DOMAIN stk : LET f == stk[k] IN
    /\ At(k, "FIND_AND_LOCK") /\ ~f.down => Hits(f.mod, f.addr) # {}
    /\ At(k, "FIND_AND_LOCK_ACTION") /\ ~f.hit =>
         f.state # "I" \/ ~SharedOrOwned(f.mod, f.way)
    /\ At(k, "FIND_AND_LOCK_FINISH") => IF f.evict
                                        THEN f.err <=> blk[f.mod][f.way].state # "I"
                                        ELSE ~f.err
    /\ At(k, "EVICT") =>
         blk[f.mod][f.way].state # "I" \/ ~SharedOrOwned(f.mod, f.way)
    /\ At(k, "EVICT_REPLY_RECEIVE") => ~SharedOrOwned(f.mod, f.src)
    /\ At(k, "READ_REQUEST_RECEIVE") /\ f.down =>
         CanCoalesce(f.tgt, "load", f.addr, k, f.mod) = <<>>
    /\ At(k, "READ_REQUEST_ACTION") /\ f.err => f.down
    /\ At(k, "READ_REQUEST_ACTION") /\ ~f.err /\ f.down =>
         IF f.state = "I" THEN ~SharedOrOwned(f.tgt, f.way)
                          ELSE dir[f.tgt][f.way].owner # f.mod
    /\ At(k, "READ_REQUEST_ACTION") /\ ~f.err /\ ~f.down =>
         f.state \notin {"I", "S"}
    /\ At(k, "WRITE_REQUEST_ACTION") /\ f.err => f.down
    /\ At(k, "WRITE_REQUEST_UPDOWN_FINISH") /\ ~f.err =>
         dir[f.tgt][f.way].sharers \subseteq {f.mod}
    /\ At(k, "WRITE_REQUEST_EXCLUSIVE") /\ ~f.down =>
         f.state # "I" /\ ~SharedOrOwned(f.tgt, f.way)

\* No lost wakeup: a suspended find_and_lock stack is in the queue of a way,
\* and while a way has a queue it is locked or the stack woken last is going
\* to lock it, and will not find its block in another way.
NoStrandedWaiter ==
  /\ \A k \in DOMAIN stk :
       stk[k].ev = "FIND_AND_LOCK" /\ stk[k].n = 0 =>
         \E w \in Ways(stk[k].mod) : k \in ToSet(lock[stk[k].mod][w].queue)
  /\ \A m \in Mods : \A w \in Ways(m) :
       lock[m][w].queue # <<>> /\ ~lock[m][w].held =>
         \E k \in DOMAIN stk :
           /\ At(k, "FIND_AND_LOCK") /\ stk[k].mod = m
           /\ stk[Parent(k)].way = w
           /\ Hits(m, stk[k].addr) \subseteq {w}

\* When every access has finished nothing is left locked, queued or listed.
CleanWhenIdle ==
  stk = <<>> =>
    \A m \in Mods : /\ acc[m] = <<>>
                    /\ \A w \in Ways(m) : /\ ~lock[m][w].held
                                          /\ lock[m][w].queue = <<>>

\* Every access finishes, whatever it meets: its retries end.
AllFinish ==
  \A i \in 1..MaxAccesses : <<i>> \in DOMAIN stk ~> <<i>> \notin DOMAIN stk

\* What the cores see of their caches.
PermOf(state) ==
  CASE state \in {"M", "E"} -> "write"
    [] state \in {"O", "S"} -> "read"
    [] state = "I"          -> "none"

Abstract == INSTANCE Coherence WITH
  Caches <- Cores,
  perm   <- [c \in Cores |-> [b \in Blocks |-> PermOf(Holds(c, b))]],
  latest <- [c \in Cores |-> [b \in Blocks |->
               Holds(c, b) # "I" /\ c \in fresh[b]]]

\* The protocol implements the coherence that the cores rely on.
ImplementsCoherence == Abstract!Spec

\* "Only if previous write has not started yet" (module.c:737): a store joins
\* an older store that has not begun to look its block up.
CoalesceBeforeStart ==
  [][\A k \in DOMAIN stk' \ DOMAIN stk :
       stk'[k].kind = "store" /\ stk'[k].master # <<>> =>
         ~stk[stk'[k].master].ported]_vars
=============================================================================
