# A formal model of Multi2Sim

Multi2Sim is a cycle-level simulator of CPUs and GPUs. This directory holds TLA+
specifications of the parts of it in which many activities interleave:

* the memory hierarchy of `mem-system`, whose caches, directories and locks are
  kept coherent by the NMOESI protocol, handler by handler;
* the interconnection network of `network` between them: routing tables, and
  messages that travel through buffers and switches;
* the x86 emulator's contexts (processes and threads that create, wait for and
  finish each other, with host threads that sleep for them) and the scheduler of
  the timing simulator that maps them to hardware threads;
* the out-of-order pipeline of a hardware thread: renaming, reorder buffer and
  recovery.

What can go wrong is a lost store, two writers, a lost or reordered message, a
register freed twice, a sleeper nobody wakes up, a simulation that stalls.

All line numbers refer to the files under `src/src`.

## 1. Inventory

| Component | State | Operations | Meets |
|---|---|---|---|
| NMOESI handlers (`mem-system/nmoesi-protocol.c`) | one `mod_stack_t` per call in flight | load, store, nc-store, prefetch, find-and-lock, evict, invalidate, read and write request, peer | every other part of the memory system |
| Directory entries (`directory.c`) | owner, sharer bitmap, `num_sharers` per sub-block | set/clear sharer, set owner | changed by the handlers while they hold the lock of the way |
| Directory locks (`directory.c`) | flag and queue of waiting stacks per way, and per prefetch slot | `dir_entry_lock`, `dir_entry_unlock` | find-and-lock takes them, a dozen places release them |
| Modules (`module.c`) | access list, address hash table, ports, waiting lists | start/finish an access, coalesce, look a block up, wait in a stack | entry point `mod_access` of the processors |
| Caches (`cache.c`) | tag, transient tag, state, replacement order; stream buffers | set/get/replace a block | handlers |
| Event engine (`lib/esim/esim.c`, `lib/struct/heap.c`, loop of `m2s.c`) | heap of events by cycle | schedule, process the events of a cycle, drain | calls every handler |
| Network (`network/message.c`, `buffer.c`, `node.c`, `network.c`) | per buffer: messages, occupancy, busy times, wake-up list; per message: buffer and busy time | send, cross a link, cross a switch, receive, wait for room, arbitration | carries requests and replies between modules |
| Routing tables (`network/routing-table.c`) | cost, next node and output buffer per pair of nodes; `has_cycle` | initiate, Floyd-Warshall, configured routes, search for cycles | read by every hop |
| Stream-buffer prefetching (`nmoesi-protocol.c`, `cache.c`) | streams of slots, each with a lock | prefetch, hit in a slot, evict a slot | handlers and slot locks |
| Local memory (`local-mem-protocol.c`) | ports and accesses | load, store, find-and-lock | GPU pipelines |
| Functional memory, MMU, speculative memory | pages, translation table, journal | read, write, fork, undo | emulators |
| x86 contexts and events (`arch/x86/emu/context.c`, `emu.c`, `syscall.c`) | lists of contexts by status; parent, group, wake-up pid, host threads; `process_events_force` | clone, waitpid, futex, nanosleep, exit, exit_group, process events | system calls of fetched instructions; host threads |
| x86 context scheduler (`arch/x86/timing/sched.c`, `cpu.c`) | context on each hardware thread, eviction signals and their counter, allocation times | map, unmap, evict the stopped and the oldest, allocate | contexts; the stages, which drain before an eviction |
| x86 out-of-order pipeline (`arch/x86/timing`) | reorder buffer, queues, register file (table, busy counters, pending bits, free list) | dispatch, issue, write back, commit, recover | issues accesses; leaves speculative mode of the emulator |
| x86 front end, branch predictor, trace cache | fetch queue, predictor tables | fetch, decode, predict | delivers uops |
| Instructions, GPUs, ARM and MIPS, disassemblers, visual tool, library | - | - | - |

Where it is hard:

* *Interleaving.* A handler runs to its end, but an access is dozens of handlers
  long. It holds locks of ways at several levels while messages travel.
* *State read early and used late.* Stacks copy `state`, `way` and `tag` and go
  on with them events later.
* *Failure halfway.* Requests that go down do not wait for a locked entry: they
  fail, everything is unwound, and the access retries. Requests that go up wait.
* *Wakeups.* A lock wakes one waiter, which has to try again; an access list
  wakes all that wait in a stack.
* *Bookkeeping by hand.* Sharer bitmap, counter, owner, access lists and lock
  queues are intrusive structures that many places change; so are the register
  file (four views of which registers are free) and the lists of contexts.
* *Full buffers.* A message keeps its place while it waits for the next one.
* *Flags as messages.* Events are processed only when `process_events_force` is
  set, and the scheduler runs only when it is called for: a place that forgets to
  ask leaves somebody asleep.

What makes each part correct: the memory promises the cores one writer or many
readers per block and loads that read the last store; no access is forgotten
(no lost wakeup, every retry ends); the directory agrees with the caches; the
assertions in the handlers hold; nothing stays locked when the hierarchy is idle.
Routes are shortest paths and cycles are reported; between two end nodes the
network is a first in, first out channel, and without a cycle it delivers. Every
context that waits is woken up, every running one gets a hardware thread, every
zombie can be waited for. The register file's views agree, a uop reads what the
last writer before it wrote, and the reorder buffer never stalls for ever.
The list of hazards, each with its line and with the properties that would catch
it, is in `PROJECT.json`.

## 2. Modules

| Module | Models |
|---|---|
| `Coherence` | what the cores may rely on: permissions and freshness of copies |
| `Nmoesi` | the protocol, handler by handler, on any tree of modules; shown to implement `Coherence` |
| `LockQueue` | insertion into the queue of a directory lock (used by `DirLock` and `Nmoesi`) |
| `DirLock` | one directory lock with its queue and the stacks that use it |
| `Directory` | the directory entries of one way, with sub-blocks and counters |
| `RoutingTables` | what a routing table means: distances, hops, cycles |
| `Routing` | how it is filled: Floyd-Warshall, configured routes, the depth-first search |
| `Network` | messages, buffers, links, switches; uses `RoutingTables` for its instance and is shown to implement `Channel` |
| `Channel` | what the network promises between two end nodes |
| `Contexts` | the contexts of the x86 emulator, their system calls and events |
| `Scheduler` | extends `Contexts`: the cycle of the timing simulator and its context scheduler |
| `Pipeline` | the out-of-order part of one x86 hardware thread |
| `Lists` | the elements of a list that are in a set (used by `Network` and `Pipeline`) |
| `DirLockProofs`, `DirectoryProofs`, `RoutingProofs`, `NetworkProofs`, `SchedulerProofs`, `PipelineProofs`, `NmoesiProofs` | TLAPS proofs |
| `MC...` | small instances for TLC |

### Nmoesi

*State.* `stk` maps the path of an activation, `<<access id, label, ...>>`, to
the fields of its `mod_stack_t` that matter: the event scheduled next (`ev`, `n`
times), module and target module, address, way, block state, reply, error flag,
pending replies, the stack it waits in. The parent (`ret_stack`) is the path
without its last label. `blk`, `dir` and `lock` are the blocks, directory
entries and locks by module and way, `acc` the access lists, `nextId` the id
counter. `fresh` is a ghost: the modules whose copy of a block holds its last
store; it decides nothing.

*Actions.* One per handler event: `LoadLock` is `EV_MOD_NMOESI_LOAD_LOCK` and so
on. Some events are joined because nothing can happen between them that matters:

* a handler that only sends a message is joined with the arrival of the message
  (`READ_REQUEST` with `READ_REQUEST_RECEIVE`, the `_REPLY` events with the
  `_FINISH` events, the `PEER_*` events with `DOWNUP_FINISH`); the state change
  of the sender happens in the action before, the arrival at any later time;
* `FIND_AND_LOCK` with `FIND_AND_LOCK_PORT`, as a port is always free;
* `WRITE_REQUEST_EXCLUSIVE` with `_UPDOWN` or `_DOWNUP`, and `_DOWNUP` with
  `_DOWNUP_FINISH`, scheduled with delay 0 on data nobody else can change while
  the way is locked.

*Time.* Cycle numbers are abstracted: an event with a delay may come at any
later moment, in any order. Two orders are kept because the code depends on
them. Cores issue accesses only between two cycles (`draining`; the loop in
`m2s.c` at line 1145 runs the processors and then `esim_process_events`), and an
event scheduled with delay 0 is handled before that (`now`).

*Abstractions.* One set per cache. Blocks of all modules have the same size, so
an entry has one sub-block; `Directory` covers sub-blocks. The victim may be any
way, which covers LRU, FIFO and random replacement. `num_sharers` is the
cardinality of the sharer set (justified by theorem `CountIsExact`). Prefetching
is switched off (`prefetch_enabled = 0`), with one exception in the code that
remains: the coalescing that `READ_REQUEST_RECEIVE` attempts, asserted to find
only prefetches. Non-coherent stores are left out because `NC_STORE_LOCK` calls
find-and-lock without a `request_dir`, and the handler's first assertion stops
the simulation.

### Directory and DirLock

`Directory` keeps the entries of one way, with `num_sharers` as a separate
counter, and one action per handler passage that changes them. `only` is the
module spared by `INVALIDATE` while its write request holds the lock. `DirLock`
keeps one lock, its queue, and for each stack where it stands. A woken stack is
not given the lock: it tries again, and may be overtaken. `dir_pref_entry_lock`
and `dir_pref_entry_unlock` are the same code on prefetch slots.

### Coherence and the refinement

`Nmoesi!Abstract` maps a core's copy of a block to "write" (M, E), "read" (O, S)
or "none", and `fresh` to `latest`. A copy that has been given back by
`EVICT_PROCESS` counts as gone although its way is cleared only when the reply
arrives: the way is locked all the while, so no core can use it.
`ImplementsCoherence` is `Abstract!Spec`: every step of the protocol is a fill, a
store, a downgrade, a drop, or invisible. `Coherence` has no run and no theorem
of its own: that it has one writer or many readers, and copies of the last store
only, is what the guards of its actions say; the question is whether the
protocol implements it, which TLC answers on the instances of the runs.

`AssertionsHold` has the assertions of the handlers that the modelled paths
evaluate, except those on ports, and that of `mod_coalesce` on masters, which
`mod_can_coalesce` makes true when it returns the master (`MasterOf`).

### Routing

*State.* The links, the table, `has_cycle`, and the search: colours, parents and
the stack of pending calls of `routing_table_cycle_detection_dfs_visit`, since
the search returns early when it finds a cycle. *Actions.* One value of `k` of
the triple loop (`Relax`), the second pass that fills in output buffers
(`Outputs`), a configured route (`RouteUpdate`), and one iteration of the search.
A configured network searches for cycles after each route and never clears
`has_cycle`; `everCyclic` remembers what the answer should be. The buffers of one
node are in the order of the configuration file, which is any order: the search
begins with any white buffer of the first node that has one.

A node may be linked to itself: `net_add_link` refuses only a link between two
end nodes. Such links make two differences, both in how the search compares
parents. A buffer that waits for itself alone is excused, as each buffer starts
as its own parent: `CycleExact` and `NoRoutingLoop` leave just this circle out,
and `EveryLoopReported`, which does not, fails in configuration `self_link`. And
the entry of such a node for itself holds a route (an initial one, at cost 1),
which no message takes, but which the search follows: in a network with such a
link a cycle may be reported although no messages can be in one, so `CycleExact`
says "exactly" only where there is none. Of parallel links a table uses only one
(the last, in all three places that look for the link of a next node), so one
link for each pair of nodes is enough.

### Network and Channel

*State.* Buffers with the list of their messages and the counted occupancy, what
is busy for how many more cycles, and for each message the event it has next,
its buffer, when the event is due, and the wake-up list it is on. *Actions.* One
per outcome of a handler: a stall (not at the head, busy, or full), a crossing,
the arrival, the absorption. `Schedule` is the arbiter of an output buffer,
asked once per cycle; it ends the program at a head without a route. A switch is
where messages change buffers: end nodes have no bandwidth, and the program ends
when a message must cross one (`SwitchesForward`). Nothing in the construction
of a network prevents that; `WellRouted` says of a table that it does not
happen. `Tick` is the next cycle, when no event is left in this one: time is
exact here, as the latencies are what the code's busy fields are about.

The channel between two end nodes is what is on its way along the route, nearest
to the destination first; `ImplementsChannel` shows that every step is a put at
the end, a get at the front, or invisible. Bus nodes are not modelled.

### Contexts and Scheduler

`Contexts` keeps status, reason to wait, parent, group and host thread of each
context, and the flags `process_events_force` and `context_reschedule`. Its
actions are system calls, the end of a host thread's sleep, and
`x86_emu_process_events`, which handles all contexts in one action as the code
does under its lock. A context in nanosleep that has no host thread may be found
to have slept long enough, or gets one. The leader of a group may be freed before
its threads: what `x86_ctx_finish_group` then reads through `group_parent` is
either a finished context or not (`ExitGroup`); left out is that a new context
may have its place in memory. The instructions between system calls are invisible.

`Scheduler` runs the cycle of `x86_cpu_run`: the scheduler (`Evict`,
`EvictOldest`, `Allocate`, `EndSchedule`), the commit stage, which evicts a
context that was signalled once its pipeline is empty, fetch, which executes a
system call in the emulator, and the events. The loop that evicts stopped
contexts takes a context off the list it is traversing and ends there: the action
keeps that. Times of allocation and eviction are ages up to the quantum and an
order, which is all the code compares.

`WellBehaved` restricts guests in one way: a process ends by exit_group only when
all children of its members are finished. It is what `ZombiesAwaited` needs,
and the run `orphan` shows what happens without it.

### Pipeline

*State.* The reorder buffer with the renamed registers of each uop and how far it
is, the integer register file with its four views, the store queue's length, and
the squashed loads that the memory system has not answered (`stale`). *Actions.*
What a stage does with one uop. The order of stages, widths, latencies and
functional units are arbitrary, so the action is more liberal than a cycle. A
recovery squashes, undoes and gives up registers in one action. The queues are
derived from the states of the uops. Floating-point and vector registers go
through the same code and are left out.

## 3. Runs

All numbers are distinct states.

| Run | Instance | Checks | States |
|---|---|---|---|
| `directory` | 3 modules, 2 sub-blocks, blocks of one and of two sub-blocks | counter, owner, sole sharer at a write grant | 165 |
| `dirlock` | blocking and non-blocking stacks of several accesses | exclusion, queue, no lost wakeup, every stack served | 1.9k |
| `flat_evict` | 2 caches of one way, 2 blocks, memory directory of two ways, 3 accesses | the last store is kept, refinement | 235k |
| `two_ways` | 1 cache of two ways, 3 blocks in flight, one entry below | no waiter of a full set is stranded | 122k |
| `shared_l2` | 2 first-level caches, shared second level, memory; 2 blocks | assertions, single writer, exact directory, clean when idle | 148k |
| `race_live` | 2 caches, 1 block, 3 accesses, fair | no lost update, refinement, every access finishes | 71k |
| `routing` | every network of four nodes without self-links, and of three with them; every three configured routes on three nodes | shortest paths, no circle of several buffers missed and none invented without a self-link, no endless route but over one | 3.8M |
| `network` | 3 end nodes, 2 switches, 4 messages of two sizes, small buffers, tables with and without a cycle | lists and occupancy, assertions, no lost wakeup, stuck only on a cycle, delivery, first in first out | 85k |
| `scheduler` | 3 contexts, 2 hardware threads, quantum 1 | nodes and signals agree, no lost wakeup, no orphan zombie, everyone runs | 615k |
| `pipeline` | reorder buffer of 3, 3 physical registers, a flag, mispredicted branches at both kinds of recovery | register file, renaming, pending bits, no commit stall | 205k |

Further configurations of the same modules lie beside them, for slower or
narrower questions: `flat_race` (three caches over memory, one block, 168k
states: assertions, no lost update, refinement), and the configurations of
section *Disagreements*.

*Bounds.* `MaxAccesses` and `MaxInFlight` bound the accesses of a behaviour and
those in flight; everything else is finite by itself. Three accesses suffice for
the races the protocol has to resolve: one that creates a state (M, O, E, S),
and two that dispute it. Caches of one way make every second block an eviction,
and a victim below may be any way, so a miss may also evict from below.
`MaxUpdates` is the number of configured routes: a cycle among three nodes needs
three. `Networks` are the sets of links: all of them on three nodes, and on four
all without self-links, which need no fourth node to matter. The network's
buffers hold one large or two small messages, so that a message fits in one
buffer and not in the next, and a message that is delivered may be sent again
while others are on their way, so contention never ends. Three contexts are a
leader with a thread and a child, or with a child that has a child; two hardware
threads are fewer than the contexts that may run, and a quantum of one cycle
expires while a pipeline drains. Three physical registers for two logical ones
leave one to rename with: dispatch stalls for registers, and a register is free
and taken again while a squashed load still has it. `MaxAccess` bounds the loads
in flight. Cores and blocks are interchangeable where the workload is
`Anything`, so those runs use symmetry, except the one that checks liveness.

*Fairness.* `FairSpec` asks weak fairness of the steps of each access: an event
in the heap is handled when its cycle comes, since `esim_process_events` handles
all events of a cycle and the loop goes on. Nothing is assumed about the order
in which accesses get a lock or about the latencies of retries. `race_live`
holds under this alone. With evictions it does not: a retry that is always due
just before a woken waiter can lock the way again and again. The code schedules
the waiter for the next cycle and the retry after `latency` to `2 * latency - 1`
cycles, so the waiter is earlier unless the latency is 1; the model does not
know cycles and would blame the code for more than that, so liveness under
evictions is left for the model of the event engine. `DirLock`'s `FairSpec`
asks that scheduled stacks run and that holders unlock.

`Network` asks that the events of a cycle come to an end and that the next cycle
begins: `esim_process_events` handles every event of a cycle. A client is never
obliged to send. `Scheduler` asks that the loop of `x86_cpu_run` goes through its
stages, that a pipeline which fetches no more (its context is signalled) drains,
and that a host thread returns from `usleep`; contexts are not obliged to make
system calls, nor host threads to be quick. `Pipeline` asks that the memory
system answers, that functional units finish, and that the oldest uop is issued
when it is ready. Where the condition is about a state ("a drained pipeline") it
is written as such, `[]<>`, because the code promises the state and not the step.

### Disagreements

Two runs end in a violation on purpose. Each states what a comment or a check of
the repository says, and TLC shows a behaviour of the code that differs.

* `dirty_eviction`: `EVICT` keeps the state it read before the copies above were
  invalidated, so data modified in the first level and returned by the
  invalidation is not sent down; the last store is in no module any more. (The
  simulator keeps the values themselves elsewhere, in `memory.c`; what is wrong
  is the traffic and the states of the blocks.)
* `orphan`: `x86_ctx_finish_group` does not do for the children of the group what
  `x86_ctx_finish` does: a child keeps a parent that is finished. When it ends
  it becomes a zombie "waiting for a call to waitpid" that nobody can make, and
  the simulation, which ends when all contexts are finished, goes on for ever.

Seven more configurations end in a violation too; TLC finds each with
`tlc -config <name>.cfg` on the module of its component.

* `self_link`: switch 1 is linked to itself and to end node 2, and the
  configuration says `1.to.2 = 1`. A message for 2 goes round and round over the
  self-link, but the search excuses a buffer that is its own parent and
  `has_cycle` stays 0, against err_net_cycle and the comment above the search.
* `end_node_relay`: W1 and W2 are joined by end node E3 only, so the shortest path
  from E1 to E2 leads through it. The network is accepted, and the first message
  that gets to E3 on its way to E2 stops the simulation at
  `assert(node->kind != net_node_end)`.
* `exclusive_grant`: a second-level cache in state S grants its block exclusive.
* `owner_livelock`: a read that holds the directory entry below waits for an
  older store of the owner, whose upgrade fails on that entry and retries.
* `store_coalescing`: a store joins one that has already started.
* `dirlock_order`: the lock queue is not ordered by age.
* `stale_writeback`: a squashed load that the memory system answers late marks its
  physical register written although the register belongs to another uop by
  then, whose consumers issue before it has executed. (Nothing stalls, and values
  are the emulator's; the timing is too early.)

`dirty_eviction` and `exclusive_grant` appear only below a second level, which
is why `shared_l2` checks `SingleWriter` on one second-level cache and does not
check `DataSurvives`, and why the refinement is checked on hierarchies with one
directory. (A further difference has no configuration: the comment above
`mod_in_flight_address` promises the youngest older access and the code returns
the oldest one; the caller repeats the search when it wakes, so either serves.)
`owner_livelock` needs three caches; `race_live` shows that two cannot produce
it with one block and three accesses.

## 4. Proofs

The theorems hold for every value of the constants, without the bounds of TLC.

* `DirectoryProofs`: `TypeCorrect`, `CountIsExact`, `OwnerIsAlwaysSharer`,
  `WriteGrantAssertion`. The assertion `num_sharers == 1` of
  `WRITE_REQUEST_UPDOWN_FINISH` is about the counter, which only the bitmap
  explains: the invariant says that each entry's counter is the size of its
  bitmap and its owner a member of it (`Sound`), and that after `INVALIDATE`
  nobody but the spared module shares the way (`Spared`). The lemmas say that
  each operator of `directory.c` keeps an entry sound. Assumption: finitely many
  nodes, and `None` is not one.
* `DirLockProofs`: `TypeCorrect`, `LockIsExclusive`, `QueueIsExact`,
  `NoWakeupIsLost`. `EnqueueShape` describes what linking a stack into the queue
  does to every position; with it the queue is shown to hold each suspended
  stack once. The invariant adds that only blocking stacks wait: a woken waiter
  must be one that comes back to lock the entry. Assumption: stacks are
  non-empty tuples of naturals.

* `RoutingProofs`: `RoutesAreShortest`, `CyclesReportedExactly`,
  `RoutesWithoutLoops`, for every number of nodes, every set of links and any
  sequence of configured routes, with self-links; all three follow from
  `RoutingInductive`. Its invariant has two halves. *The table:* after `k`
  rounds of the triple loop a cost is the length of some path (`CostsExact`),
  there is no shorter one through the nodes used so far (`NoDetour`), a next
  node is strictly closer (`NextCloser`). So `FollowPath` ends at a neighbour,
  and the route is walked in as many hops as the cost says (`DistanceExact`,
  `FirstHopExact`, `HopArrives`). *The search:* gray buffers are those of the
  pending calls, each call's parent the one before it, black buffers wait for
  black ones only and not in a circle (`Grays`, `Parents`, `Blacks`, `Looked`).
  A gray buffer whose parent is another one then closes a circle of pending
  calls; and when the search ends all buffers are black, so none is. The
  converse needs that an entry of a node for itself is empty, which holds
  without self-links. That a route without a cycle of buffers ends within `Dim`
  hops, or at a node that sends to itself, is a pigeonhole argument
  (`NoCycleNoLoop`). Assumptions: there is a node, `Nil` is no node and no pair
  of nodes, and the networks are sets of pairs of nodes (`NetworksAssumption`).
* `NetworkProofs`: `WakeupsNotLost`, `BuffersStayExact`,
  `NetworkAssertionsHold`, `NeverStuckWithoutCycle`, `NetworkTypeCorrect`,
  `NetworkImplementsChannel`, for every topology, routing table, bandwidth and
  set of messages. For the wake-ups the invariant says that the stage of a
  message tells what kind of buffer it is in, and that a message is on the list
  of its buffer: an append then never changes the head that a waiter is behind,
  and a buffer that is entered only gets fuller for those that wait for room.
  The occupancy needs that lists have no duplicates (`ListsExact`) and that
  appending and removing change the sum over a list by one size (`CountsExact`);
  the assertions need that busy times are those of the last transfer
  (`TimesExact`), that the arbiter's choice is the head of its buffer
  (`ChoicesExact`), and that a message is where its route leads (`OnRoute`). The
  assertions on the node where a message changes buffers hold only of routes
  that lead through switches: `NetworkAssertionsHold` says that
  `WellRouted(route)` implies them all, as the route that brought a message to a
  node goes on from it (`RouteGoesOn`); `end_node_relay` shows a table of
  shortest paths that is not well routed. In a stuck state every waiter's output
  buffer waits for another one that is full; a table without cycles leaves one
  that waits for none. For the channel, `Way` is the list of nodes a route
  visits: without a cycle no node comes twice, so it ends within as many hops as
  there are nodes and each of its links is used at one place only (`Straight`,
  `HopsDiffer`). The invariant adds that a message in the network is on a link
  of its own way (`OnWays`). What is in transit is a chain of what each link has
  of these messages (`Chain`), where the links a step does not touch contribute
  the same before and after (`SameBefore`, `SameAfter`). `Send` then appends at
  the last link (`MovingSend`), an absorption takes the head at the first one
  (`MovingAbsorb`), a message that crosses a link stays where it was in the
  link's part (`CrossPart`), and one that crosses a switch leaves the head of a
  part for the end of the one before it (`MovingSwitch`). A table with a cycle
  promises nothing, its channels are empty. Assumptions: finitely many nodes;
  routes name output buffers of their own node; a table that reports no cycle
  has none (`Acyclic`: `CyclesReportedExactly` shows of the search that sets
  `has_cycle` that it misses no circle of several buffers; a route over a
  self-link is excluded by this assumption, and with it the stall of
  `self_link`); an end node has no bandwidth and anything else has; no link
  joins two end nodes; messages are from end node to end node; every message
  fits in an empty buffer (the code stops otherwise); the ends of a message
  differ.
* `SchedulerProofs`: `WakeupsNotLost`, `NoOrphanZombies`,
  `NodesAndContextsAgree`, `ContextsTypeCorrect`, `SchedulerTypeCorrect`, for
  any number of contexts and nodes and any workload. Its first part shows for
  each action of the emulator that it preserves `EmuInv` and `Family`; its
  second that the scheduler changes contexts by these actions and by freeing
  finished ones only. `EmuInv` needs the order of pids and the shape of
  families: parents and leaders are older and groups have one level, so a
  leader's parent is not of its group, and threads join within their group, so
  nobody sleeps on a thread that exit_group finishes. `Family` says that whoever
  is not finished has a living parent or none: exit establishes it for the
  children, exit_group only under `WellBehaved`, the assumption of
  `NoOrphanZombies`. `CpuInv` strengthens the mapping: a signalled context is on
  a node with a pipeline that is not empty, and the oldest context is looked for
  only when nobody is leaving; otherwise the counter of signals, set to 1 there,
  would be wrong.
* `PipelineProofs`: `PipelineTypeOK`, `PipelineRegistersExact`,
  `PipelineRenamingExact`, `PipelinePendingHasProducer`, for any logical and
  physical registers, any uops and any queue sizes; all follow from
  `PipelineInvariant`. The properties relate the register file to the reorder
  buffer but are not inductive: that undoing the squashed outputs from the tail
  restores the right table depends on what each of them replaced. The invariant
  therefore says that the outputs in the reorder buffer, laid end to end
  (`Layout`), form a chain of mapping tables (`Chained`): each output's old
  register is the mapping before it, its new one the mapping after it, the last
  table is `rat`, and every uop has read its inputs in the table at its place
  (`History`, `Recorded`). Dispatch prolongs the chain at its end, commit drops
  its beginning, and a recovery cuts its end off, where `Restore` is shown to be
  the table at the cut (`RestoreIs`). With `CountExcept` one step of a chain moves
  one reference from a register to another, so over a stretch of the chain
  the references given up are those gained (`Exchange`): this is why the busy
  counter is the mappings plus the undo records (`Registers`), and why `Drop` is
  exactly what a commit or a squash owes. The free list has the registers with
  counter 0, once each (`FreeExact`), whatever `Among` finds idle. The queues
  need that stores wait until they commit and that squashed loads and those of
  the reorder buffer fit in the memory system together (`Fits`); pending bits
  need a producer in the reorder buffer (`ProducedBy`), which a recovery keeps
  because it writes what it squashes. TLC checked this invariant first, on the
  instance of the run. Assumptions: finitely many logical registers, and uops
  whose operands are logical registers; stores have no outputs.
* `NmoesiProofs`: `NmoesiTypeCorrect`, `NmoesiCleanWhenIdle`,
  `NmoesiLocksExclude`, `NmoesiSleepersQueued`, for every tree of modules, every
  number of ways, blocks and accesses, and every workload. All follow from
  `NmoesiInductive`, whose invariant has four parts. *Calls:* a stack is an access
  or has a caller whose event is one that waits for this kind of call (`Called`);
  the caller has no event of its own scheduled, except in the three events that
  wait for several replies, where those to come and those that have come add
  up to `pending` (`Counted`). *Locks:* a way is held exactly if one stack is
  in an event that relies on it, or has just been told so by its find-and-lock
  (`Locks`); the queue of a way has the suspended stacks that wait for it, once
  each. *Lists:* an access list has exactly the accesses of its module and the
  read requests from above, once each. *Caches:* blocks and entries have their
  types, and main memory has no block in S or O, so that no request ever goes
  below it. The lock changes hands between stacks: `FIND_AND_LOCK` takes it, its
  return passes it to the caller, and the caller's later event, the error paths
  included, releases it; the lemmas `KeepsLocks`, `AcquiresLock`, `PassesLock`,
  `ReleasesLock` and `EnqueuesLock` say what each kind of step does to the
  invariant, and `StackGrows`, `StackRecounts` and `StackLeaves` do the same for
  calls and returns. One lemma per handler then says which kinds of step it
  consists of. TLC checked the invariant first, on `two_ways` and `shared_l2`.
  Assumptions: `TreeAssumption`, that is, finitely many modules, each but main
  memory with a low module, and cores that are nobody's low module.

Recursive functions (the hops of a route, the occupancy of a list, the nodes
within reach) are reasoned about without the library's induction theorems, whose
operator parameters the provers cannot instantiate: a statement about all
numbers up to a bound is proved by looking at the least one for which it fails
(lemmas `Least` and `Upwards`), and that a recursive definition is the function
it describes comes from `IterationExists`, itself proved that way.

Only model-checked: the coherence of `Nmoesi` (single writer, the last store, the
exact directory, the handlers' assertions, its refinement of `Coherence`), which
needs an invariant about what every stack in flight knows of the copies above
and below it, and the second half of `NoStrandedWaiter` (that a woken stack does
not find its block elsewhere); and all liveness (fairness is out of the prover's
reach). Of the coherence properties some are false on some trees (`DataSurvives`
in `dirty_eviction`, `SingleWriter` in `exclusive_grant`), so that a theorem
about them would need a condition on the tree.

## 5. Not modelled

* *Memory system:* prefetching, ports, cycle times and the finalization of the
  event engine, replacement orders (any victim is allowed), local memory,
  non-coherent stores (they stop the simulation). `cpu-coherence.c` and
  `gpu-coherence.c` are earlier protocols that the build does not contain.
* *Network:* bus nodes and lanes; sizes above a buffer's, which end the program.
* *x86 emulator:* signals, timers, poll, and suspension in read and write; futex
  commands other than the wait and wake-up of a joined thread; host threads that are
  cancelled too late (they write to freed memory); instruction semantics.
* *x86 timing:* the static scheduler, fast forward, the front end, branch
  prediction and trace cache; floating-point and vector registers; a second
  hardware thread in one pipeline. The values of registers: only who writes them.
* *GPUs, ARM, MIPS, disassemblers, visual tool, configuration, library:* input
  and output, instruction semantics, data structures.

`PROJECT.json` gives the reason for each.

## 6. Plan

1. *Core (done).* Coherence, directory, locks, protocol handlers.
2. *Network (done).* Routing tables; buffers, links, switches; the channel.
3. *x86 (done).* Contexts and scheduler; the out-of-order pipeline.
4. *Event engine.* The heap, cycles, end events, draining, `esim_empty`: no event
   is handled early, late or twice; then ports and retry latencies of the
   protocol, and liveness with evictions. Messages of `Nmoesi` carried by
   `Channel` instead of arriving in any order.
5. *Stream buffers.* Prefetch handlers and slot locks; the stranded-waiter
   question of `src/src/TODO`.
6. *More of x86.* Signals and `poll` in `Contexts`; two hardware threads in
   `Pipeline`; buses in `Network`.
7. *More proofs.* The coherence of `Nmoesi` on top of `NmoesiInv`, starting with
   the assertions of the handlers.
