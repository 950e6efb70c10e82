------------------------------ MODULE Scheduler ------------------------------
(***************************************************************************)
(* The x86 timing simulator as its context scheduler sees it: nodes        *)
(* (hardware threads) that contexts are mapped to and evicted from, and    *)
(* the cycle x86_cpu_run: scheduler, commit, fetch, events.  A pipeline is *)
(* empty or not; an instruction takes effect in the emulator when it is    *)
(* fetched.                                                                *)
(*                                                                         *)
(* Entering and leaving speculative mode moves a context to the head of    *)
(* the emulator's lists, so the order of these lists is arbitrary here.    *)
(* Times are kept as ages, up to the quantum, and as an order.             *)
(***************************************************************************)
EXTENDS Contexts

CONSTANTS MaxNode,     \* cores times threads
          Quantum      \* x86_cpu_context_quantum

ASSUME SchedulerAssumption == MaxNode \in Nat \ {0} /\ Quantum \in Nat \ {0}

Node == 1..MaxNode

VARIABLES pc,          \* where the cycle is
          ctxOn,       \* X86_THREAD.ctx
          used,        \* X86_THREAD.last_alloc_pid is set
          busy,        \* the pipeline is not empty
          signal,      \* ctx->dealloc_signal
          signals,     \* x86_cpu->ctx_dealloc_signals
          lastNode,    \* ctx->alloc_core, alloc_thread
          allocAge,    \* cycles since ctx->alloc_when
          oldest,      \* cycles since x86_cpu->ctx_alloc_oldest
          left,        \* ctx->dealloc_when, as an order; 0 if never evicted
          leftNow      \* a context was evicted in this cycle

cpuVars == <<ctxOn, used, busy, signal, signals, lastNode, allocAge, oldest, left, leftNow>>
vars == <<emuVars, pc, cpuVars>>

Alloc == {c \in Ctx : \E n \in Node : ctxOn[n] = c}
NodeOf(c) == CHOOSE n \in Node : ctxOn[n] = c
Latest == CHOOSE r \in {left[c] : c \in Ctx} : \A c \in Ctx : left[c] <= r

TypeOK ==
    /\ EmuTypeOK
    /\ pc \in {"sched", "oldest", "allocate", "commit", "fetch", "stop"}
    /\ ctxOn \in [Node -> Ctx \cup {None}]
    /\ used \in [Node -> BOOLEAN] /\ busy \in [Node -> BOOLEAN]
    /\ signal \in [Ctx -> BOOLEAN] /\ signals \in 0..MaxNode
    /\ lastNode \in [Ctx -> Node \cup {None}]
    /\ allocAge \in [Ctx -> 0..Quantum] /\ oldest \in 0..Quantum
    /\ left \in [Ctx -> 0..MaxCtx] /\ leftNow \in BOOLEAN

Init ==
    /\ EmuInit
    /\ pc = "sched"
    /\ ctxOn = [n \in Node |-> None]
    /\ used = [n \in Node |-> FALSE] /\ busy = [n \in Node |-> FALSE]
    /\ signal = [c \in Ctx |-> FALSE] /\ signals = 0
    /\ lastNode = [c \in Ctx |-> None]
    /\ allocAge = [c \in Ctx |-> 0] /\ oldest = 0
    /\ left = [c \in Ctx |-> 0] /\ leftNow = FALSE

-----------------------------------------------------------------------------
(* x86_cpu_map_context and x86_cpu_unmap_context *)

unmapVars == <<ctxOn, lastNode, left, leftNow, status, relatives>>

\* f as an order: the same, without gaps.
Ranked(f) ==
    [d \in Ctx |-> Cardinality({f[e] : e \in {x \in Ctx : 0 < f[x] /\ f[x] <= f[d]}})]

\* x86_cpu_unmap_context of the contexts of S: they leave last, beside those
\* that left earlier in the cycle; one that is finished is freed.  What is kept
\* for the next time is dropped here if there is none.
Unmap(S) ==
    LET dead == {c \in S : Dead(c)}
        now == IF leftNow THEN Latest ELSE Latest + 1
    IN
    /\ ctxOn' = [n \in Node |-> IF ctxOn[n] \in S THEN None ELSE ctxOn[n]]
    /\ Free({c \in S : status[c] = "finished"})
    /\ left' = Ranked([c \in Ctx |-> IF c \in dead THEN 0 ELSE IF c \in S THEN now ELSE left[c]])
    /\ lastNode' = [c \in Ctx |-> IF c \in dead THEN None ELSE lastNode[c]]
    /\ leftNow' = (leftNow \/ S # {})

\* x86_cpu_context_to_cpu: the node c had before, a node never used, any free node.
FreeNodes == {n \in Node : ctxOn[n] = None}
NodesForAgain(c) ==    \* bug: the old node, free or not
    IF lastNode[c] # None THEN {lastNode[c]}
    ELSE IF \E n \in FreeNodes : ~ used[n] THEN {n \in FreeNodes : ~ used[n]}
    ELSE FreeNodes
NodesFor(c) ==
    IF lastNode[c] \in FreeNodes THEN {lastNode[c]}
    ELSE IF \E n \in FreeNodes : ~ used[n] THEN {n \in FreeNodes : ~ used[n]}
    ELSE FreeNodes

-----------------------------------------------------------------------------
(* x86_cpu_dynamic_schedule *)

CalledOnChange == signals = 0 /\ reschedule    \* bug: no quantum
Called == signals = 0 /\ (reschedule \/ oldest = Quantum)

\* x86_cpu_run: all contexts finished.
Stop ==
    /\ pc = "sched"
    /\ \A c \in Present : status[c] = "finished"
    /\ pc' = "stop"
    /\ UNCHANGED <<emuVars, cpuVars>>

NotCalled ==
    /\ pc = "sched" /\ ~ Called /\ \E c \in Present : status[c] # "finished"
    /\ pc' = "commit"
    /\ UNCHANGED <<emuVars, cpuVars>>

\* The contexts to evict: allocated, and not running.
Stopped == {c \in Alloc : status[c] # "running" /\ ~ signal[c]}
Drained(c) == ~ busy[NodeOf(c)]

\* "Evict non-running contexts".  The loop ends at a context whose pipeline is
\* empty: x86_cpu_unmap_context takes it off the list that is being traversed.
EvictStopped ==
    \E before \in SUBSET {c \in Stopped : ~ Drained(c)}, last \in SUBSET {c \in Stopped : Drained(c)} :
       /\ IF last = {} THEN before = Stopped ELSE Cardinality(last) = 1
       /\ Unmap(last)
       /\ signal' = [c \in Ctx |-> signal[c] \/ c \in before]
       /\ signals' = Cardinality(before)

\* As many contexts are allocated as are running (the code compares only their
\* numbers): nothing to allocate, and the quantum starts again.
Evict ==
    /\ pc = "sched" /\ Called /\ \E c \in Present : status[c] # "finished"
    /\ EvictStopped
    /\ LET alloc == {c \in Ctx : \E n \in Node : ctxOn'[n] = c} IN
       IF Cardinality(alloc) = Cardinality(Running)
       THEN /\ pc' = "commit"
            /\ oldest' = 0
            /\ allocAge' = [c \in Ctx |-> IF c \in alloc THEN 0 ELSE allocAge[c]]
            /\ reschedule' = FALSE
       ELSE /\ pc' = IF oldest = Quantum /\ signals' = 0 THEN "oldest" ELSE "allocate"
            /\ UNCHANGED <<oldest, allocAge, reschedule>>
    /\ UNCHANGED <<waits, sleeper, force, used, busy>>

\* The quantum has expired and nobody is leaving: the oldest context must go.
EvictOldest ==
    /\ pc = "oldest"
    /\ pc' = "allocate"
    /\ IF Alloc = {} THEN UNCHANGED <<unmapVars, signal, signals>>
       ELSE \E c \in Alloc :
               /\ \A d \in Alloc : allocAge[d] <= allocAge[c]
               /\ IF Drained(c)
                  THEN Unmap({c}) /\ UNCHANGED <<signal, signals>>
                  ELSE /\ signal' = [signal EXCEPT ![c] = TRUE]
                       /\ signals' = 1
                       /\ UNCHANGED unmapVars
    /\ UNCHANGED <<waits, sleeper, force, reschedule, used, busy, allocAge, oldest>>

Waiting == Running \ Alloc
MayAllocate ==
    /\ Cardinality(Alloc) < Cardinality(Running) /\ Cardinality(Alloc) < MaxNode
    /\ Waiting # {}

\* The running context that left earliest is mapped to the first of
\* the nodes for it.
Allocate ==
    /\ pc = "allocate" /\ MayAllocate
    /\ \E c \in Waiting : \E n \in NodesFor(c) :
          /\ \A d \in Waiting : left[c] <= left[d]
          /\ \A m \in NodesFor(c) : n <= m
          /\ ctxOn' = [ctxOn EXCEPT ![n] = c]
          /\ used' = [used EXCEPT ![n] = TRUE]
          /\ lastNode' = [lastNode EXCEPT ![c] = n]
          /\ allocAge' = [allocAge EXCEPT ![c] = 0]
    /\ UNCHANGED <<emuVars, pc, busy, signal, signals, oldest, left, leftNow>>

EndSchedule ==
    /\ pc = "allocate" /\ ~ MayAllocate
    /\ LET ages == {allocAge[c] : c \in {d \in Alloc : ~ signal[d]}}
       IN  oldest' = IF ages = {} THEN 0 ELSE CHOOSE a \in ages : \A b \in ages : b <= a
    /\ reschedule' = FALSE
    /\ pc' = "commit"
    /\ UNCHANGED <<status, waits, relatives, sleeper, force,
                   ctxOn, used, busy, signal, signals, lastNode, allocAge, left, leftNow>>

-----------------------------------------------------------------------------
(* The stages of the pipeline *)

\* Bug: ctx_dealloc_signals goes down with every pipeline that drains.
CommitCountsAll ==
    /\ pc = "commit" /\ pc' = "fetch"
    /\ \E drained \in SUBSET {n \in Node : busy[n]} :
          LET evicted == {c \in Ctx : signal[c] /\ \E n \in drained : ctxOn[n] = c} IN
          /\ busy' = [n \in Node |-> busy[n] /\ n \notin drained]
          /\ Unmap(evicted)
          /\ signal' = [c \in Ctx |-> signal[c] /\ c \notin evicted]
          /\ signals' = signals - Cardinality(drained)
          /\ reschedule' = (reschedule \/ evicted # {})
    /\ UNCHANGED <<waits, sleeper, force, used, allocAge, oldest>>

\* x86_cpu_commit: some pipelines retire their last instruction; a context that
\* has been signalled is evicted then.
Commit ==
    /\ pc = "commit" /\ pc' = "fetch"
    /\ \E drained \in SUBSET {n \in Node : busy[n]} :
          LET evicted == {c \in Ctx : signal[c] /\ \E n \in drained : ctxOn[n] = c} IN
          /\ busy' = [n \in Node |-> busy[n] /\ n \notin drained]
          /\ Unmap(evicted)
          /\ signal' = [c \in Ctx |-> signal[c] /\ c \notin evicted]
          /\ signals' = signals - Cardinality(evicted)
          /\ reschedule' = (reschedule \/ evicted # {})
    /\ UNCHANGED <<waits, sleeper, force, used, allocAge, oldest>>

\* x86_cpu_can_fetch; the instruction executes in the emulator.
Fetch(n) ==
    LET c == ctxOn[n] IN
    /\ pc = "fetch" /\ c \in Running /\ ~ signal[c]
    /\ busy' = [busy EXCEPT ![n] = TRUE]
    /\ \/ UNCHANGED emuVars
       \/ SystemCall(c)
    /\ UNCHANGED <<pc, ctxOn, used, signal, signals, lastNode, allocAge, oldest, left, leftNow>>

\* Host threads run at any time; only the events read what they write.
Host(c) ==
    /\ pc = "fetch"
    /\ HostThread(c)
    /\ UNCHANGED <<pc, cpuVars>>

Older(age) == IF age = Quantum THEN Quantum ELSE age + 1

\* x86_emu_process_events ends the cycle.
Events ==
    /\ pc = "fetch" /\ pc' = "sched"
    /\ IF force THEN ProcessEvents ELSE UNCHANGED emuVars
    /\ allocAge' = [c \in Ctx |-> IF c \in Alloc THEN Older(allocAge[c]) ELSE 0]
    /\ oldest' = Older(oldest)
    /\ leftNow' = FALSE
    /\ UNCHANGED <<ctxOn, used, busy, signal, signals, lastNode, left>>

Cycle == Stop \/ NotCalled \/ Evict \/ EvictOldest \/ Allocate \/ EndSchedule \/ Commit \/ Events

Next ==
    \/ Cycle
    \/ \E n \in Node : Fetch(n)
    \/ \E c \in Ctx : Host(c)

\* The loop of x86_cpu_run goes on until it stops; what is in a pipeline that
\* fetches no more commits; a host thread wakes up from usleep.
Fairness ==
    /\ []<>(pc \in {"fetch", "stop"}) /\ []<>(pc # "fetch")
    /\ \A n \in Node : []<> ~ (busy[n] /\ signal[ctxOn[n]])
    /\ \A c \in Ctx : []<> (sleeper[c] # "active")

Spec == Init /\ [][Next]_vars /\ Fairness

-----------------------------------------------------------------------------
(* Properties *)

\* The nodes, the contexts and the counter of signals agree: a context is on
\* one node at most and not after it was freed, only instructions of its
\* context are in a node's pipeline, a signal is for a context that is on a
\* node, and x86_cpu->ctx_dealloc_signals counts them.
MappingExact ==
    /\ \A m, n \in Node : ctxOn[m] = ctxOn[n] /\ ctxOn[m] # None => m = n
    /\ \A c \in Alloc : c \in Present /\ lastNode[c] = NodeOf(c)
    /\ \A n \in Node : busy[n] => ctxOn[n] # None
    /\ \A c \in Ctx : signal[c] => c \in Alloc /\ (pc = "commit" => busy[NodeOf(c)])
    /\ signals = Cardinality({c \in Ctx : signal[c]})

\* Every running context gets its turn on a node: the quantum of those that are
\* on one expires, and evictions end.
EveryoneRuns == \A c \in Ctx : []<>(c \notin Waiting)
=============================================================================
