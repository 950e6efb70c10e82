------------------------------ MODULE Pipeline ------------------------------
(***************************************************************************)
(* The out-of-order part of an x86 hardware thread: dispatch with register *)
(* renaming, the reorder buffer, issue, write-back, commit, and the        *)
(* recovery from a mispredicted branch, with the integer register file     *)
(* that all of them change.                                                *)
(*                                                                         *)
(* An action is what a stage does with one uop.  Latencies, widths and     *)
(* functional units are arbitrary, and so is the order of the stages.  The *)
(* front end delivers any uops of Menu; those that follow a mispredicted   *)
(* branch are in speculative mode until the thread recovers.               *)
(***************************************************************************)
EXTENDS Naturals, SequencesExt, Lists

CONSTANTS
    Loreg, Flag,     \* logical integer registers, and which of them are flags
    Size,            \* x86_reg_file_int_local_size
    Menu,            \* the uops: [kind, ins, outs], with outs a sequence
    RobSize, IqSize, LsqSize,
    MaxAccess,       \* bound: loads that the memory system takes at a time
    Start            \* x86_reg_file_init_thread: the first physical registers

Kind == {"alu", "branch", "missed", "load", "store"}   \* missed: neip # pred_neip
Phreg == 0..(Size - 1)

ASSUME PipelineAssumption ==
    /\ IsFiniteSet(Loreg) /\ Flag \subseteq Loreg /\ Size \in Nat \ {0}
    /\ \A t \in Menu : /\ t.kind \in Kind /\ t.ins \subseteq Loreg /\ t.outs \in Seq(Loreg)
                       /\ t.kind = "store" => t.outs = <<>>
    /\ RobSize \in Nat /\ IqSize \in Nat /\ LsqSize \in Nat /\ MaxAccess \in Nat
    /\ Start \in [Loreg -> Phreg]

VARIABLES
    rob,        \* the thread's uops, oldest first
    rat,        \* int_rat
    busy, pending,   \* int_phreg[].busy, int_phreg[].pending
    free,       \* int_free_phreg
    count,      \* reg_file_int_count
    stores,     \* committed stores that are still in the store queue
    stale,      \* squashed loads in flight that have physical register p as output
    spec,       \* the context is in speculative mode
    recover     \* x86_cpu_recover_kind

regs == <<rat, busy, pending, free, count>>
vars == <<rob, regs, stores, stale, spec, recover>>

\* Indices of the reorder buffer, and those of the outputs of uop i.
Entry == 1..Len(rob)
Outs(i) == DOMAIN rob[i].outs
Mem(u) == u.kind \in {"load", "store"}

TypeOK ==
    /\ \A i \in Entry :
          /\ rob[i].kind \in Kind /\ rob[i].spec \in BOOLEAN
          /\ rob[i].state \in {"waiting", "executing", "memory", "arrived", "completed"}
          /\ \A l \in DOMAIN rob[i].ins : rob[i].ins[l] \in Phreg
          /\ \A k \in Outs(i) : rob[i].outs[k].ph \in Phreg /\ rob[i].outs[k].old \in Phreg
    /\ rat \in [Loreg -> Phreg]
    /\ busy \in [Phreg -> Nat] /\ pending \in [Phreg -> BOOLEAN]
    /\ free \in Seq(Phreg) /\ count \in 0..Size
    /\ Len(rob) <= RobSize /\ stores \in 0..LsqSize
    /\ stale \in [Phreg -> 0..MaxAccess]
    /\ spec \in BOOLEAN /\ recover \in {"writeback", "commit"}

Mapped(p) == {l \in Loreg : Start[l] = p}

Init ==
    /\ rob = <<>>
    /\ rat = Start
    /\ busy = [p \in Phreg |-> Cardinality(Mapped(p))]
    /\ pending = [p \in Phreg |-> FALSE]
    /\ free = Among([k \in 1..Size |-> k - 1], {p \in Phreg : Mapped(p) = {}})
    /\ count = Size - Len(free)
    /\ stores = 0
    /\ stale = [p \in Phreg |-> 0]
    /\ spec = FALSE
    /\ recover \in {"writeback", "commit"}

-----------------------------------------------------------------------------
(* The register file *)

Before(t, k) == {j \in 1..(k - 1) : t.outs[j] \notin Flag}

\* The new register of output k: its own, taken from the end of the free list,
\* or for flags the first one of the uop.
New(t, k) == free[Len(free) - IF t.outs[k] \in Flag THEN 0 ELSE Cardinality(Before(t, k))]

\* Bug: a uop whose only outputs are flags needs no register.
NeededNoFlags(t) == Cardinality(Before(t, Len(t.outs) + 1))

\* ph_int_odep_count, by x86_reg_file_count_deps.
Needed(t) ==
    LET n == Cardinality(Before(t, Len(t.outs) + 1))
    IN  IF n = 0 /\ t.outs # <<>> THEN 1 ELSE n

\* The mapping of l before output k of t, or after its outputs.
MapBefore(t, l, k) ==
    LET js == {j \in 1..(k - 1) : t.outs[j] = l}
    IN  IF js = {} THEN rat[l] ELSE New(t, CHOOSE j \in js : \A i \in js : i <= j)

\* Bug: outputs are renamed before inputs.
RenamedOutputsFirst(t) ==
    [kind |-> t.kind, spec |-> spec, state |-> "waiting",
     ins |-> [l \in t.ins |-> MapBefore(t, l, Len(t.outs) + 1)],
     outs |-> [k \in 1..Len(t.outs) |->
                 [lo |-> t.outs[k], ph |-> New(t, k), old |-> MapBefore(t, t.outs[k], k)]]]

\* x86_reg_file_rename: inputs first, then outputs.
Renamed(t) ==
    [kind |-> t.kind, spec |-> spec, state |-> "waiting",
     ins |-> [l \in t.ins |-> rat[l]],
     outs |-> [k \in 1..Len(t.outs) |->
                 [lo |-> t.outs[k], ph |-> New(t, k), old |-> MapBefore(t, t.outs[k], k)]]]

Rename(t) ==
    LET taken == {New(t, k) : k \in 1..Len(t.outs)} IN
    /\ rat' = [l \in Loreg |-> MapBefore(t, l, Len(t.outs) + 1)]
    /\ busy' = [p \in Phreg |-> busy[p] + Cardinality({k \in 1..Len(t.outs) : New(t, k) = p})]
    /\ pending' = [p \in Phreg |-> pending[p] \/ p \in taken]
    /\ free' = SubSeq(free, 1, Len(free) - Needed(t))
    /\ count' = count + Needed(t)

\* x86_reg_file_ready
Ready(u) == \A l \in DOMAIN u.ins : ~ pending[u.ins[l]]

\* x86_reg_file_write of uops whose outputs are the registers of S.
Write(S) == pending' = [p \in Phreg |-> pending[p] /\ p \notin S]

\* The busy counters of a sequence of registers go down one by one; a register
\* whose counter gets to 0 is put on the free list.
Times(refs, p) == Cardinality({k \in DOMAIN refs : refs[k] = p})
LastOf(refs, k) == \A j \in DOMAIN refs : j > k => refs[j] # refs[k]
Drop(refs) ==
    LET idle == Among([k \in DOMAIN refs |-> k],
                      {k \in DOMAIN refs : LastOf(refs, k) /\ busy[refs[k]] = Times(refs, refs[k])})
    IN  /\ busy' = [p \in Phreg |-> busy[p] - Times(refs, p)]
        /\ free' = free \o [k \in DOMAIN idle |-> refs[idle[k]]]
        /\ count' = count - Len(idle)

-----------------------------------------------------------------------------
(* Dispatch, issue and write-back *)

\* The load and store queues, and the instruction queue.
InLsq == {i \in Entry : rob[i].state = "waiting" /\ Mem(rob[i])}
InIq == {i \in Entry : rob[i].state = "waiting" /\ ~ Mem(rob[i])}

\* Bug: committed stores are not counted in the load-store queue.
CanDispatchForgetsStores(t) ==
    /\ Len(rob) < RobSize
    /\ IF Mem(t) THEN Cardinality(InLsq) < LsqSize ELSE Cardinality(InIq) < IqSize
    /\ count + Needed(t) <= Size

\* x86_cpu_can_dispatch_thread
CanDispatch(t) ==
    /\ Len(rob) < RobSize
    /\ IF Mem(t) THEN stores + Cardinality(InLsq) < LsqSize
       ELSE Cardinality(InIq) < IqSize
    /\ count + Needed(t) <= Size

Dispatch(t) ==
    /\ CanDispatch(t)
    /\ Rename(t)
    /\ rob' = Append(rob, Renamed(t))
    /\ spec' = (spec \/ t.kind = "missed")
    /\ UNCHANGED <<stores, stale, recover>>

\* Loads in flight: those of the reorder buffer, and stale[p] for each register p.
InMemory == {i \in Entry : rob[i].state = "memory"}
StaleLoads == {a \in Phreg \X (1..MaxAccess) : a[2] <= stale[a[1]]}
InFlight == Cardinality(InMemory) + Cardinality(StaleLoads)

Advance(i, from, to) ==
    /\ rob[i].state = from
    /\ rob' = [rob EXCEPT ![i].state = to]

CanIssue(u) == u.state = "waiting" /\ Ready(u) /\ (u.kind = "load" => InFlight < MaxAccess)

\* x86_cpu_issue_iq and x86_cpu_issue_lq
Issue(i) ==
    /\ CanIssue(rob[i])
    /\ \/ ~ Mem(rob[i]) /\ Advance(i, "waiting", "executing")
       \/ rob[i].kind = "load" /\ Advance(i, "waiting", "memory")
    /\ UNCHANGED <<regs, stores, stale, spec, recover>>

\* x86_cpu_issue_sq: committed stores only.
IssueStore ==
    /\ stores > 0 /\ stores' = stores - 1
    /\ UNCHANGED <<rob, regs, stale, spec, recover>>

\* The memory system places a load in the event queue.
Answer(i) ==
    /\ Advance(i, "memory", "arrived")
    /\ UNCHANGED <<regs, stores, stale, spec, recover>>

-----------------------------------------------------------------------------
(* Recovery, write-back and commit *)

\* The speculative uops at the tail of the reorder buffer are removed, up to the
\* youngest one that is not speculative.
LastKept(uops) == Max({0} \cup {i \in DOMAIN uops : ~ uops[i].spec})
Kept(uops) == SubSeq(uops, 1, LastKept(uops))
Squashed(uops) == SubSeq(uops, LastKept(uops) + 1, Len(uops))

\* Their outputs, in program order.
OutsOf(uops) == FlattenSeq([i \in DOMAIN uops |-> uops[i].outs])

Phs(outs) == [k \in DOMAIN outs |-> outs[k].ph]
Olds(outs) == [k \in DOMAIN outs |-> outs[k].old]

\* Bug: the pending bits of what is squashed are left set.
WrittenSelf(u, squashed) == ToSet(Phs(u.outs))

\* The outputs of u are written; the uops that are not completed among those
\* that are squashed are written too.
Written(u, squashed) ==
    ToSet(Phs(u.outs)) \cup
    UNION {ToSet(Phs(v.outs)) : v \in {v \in ToSet(squashed) : v.state # "completed"}}

\* Bug: mappings are undone from the head of the reorder buffer.
RestoreFromHead(outs) ==
    rat' = [l \in Loreg |->
              LET ks == {k \in DOMAIN outs : outs[k].lo = l}
              IN  IF ks = {} THEN rat[l] ELSE outs[CHOOSE k \in ks : \A j \in ks : j <= k].old]

\* x86_reg_file_undo, from the tail: each register gets back the mapping that the
\* first of the squashed outputs replaced.
Restore(outs) ==
    rat' = [l \in Loreg |->
              LET ks == {k \in DOMAIN outs : outs[k].lo = l}
              IN  IF ks = {} THEN rat[l] ELSE outs[CHOOSE k \in ks : \A j \in ks : k <= j].old]

\* Squashed loads stay in flight, except those that the memory system has
\* answered already: they are taken off the event queue.
Abandon(squashed) ==
    \E dropped \in [Phreg -> 0..MaxAccess] :
        stale' = [p \in Phreg |->
            stale[p] + Cardinality({i \in DOMAIN squashed :
                                      squashed[i].state = "memory" /\ p \in ToSet(Phs(squashed[i].outs))})
                     - dropped[p]]
        /\ \A p \in Phreg : dropped[p] <= stale[p]

\* x86_cpu_recover, once uop u has been written back or committed, with the
\* registers of olds given up.
Recover(u, uops, olds) ==
    LET squashed == Squashed(uops)
        outs == OutsOf(squashed)
    IN
    /\ rob' = Kept(uops)
    /\ Write(Written(u, squashed))
    /\ Restore(outs)
    /\ Drop(olds \o Reverse(Phs(outs)))
    /\ Abandon(squashed)
    /\ spec' = FALSE

\* x86_cpu_writeback_core: uop i of the event queue is completed.
Writeback(i) ==
    /\ rob[i].state \in {"executing", "arrived"}
    /\ LET u == rob[i]
           uops == [rob EXCEPT ![i].state = "completed"]
       IN
       IF recover = "writeback" /\ u.kind = "missed" /\ ~ u.spec
       THEN Recover(u, uops, <<>>)
       ELSE /\ rob' = uops
            /\ Write(ToSet(Phs(u.outs)))
            /\ UNCHANGED <<rat, busy, free, count, stale, spec>>
    /\ UNCHANGED <<stores, recover>>

\* The same for a load that was squashed while in flight.
StaleWriteback(p) ==
    /\ stale[p] > 0
    /\ stale' = [stale EXCEPT ![p] = @ - 1]
    /\ Write({p})
    /\ UNCHANGED <<rob, rat, busy, free, count, stores, spec, recover>>

\* x86_cpu_can_commit_thread
CanCommit(u) == IF u.kind = "store" THEN Ready(u) ELSE u.state = "completed"

\* x86_cpu_commit_thread, with x86_reg_file_commit: the previous mappings of the
\* outputs are given up.
Commit ==
    /\ rob # <<>> /\ CanCommit(Head(rob))
    /\ LET u == Head(rob) IN
       /\ IF recover = "commit" /\ u.kind = "missed"
          THEN Recover(u, Tail(rob), Olds(u.outs))
          ELSE /\ rob' = Tail(rob)
               /\ Drop(Olds(u.outs))
               /\ UNCHANGED <<rat, pending, stale, spec>>
       /\ stores' = IF u.kind = "store" THEN stores + 1 ELSE stores
    /\ UNCHANGED recover

Next ==
    \/ \E t \in Menu : Dispatch(t)
    \/ \E i \in Entry : Issue(i) \/ Answer(i) \/ Writeback(i)
    \/ \E p \in Phreg : StaleWriteback(p)
    \/ IssueStore \/ Commit

\* The memory system answers, functional units finish, and the oldest uop is
\* issued once it is ready and, for a load, the memory system takes one more.
Fairness ==
    /\ \A i \in 1..RobSize : []<> ~ (i \in Entry /\ rob[i].state = "memory")
    /\ \A p \in Phreg : []<>(stale[p] = 0)
    /\ []<>(rob = <<>> \/ Head(rob).state \notin {"executing", "arrived"})
    /\ []<>(rob = <<>> \/ ~ CanIssue(Head(rob)))

Spec == Init /\ [][Next]_vars /\ Fairness

-----------------------------------------------------------------------------
(* Properties *)

\* Where the outputs of the reorder buffer stand: <<i, k>>, output k of uop i.
Output == UNION {{i} \X Outs(i) : i \in Entry}
OutAt(a) == rob[a[1]].outs[a[2]]

\* x86_reg_file_check_integrity, and more: a physical register's busy counter is
\* the number of logical registers mapped to it and of uops that may have to
\* restore it; the free list holds those whose counter is 0, once each.
RegistersExact ==
    /\ \A p \in Phreg :
          busy[p] = Cardinality({l \in Loreg : rat[l] = p})
                    + Cardinality({a \in Output : OutAt(a).old = p})
    /\ ToSet(free) = {p \in Phreg : busy[p] = 0}
    /\ \A j, k \in DOMAIN free : free[j] = free[k] => j = k
    /\ count = Size - Len(free)

\* The mapping table is what the uops of the reorder buffer make of the
\* committed one, and every uop reads what the last uop before it that writes
\* the register has written: no renaming, recovery or commit is forgotten.
RenamingExact ==
    LET writers(l, n) == {a \in Output : OutAt(a).lo = l /\ a[1] < n}
        before(a, b) == a[1] < b[1] \/ (a[1] = b[1] /\ a[2] < b[2])
        last(S) == CHOOSE a \in S : \A b \in S : ~ before(a, b)
        first(S) == CHOOSE a \in S : \A b \in S : ~ before(b, a)
        all(l) == writers(l, Len(rob) + 1)
        committed(l) == IF all(l) = {} THEN rat[l] ELSE OutAt(first(all(l))).old
        at(l, n) == IF writers(l, n) = {} THEN committed(l) ELSE OutAt(last(writers(l, n))).ph
    IN
    /\ \A l \in Loreg : rat[l] = at(l, Len(rob) + 1)
    /\ \A i \in Entry, l \in Loreg : l \in DOMAIN rob[i].ins => rob[i].ins[l] = at(l, i)

\* A register that is waited for will be written, and nothing that is free is
\* waited for.
PendingHasProducer ==
    \A p \in Phreg : pending[p] =>
        busy[p] > 0 /\ \E a \in Output : OutAt(a).ph = p /\ rob[a[1]].state # "completed"

\* x86_reg_file_ready, "Return 1 if input dependencies are resolved": a register
\* that is not pending has been written by the uop it is the output of.
ReadyMeansWritten ==
    \A a \in Output : rob[a[1]].state # "completed" => pending[OutAt(a).ph]

\* err_x86_cpu_commit_stall: the oldest uop of the reorder buffer gets ready to
\* commit; nothing holds up the thread for ever.
NoCommitStall == []<>(rob = <<>> \/ CanCommit(Head(rob)))
=============================================================================
