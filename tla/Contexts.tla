------------------------------ MODULE Contexts ------------------------------
(***************************************************************************)
(* The contexts of the x86 emulator: guest processes and threads, their    *)
(* status, the system calls that create, suspend and finish them, and      *)
(* x86_emu_process_events, which wakes them up.  A host thread sleeps on   *)
(* behalf of a context suspended in nanosleep.                             *)
(*                                                                         *)
(* The actions here change the emulator only; a simulator (the Scheduler   *)
(* module) says when a context executes.                                   *)
(***************************************************************************)
EXTENDS Naturals, FiniteSets

CONSTANTS MaxCtx,        \* bound: contexts are created until pid MaxCtx
          Calls,         \* the system calls that each context makes
          WellBehaved,   \* a group exits after the children of its members
          None

Ctx == 1..MaxCtx

ASSUME ContextsAssumption ==
    /\ MaxCtx \in Nat \ {0} /\ None \notin 0..MaxCtx /\ WellBehaved \in BOOLEAN
    /\ Calls \in [Ctx -> SUBSET {"thread", "process", "waitpid", "join",
                                "nanosleep", "exit", "exit_group"}]

AnyChild == 0    \* pid -1 of waitpid

VARIABLES status,      \* ctx->status: running, suspended, zombie or finished
          waits,       \* the flag it is suspended with, and wakeup_pid or the
                       \* thread at whose futex it sleeps
          parent, group,            \* ctx->parent, ctx->group_parent
          sleeper,     \* the host thread: active (host_thread_suspend_active), or
                       \* done, when ctx->wakeup_time is in the past
          force,       \* x86_emu->process_events_force
          reschedule   \* x86_emu->context_reschedule

relatives == <<parent, group>>
emuVars == <<status, waits, relatives, sleeper, force, reschedule>>

For(why, pid) == [why |-> why, pid |-> pid]
Nothing == For("none", AnyChild)

Running == {c \in Ctx : status[c] = "running"}
Dead(c) == status[c] \in {"zombie", "finished"}
Present == {c \in Ctx : status[c] \notin {"absent", "freed"}}
Alive == {c \in Present : ~ Dead(c)}
Asleep(why) == {c \in Ctx : status[c] = "suspended" /\ waits[c].why = why}

EmuTypeOK ==
    /\ status \in [Ctx -> {"absent", "running", "suspended", "zombie", "finished", "freed"}]
    /\ waits \in [Ctx -> [why : {"none", "waitpid", "futex", "nanosleep"}, pid : Ctx \cup {AnyChild}]]
    /\ parent \in [Ctx -> Ctx \cup {None}] /\ group \in [Ctx -> Ctx \cup {None}]
    /\ sleeper \in [Ctx -> {"none", "active", "done"}]
    /\ force \in BOOLEAN /\ reschedule \in BOOLEAN

\* The program has been loaded: one context, running.
EmuInit ==
    /\ status = [c \in Ctx |-> IF c = 1 THEN "running" ELSE "absent"]
    /\ waits = [c \in Ctx |-> Nothing]
    /\ parent = [c \in Ctx |-> None] /\ group = [c \in Ctx |-> None]
    /\ sleeper = [c \in Ctx |-> "none"]
    /\ force = FALSE /\ reschedule = TRUE

-----------------------------------------------------------------------------
(* Status changes *)

\* x86_ctx_update_status: contexts of S change status, and only the new one
\* survives; the scheduler is asked for.
Become(S, st) ==
    /\ status' = [c \in Ctx |-> IF c \in S THEN st[c] ELSE status[c]]
    /\ waits' = [c \in Ctx |-> IF c \in S THEN Nothing ELSE waits[c]]
    /\ reschedule' = (reschedule \/ S # {})

Suspend(c, why, pid) ==
    /\ status' = [status EXCEPT ![c] = "suspended"]
    /\ waits' = [waits EXCEPT ![c] = For(why, pid)]
    /\ reschedule' = TRUE

\* x86_ctx_host_thread_suspend_cancel of every context of S.
Cancel(S) == sleeper' = [c \in Ctx |-> IF c \in S THEN "none" ELSE sleeper[c]]

\* x86_ctx_get_zombie
Zombies(c, pid) ==
    {z \in Ctx : status[z] = "zombie" /\ parent[z] = c /\ pid \in {AnyChild, z}}

Leader(c) == IF group[c] = None THEN c ELSE group[c]
Members(l) == {c \in Present : group[c] = l \/ c = l}

-----------------------------------------------------------------------------
(* System calls of a running context c *)

\* clone: a thread of c's group, or a process, with the first pid not used.
Clone(c, thread) ==
    /\ \E new \in Ctx :
          /\ status[new] = "absent" /\ \A p \in Ctx : status[p] = "absent" => new <= p
          /\ status' = [status EXCEPT ![new] = "running"]
          /\ parent' = [parent EXCEPT ![new] = c]
          /\ group' = [group EXCEPT ![new] = IF thread THEN Leader(c) ELSE None]
    /\ reschedule' = TRUE
    /\ UNCHANGED <<waits, sleeper, force>>

\* waitpid without WNOHANG: reap a zombie child or wait for one.
WaitPid(c, pid) ==
    /\ IF Zombies(c, pid) = {} THEN Suspend(c, "waitpid", pid)
       ELSE \E z \in Zombies(c, pid) : Become({z}, [d \in {z} |-> "finished"])
    /\ UNCHANGED <<relatives, sleeper, force>>

\* FUTEX_WAIT of a thread that joins t: t's tid is cleared when t finishes.  A
\* thread has one joiner, and a tid that is cleared already is not waited for.
Join(c, t) ==
    /\ t # c /\ Leader(t) = Leader(c) /\ t \in Alive
    /\ \A d \in Asleep("futex") : waits[d].pid # t
    /\ Suspend(c, "futex", t)
    /\ UNCHANGED <<relatives, sleeper, force>>

\* nanosleep: the next x86_emu_process_events starts the host thread.
NanoSleep(c) ==
    /\ Suspend(c, "nanosleep", AnyChild)
    /\ force' = TRUE
    /\ UNCHANGED <<relatives, sleeper>>

\* Those x86_ctx_futex_wake wakes up when c's tid is cleared.
Joiners(c) == {d \in Asleep("futex") : waits[d].pid = c}

EndOf(c) == IF parent[c] = None THEN "finished" ELSE "zombie"

\* Bug: the events are not scheduled after exit.
ExitUnannounced(c) ==
    LET orphans == {d \in Ctx : status[d] = "zombie" /\ parent[d] = c} IN
    /\ Become({c} \cup orphans \cup Joiners(c),
              [d \in Ctx |-> IF d = c THEN EndOf(c)
                             ELSE IF d \in orphans THEN "finished" ELSE "running"])
    /\ parent' = [d \in Ctx |-> IF parent[d] = c THEN None ELSE parent[d]]
    /\ Cancel({c})
    /\ UNCHANGED <<group, force>>

\* Bug: exit loses the children that are zombies already.
ExitOrphansZombies(c) ==
    /\ Become({c} \cup Joiners(c), [d \in Ctx |-> IF d = c THEN EndOf(c) ELSE "running"])
    /\ parent' = [d \in Ctx |-> IF parent[d] = c THEN None ELSE parent[d]]
    /\ Cancel({c})
    /\ force' = TRUE
    /\ UNCHANGED group

\* exit: x86_ctx_finish.
Exit(c) ==
    LET orphans == {d \in Ctx : status[d] = "zombie" /\ parent[d] = c} IN
    /\ Become({c} \cup orphans \cup Joiners(c),
              [d \in Ctx |-> IF d = c THEN EndOf(c)
                             ELSE IF d \in orphans THEN "finished" ELSE "running"])
    /\ parent' = [d \in Ctx |-> IF parent[d] = c THEN None ELSE parent[d]]
    /\ Cancel({c})
    /\ force' = TRUE
    /\ UNCHANGED group

\* exit_group: x86_ctx_finish_group.  Nothing happens if the leader is finished.
\* If it has been freed besides, group_parent dangles, and the status read there
\* may be either.  (That another context has taken its place is left out.)
ExitGroup(c) ==
    LET l == Leader(c)
        all == Members(l)
    IN
    /\ WellBehaved => \A d \in Present \ all : parent[d] \in all => status[d] = "finished"
    /\ \/ /\ l \in Alive \/ status[l] = "freed"
          /\ Become(all, [d \in all |-> IF d = l THEN EndOf(l) ELSE "finished"])
          /\ Cancel(all)
          /\ force' = TRUE
       \/ l \notin Alive /\ UNCHANGED <<status, waits, reschedule, sleeper, force>>
    /\ UNCHANGED relatives

SystemCall(c) ==
    \/ "thread" \in Calls[c] /\ Clone(c, TRUE)
    \/ "process" \in Calls[c] /\ Clone(c, FALSE)
    \/ "waitpid" \in Calls[c] /\ \E pid \in Ctx \cup {AnyChild} : WaitPid(c, pid)
    \/ "join" \in Calls[c] /\ \E t \in Ctx : Join(c, t)
    \/ "nanosleep" \in Calls[c] /\ NanoSleep(c)
    \/ "exit" \in Calls[c] /\ Exit(c)
    \/ "exit_group" \in Calls[c] /\ ExitGroup(c)

\* x86_ctx_free of finished contexts.
Free(S) ==
    /\ status' = [c \in Ctx |-> IF c \in S THEN "freed" ELSE status[c]]
    /\ parent' = [c \in Ctx |-> IF c \in S THEN None ELSE parent[c]]
    /\ group' = [c \in Ctx |-> IF c \in S THEN None ELSE group[c]]

-----------------------------------------------------------------------------
(* Host threads and events *)

\* x86_emu_host_thread_suspend ends.
HostThread(c) ==
    /\ sleeper[c] = "active"
    /\ sleeper' = [sleeper EXCEPT ![c] = "done"]
    /\ force' = TRUE
    /\ UNCHANGED <<status, waits, relatives, reschedule>>

\* x86_emu_process_events.  A context whose sleep is over wakes up, also when
\* no host thread has watched over it yet; others in nanosleep get a host
\* thread; a waiting parent reaps one of its zombies.
ProcessEvents ==
    LET unwatched == {c \in Asleep("nanosleep") : sleeper[c] # "active"}
        parents == {c \in Asleep("waitpid") : Zombies(c, waits[c].pid) # {}}
    IN
    /\ force' = FALSE
    /\ \E slept \in SUBSET unwatched, child \in [parents -> Ctx] :
          LET reaped == {child[c] : c \in parents} IN
          /\ \A c \in unwatched : sleeper[c] = "done" => c \in slept
          /\ \A c \in parents : child[c] \in Zombies(c, waits[c].pid)
          /\ Become(slept \cup parents \cup reaped,
                    [d \in Ctx |-> IF d \in reaped THEN "finished" ELSE "running"])
          /\ sleeper' = [c \in Ctx |-> IF c \in slept THEN "none"
                                       ELSE IF c \in unwatched THEN "active" ELSE sleeper[c]]
    /\ UNCHANGED relatives

-----------------------------------------------------------------------------
(* Properties *)

\* Nobody sleeps whose reason to sleep is over, unless the events are about to
\* be processed (x86_emu_process_events_schedule): a parent whose child is a
\* zombie, a context whose nanosleep no host thread watches, a thread whose
\* joined thread has finished.
NoLostWakeup ==
    /\ \A c \in Asleep("waitpid") : Zombies(c, waits[c].pid) # {} => force
    /\ \A c \in Asleep("nanosleep") : sleeper[c] = "active" \/ force
    /\ \A c \in Asleep("futex") : waits[c].pid \in Alive

\* x86_ctx_finish: a context with a parent becomes a zombie, "waiting for a call
\* to 'waitpid'": that parent can still make the call.  (A zombie nobody waits
\* for keeps the simulation, which stops when all contexts are finished, from
\* ever stopping.)
ZombiesAwaited == \A c \in Ctx : status[c] = "zombie" => parent[c] \in Alive
=============================================================================
