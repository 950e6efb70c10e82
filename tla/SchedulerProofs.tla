--------------------------- MODULE SchedulerProofs ---------------------------
(***************************************************************************)
(* No wake-up is lost and, if processes are well behaved, no zombie is     *)
(* orphaned, however the scheduler interleaves contexts, host threads and  *)
(* events, for every number of contexts, nodes and every workload.         *)
(***************************************************************************)
EXTENDS Scheduler, FiniteSetTheorems, WellFoundedInduction, TLAPS

(* What each action of Contexts preserves *)

\* Pids are given in increasing order.
PidsInOrder ==
    \A p, q \in Ctx : status[p] = "absent" /\ p < q => status[q] = "absent"

\* Parents and group parents are older, groups have one level, and a context
\* that was not created yet belongs to nobody.
Kinship ==
    \A c \in Ctx : /\ parent[c] # None => parent[c] < c
                   /\ group[c] # None => group[c] < c /\ group[group[c]] = None
                   /\ status[c] = "absent" => parent[c] = None /\ group[c] = None

\* A thread joins threads of its own group only.
JoinsOwnGroup ==
    \A c \in Asleep("futex") : waits[c].pid \in Ctx /\ Leader(waits[c].pid) = Leader(c)

\* The inductive invariant for wake-ups.
EmuInv == EmuTypeOK /\ PidsInOrder /\ Kinship /\ JoinsOwnGroup /\ NoLostWakeup

\* The inductive part for families: whoever is not finished and has a parent
\* has one that lives, and a zombie has one.
Family ==
    \A c \in Ctx :
        /\ status[c] \in {"running", "suspended", "zombie"} /\ parent[c] # None => parent[c] \in Alive
        /\ status[c] = "zombie" => parent[c] # None

-----------------------------------------------------------------------------

LEMMA InitEmu ==
    ASSUME EmuInit
    PROVE  EmuInv /\ Family
<1>. USE ContextsAssumption DEF Ctx
<1>1. EmuTypeOK
  BY DEF EmuInit, EmuTypeOK, Nothing, For, AnyChild
<1>2. PidsInOrder /\ Kinship
  BY DEF EmuInit, PidsInOrder, Kinship
<1>3. JoinsOwnGroup /\ NoLostWakeup /\ Family
  BY DEF EmuInit, JoinsOwnGroup, NoLostWakeup, Family, Asleep
<1>. QED
  BY <1>1, <1>2, <1>3 DEF EmuInv

-----------------------------------------------------------------------------
(* System calls *)

LEMMA CloneKeeps ==
    ASSUME EmuInv, NEW c \in Ctx, status[c] = "running", NEW thread \in BOOLEAN, Clone(c, thread)
    PROVE  EmuInv' /\ (Family => Family')
<1>. USE ContextsAssumption DEF Ctx
<1>1. PICK new \in Ctx :
          /\ status[new] = "absent" /\ \A p \in Ctx : status[p] = "absent" => new <= p
          /\ status' = [status EXCEPT ![new] = "running"]
          /\ parent' = [parent EXCEPT ![new] = c]
          /\ group' = [group EXCEPT ![new] = IF thread THEN Leader(c) ELSE None]
  BY DEF Clone
<1>2. reschedule' = TRUE /\ waits' = waits /\ sleeper' = sleeper /\ force' = force
  BY DEF Clone
<1>3. EmuTypeOK /\ PidsInOrder /\ Kinship /\ JoinsOwnGroup /\ NoLostWakeup
  BY DEF EmuInv
<1>4. c < new
  BY <1>1, <1>3 DEF PidsInOrder
<1>5. Leader(c) \in Ctx /\ Leader(c) <= c /\ group[Leader(c)] = None
  BY <1>3 DEF Leader, Kinship, EmuTypeOK
<1>6. EmuTypeOK'
  BY <1>1, <1>2, <1>3, <1>5 DEF EmuTypeOK
<1>7. PidsInOrder'
  BY <1>1, <1>3 DEF EmuTypeOK, PidsInOrder
<1>8. Kinship'
  <2>1. \A d \in Ctx : group[d] # new
    BY <1>1, <1>3 DEF Kinship, PidsInOrder
  <2>. QED
    BY <1>1, <1>3, <1>4, <1>5, <2>1 DEF EmuTypeOK, Kinship
<1>9. JoinsOwnGroup'
  <2>1. \A d \in Asleep("futex")' : d \in Asleep("futex") /\ d # new /\ waits[d].pid # new
    BY <1>1, <1>2, <1>3 DEF EmuTypeOK, NoLostWakeup, Asleep, Alive, Present
  <2>. QED
    BY <1>1, <1>2, <1>3, <2>1 DEF EmuTypeOK, JoinsOwnGroup, Leader
<1>10. NoLostWakeup'
  BY <1>1, <1>2, <1>3 DEF EmuTypeOK, NoLostWakeup, Asleep, Zombies, Alive, Present, Dead
<1>11. Family => Family'
  BY <1>1, <1>3 DEF EmuTypeOK, Family, Alive, Present, Dead
<1>. QED
  BY <1>6, <1>7, <1>8, <1>9, <1>10, <1>11 DEF EmuInv

LEMMA WaitPidKeeps ==
    ASSUME EmuInv, NEW c \in Ctx, status[c] = "running", NEW pid \in Ctx \cup {AnyChild}, WaitPid(c, pid)
    PROVE  EmuInv' /\ (Family => Family')
<1>. USE ContextsAssumption DEF Ctx
<1>1. EmuTypeOK /\ PidsInOrder /\ Kinship /\ JoinsOwnGroup /\ NoLostWakeup
  BY DEF EmuInv
<1>2. parent' = parent /\ group' = group /\ sleeper' = sleeper /\ force' = force
  BY DEF WaitPid, relatives
<1>3. CASE Zombies(c, pid) = {}
  <2>1. /\ status' = [status EXCEPT ![c] = "suspended"]
        /\ waits' = [waits EXCEPT ![c] = [why |-> "waitpid", pid |-> pid]]
        /\ reschedule' = TRUE
    BY <1>3 DEF WaitPid, Suspend, For
  <2>2. EmuTypeOK'
    BY <1>1, <1>2, <2>1 DEF EmuTypeOK
  <2>3. PidsInOrder' /\ Kinship'
    BY <1>1, <1>2, <2>1 DEF EmuTypeOK, PidsInOrder, Kinship
  <2>4. JoinsOwnGroup'
    BY <1>1, <1>2, <2>1 DEF EmuTypeOK, JoinsOwnGroup, Asleep, Leader
  <2>5. NoLostWakeup'
    BY <1>1, <1>2, <1>3, <2>1 DEF EmuTypeOK, NoLostWakeup, Asleep, Zombies, Alive, Present, Dead
  <2>6. Family => Family'
    BY <1>1, <1>2, <2>1 DEF EmuTypeOK, Family, Alive, Present, Dead
  <2>. QED
    BY <2>2, <2>3, <2>4, <2>5, <2>6 DEF EmuInv
<1>4. CASE Zombies(c, pid) # {}
  <2>1. PICK z \in Zombies(c, pid) : Become({z}, [d \in {z} |-> "finished"])
    BY <1>4 DEF WaitPid
  <2>2. z \in Ctx /\ status[z] = "zombie"
    BY <2>1 DEF Zombies
  <2>3. /\ status' = [status EXCEPT ![z] = "finished"]
        /\ waits' = [waits EXCEPT ![z] = [why |-> "none", pid |-> 0]]
        /\ reschedule' = TRUE
    BY <1>1, <2>1, <2>2 DEF EmuTypeOK, Become, Nothing, For, AnyChild
  <2>4. EmuTypeOK'
    BY <1>1, <1>2, <2>2, <2>3 DEF EmuTypeOK, AnyChild
  <2>5. PidsInOrder' /\ Kinship'
    BY <1>1, <1>2, <2>2, <2>3 DEF EmuTypeOK, PidsInOrder, Kinship
  <2>6. JoinsOwnGroup'
    BY <1>1, <1>2, <2>2, <2>3 DEF EmuTypeOK, JoinsOwnGroup, Asleep, Leader
  <2>7. NoLostWakeup'
    BY <1>1, <1>2, <2>2, <2>3 DEF EmuTypeOK, NoLostWakeup, Asleep, Zombies, Alive, Present, Dead
  <2>8. Family => Family'
    BY <1>1, <1>2, <2>2, <2>3 DEF EmuTypeOK, Family, Alive, Present, Dead
  <2>. QED
    BY <2>4, <2>5, <2>6, <2>7, <2>8 DEF EmuInv
<1>. QED
  BY <1>3, <1>4

LEMMA JoinKeeps ==
    ASSUME EmuInv, NEW c \in Ctx, status[c] = "running", NEW t \in Ctx, Join(c, t)
    PROVE  EmuInv' /\ (Family => Family')
<1>. USE ContextsAssumption DEF Ctx
<1>1. EmuTypeOK /\ PidsInOrder /\ Kinship /\ JoinsOwnGroup /\ NoLostWakeup
  BY DEF EmuInv
<1>2. /\ parent' = parent /\ group' = group /\ sleeper' = sleeper /\ force' = force
      /\ status' = [status EXCEPT ![c] = "suspended"]
      /\ waits' = [waits EXCEPT ![c] = [why |-> "futex", pid |-> t]]
      /\ reschedule' = TRUE /\ t # c /\ t \in Alive /\ Leader(t) = Leader(c)
  BY DEF Join, relatives, Suspend, For
<1>3. EmuTypeOK'
  BY <1>1, <1>2 DEF EmuTypeOK
<1>4. PidsInOrder' /\ Kinship'
  BY <1>1, <1>2 DEF EmuTypeOK, PidsInOrder, Kinship
<1>5. JoinsOwnGroup'
  BY <1>1, <1>2 DEF EmuTypeOK, JoinsOwnGroup, Asleep, Leader
<1>6. NoLostWakeup'
  BY <1>1, <1>2 DEF EmuTypeOK, NoLostWakeup, Asleep, Zombies, Alive, Present, Dead
<1>7. Family => Family'
  BY <1>1, <1>2 DEF EmuTypeOK, Family, Alive, Present, Dead
<1>. QED
  BY <1>3, <1>4, <1>5, <1>6, <1>7 DEF EmuInv

LEMMA NanoSleepKeeps ==
    ASSUME EmuInv, NEW c \in Ctx, status[c] = "running", NanoSleep(c)
    PROVE  EmuInv' /\ (Family => Family')
<1>. USE ContextsAssumption DEF Ctx
<1>1. EmuTypeOK /\ PidsInOrder /\ Kinship /\ JoinsOwnGroup /\ NoLostWakeup
  BY DEF EmuInv
<1>2. /\ parent' = parent /\ group' = group /\ sleeper' = sleeper /\ force' = TRUE
      /\ status' = [status EXCEPT ![c] = "suspended"]
      /\ waits' = [waits EXCEPT ![c] = [why |-> "nanosleep", pid |-> 0]]
      /\ reschedule' = TRUE
  BY DEF NanoSleep, relatives, Suspend, For, AnyChild
<1>3. EmuTypeOK'
  BY <1>1, <1>2 DEF EmuTypeOK, AnyChild
<1>4. PidsInOrder' /\ Kinship'
  BY <1>1, <1>2 DEF EmuTypeOK, PidsInOrder, Kinship
<1>5. JoinsOwnGroup'
  BY <1>1, <1>2 DEF EmuTypeOK, JoinsOwnGroup, Asleep, Leader
<1>6. NoLostWakeup'
  BY <1>1, <1>2 DEF EmuTypeOK, NoLostWakeup, Asleep, Zombies, Alive, Present, Dead
<1>7. Family => Family'
  BY <1>1, <1>2 DEF EmuTypeOK, Family, Alive, Present, Dead
<1>. QED
  BY <1>3, <1>4, <1>5, <1>6, <1>7 DEF EmuInv

\* The exits announce themselves (force), so only joined threads are at stake.
LEMMA ExitKeeps ==
    ASSUME EmuInv, NEW c \in Ctx, status[c] = "running", Exit(c)
    PROVE  EmuInv' /\ (Family => Family')
<1>. USE ContextsAssumption DEF Ctx
<1>. DEFINE orphans == {d \in Ctx : status[d] = "zombie" /\ parent[d] = c}
            ending == {c} \cup orphans \cup Joiners(c)
            new(d) == IF d = c THEN EndOf(c) ELSE IF d \in orphans THEN "finished" ELSE "running"
<1>1. EmuTypeOK /\ PidsInOrder /\ Kinship /\ JoinsOwnGroup /\ NoLostWakeup
  BY DEF EmuInv
<1>2. /\ status' = [d \in Ctx |-> IF d \in ending THEN new(d) ELSE status[d]]
      /\ waits' = [d \in Ctx |-> IF d \in ending THEN [why |-> "none", pid |-> 0] ELSE waits[d]]
      /\ reschedule' = (reschedule \/ ending # {})
      /\ parent' = [d \in Ctx |-> IF parent[d] = c THEN None ELSE parent[d]]
      /\ sleeper' = [d \in Ctx |-> IF d \in {c} THEN "none" ELSE sleeper[d]]
      /\ force' = TRUE /\ group' = group
  BY DEF Exit, Become, Cancel, Nothing, For, AnyChild
<1>3. \A d \in ending : d \in Ctx /\ status[d] \in {"running", "suspended", "zombie"}
  BY DEF Joiners, Asleep
<1>4. \A d \in Ctx : new(d) \in {"running", "zombie", "finished"}
  BY DEF EndOf
<1>5. EmuTypeOK'
  BY <1>1, <1>2, <1>4 DEF EmuTypeOK, AnyChild
<1>6. \A d \in Ctx : status'[d] = "absent" <=> status[d] = "absent"
  BY <1>1, <1>2, <1>3, <1>4
<1>7. PidsInOrder' /\ Kinship'
  BY <1>1, <1>2, <1>6 DEF EmuTypeOK, PidsInOrder, Kinship
<1>8. \A d \in Asleep("futex")' : d \in Asleep("futex") /\ waits'[d] = waits[d] /\ waits[d].pid # c
  BY <1>1, <1>2, <1>4 DEF EmuTypeOK, Asleep, Joiners
<1>9. JoinsOwnGroup'
  <2>1. group' = group
    BY <1>2
  <2>2. \A d \in Asleep("futex") : waits[d].pid \in Ctx /\ Leader(waits[d].pid) = Leader(d)
    BY <1>1 DEF JoinsOwnGroup
  <2>. HIDE DEF ending
  <2>. QED
    BY <1>8, <2>1, <2>2 DEF JoinsOwnGroup, Leader
<1>10. \A d \in Ctx : d \in Alive /\ d # c => d \in Alive'
  BY <1>1, <1>2, <1>3 DEF EmuTypeOK, Alive, Present, Dead, Joiners, Asleep
<1>11. NoLostWakeup'
  BY <1>1, <1>2, <1>8, <1>10 DEF NoLostWakeup, JoinsOwnGroup
<1>12. ASSUME Family  PROVE Family'
  <2>1. ASSUME NEW d \in Ctx, status'[d] \in {"running", "suspended", "zombie"}, parent'[d] # None
        PROVE  parent'[d] \in Alive'
    <3>1. parent'[d] = parent[d] /\ parent[d] # c
      BY <1>1, <1>2, <2>1 DEF EmuTypeOK
    <3>2. status[d] \in {"running", "suspended", "zombie"}
      BY <1>1, <1>2, <1>3, <2>1 DEF EmuTypeOK
    <3>3. parent[d] \in Alive
      BY <1>12, <2>1, <3>1, <3>2 DEF Family
    <3>. QED
      BY <1>10, <3>1, <3>3 DEF Alive, Present
  <2>2. ASSUME NEW d \in Ctx, status'[d] = "zombie"  PROVE parent'[d] # None
    BY <1>1, <1>2, <1>12, <2>2 DEF EmuTypeOK, Kinship, Family, EndOf
  <2>. QED
    BY <2>1, <2>2 DEF Family
<1>. QED
  BY <1>5, <1>7, <1>9, <1>11, <1>12 DEF EmuInv

\* A leader's parent is not of its group, and nobody outside a group joins one
\* of its threads.
LEMMA ExitGroupKeeps ==
    ASSUME EmuInv, NEW c \in Ctx, status[c] = "running", ExitGroup(c)
    PROVE  EmuInv' /\ (WellBehaved /\ Family => Family')
<1>. USE ContextsAssumption DEF Ctx
<1>. DEFINE l == Leader(c)
            all == Members(l)
<1>1. EmuTypeOK /\ PidsInOrder /\ Kinship /\ JoinsOwnGroup /\ NoLostWakeup
  BY DEF EmuInv
<1>2. parent' = parent /\ group' = group /\ l \in Ctx
  BY <1>1 DEF ExitGroup, relatives, Leader, EmuTypeOK
<1>3. CASE UNCHANGED <<status, waits, reschedule, sleeper, force>>
  <2>. QED
    BY <1>2, <1>3 DEF EmuInv, EmuTypeOK, PidsInOrder, Kinship, JoinsOwnGroup, NoLostWakeup, Family,
                      Asleep, Leader, Zombies, Alive, Present, Dead
<1>4. CASE /\ l \in Alive \/ status[l] = "freed"
           /\ Become(all, [d \in all |-> IF d = l THEN EndOf(l) ELSE "finished"])
           /\ Cancel(all) /\ force' = TRUE
  <2>1. /\ status' = [d \in Ctx |-> IF d \in all THEN IF d = l THEN EndOf(l) ELSE "finished"
                                    ELSE status[d]]
        /\ waits' = [d \in Ctx |-> IF d \in all THEN [why |-> "none", pid |-> 0] ELSE waits[d]]
        /\ reschedule' = (reschedule \/ all # {})
        /\ sleeper' = [d \in Ctx |-> IF d \in all THEN "none" ELSE sleeper[d]]
        /\ force' = TRUE
    BY <1>4 DEF Become, Cancel, Nothing, For, AnyChild, Members, Present
  <2>2. \A d \in Ctx : d \in all <=> d \in Present /\ (group[d] = l \/ d = l)
    BY DEF Members, Present
  <2>3. EmuTypeOK'
    BY <1>1, <1>2, <2>1 DEF EmuTypeOK, AnyChild, EndOf
  <2>4. \A d \in Ctx : status'[d] = "absent" <=> status[d] = "absent"
    BY <2>1, <2>2 DEF Present, EndOf
  <2>5. PidsInOrder' /\ Kinship'
    BY <1>1, <1>2, <2>4 DEF PidsInOrder, Kinship
  <2>6. \A d \in Asleep("futex")' : /\ d \in Asleep("futex") /\ waits'[d] = waits[d]
                                     /\ Leader(d) # l
    BY <2>1, <2>2 DEF Asleep, Leader, EndOf, Present
  <2>7. JoinsOwnGroup'
    BY <1>1, <1>2, <2>6 DEF JoinsOwnGroup, Leader
  <2>8. \A d \in Ctx : d \in Alive /\ d \notin all => d \in Alive'
    BY <2>1 DEF Alive, Present, Dead
  <2>9. NoLostWakeup'
    <3>1. ASSUME NEW d \in Asleep("futex")'  PROVE waits'[d].pid \in Alive'
      <4>1. waits[d].pid \in Alive /\ Leader(waits[d].pid) # l
        BY <1>1, <2>6, <3>1 DEF JoinsOwnGroup, NoLostWakeup
      <4>2. waits[d].pid \in Ctx /\ waits[d].pid \notin all
        BY <1>1, <1>2, <2>2, <4>1 DEF Leader, Alive, Present, Kinship
      <4>. QED
        BY <2>6, <2>8, <3>1, <4>1, <4>2
    <3>. QED
      BY <2>1, <3>1 DEF NoLostWakeup
  <2>10. ASSUME WellBehaved, Family  PROVE Family'
    <3>1. ASSUME NEW d \in Ctx, status'[d] \in {"running", "suspended", "zombie"}, parent[d] # None
          PROVE  parent[d] \in Alive'
      <4>1. status[d] \in {"running", "suspended", "zombie"}
        BY <1>1, <1>4, <2>1, <2>2, <3>1 DEF Alive, Present, Dead, EmuTypeOK, EndOf
      <4>2. parent[d] \in Alive /\ parent[d] \in Ctx
        BY <1>1, <2>10, <3>1, <4>1 DEF Family, EmuTypeOK
      <4>3. parent[d] \notin all
        <5>1. CASE d \in all
          BY <1>1, <1>2, <2>1, <2>2, <3>1, <5>1 DEF Kinship, EmuTypeOK
        <5>2. CASE d \notin all
          BY <2>10, <3>1, <4>1, <5>2 DEF ExitGroup, Present
        <5>. QED
          BY <5>1, <5>2
      <4>. QED
        BY <2>8, <4>2, <4>3
    <3>2. ASSUME NEW d \in Ctx, status'[d] = "zombie"  PROVE parent[d] # None
      BY <2>1, <2>10, <3>2 DEF Family, EndOf
    <3>. QED
      BY <1>2, <3>1, <3>2 DEF Family
  <2>. QED
    BY <2>3, <2>5, <2>7, <2>9, <2>10 DEF EmuInv
<1>. QED
  BY <1>3, <1>4 DEF ExitGroup

LEMMA SystemCallKeeps ==
    ASSUME EmuInv, NEW c \in Ctx, status[c] = "running", SystemCall(c)
    PROVE  EmuInv' /\ (WellBehaved /\ Family => Family')
<1>1. CASE Clone(c, TRUE) \/ Clone(c, FALSE)
  BY <1>1, CloneKeeps
<1>2. CASE \E pid \in Ctx \cup {AnyChild} : WaitPid(c, pid)
  BY <1>2, WaitPidKeeps
<1>3. CASE \E t \in Ctx : Join(c, t)
  BY <1>3, JoinKeeps
<1>4. CASE NanoSleep(c)
  BY <1>4, NanoSleepKeeps
<1>5. CASE Exit(c)
  BY <1>5, ExitKeeps
<1>6. CASE ExitGroup(c)
  BY <1>6, ExitGroupKeeps
<1>. QED
  BY <1>1, <1>2, <1>3, <1>4, <1>5, <1>6 DEF SystemCall

-----------------------------------------------------------------------------
(* What the simulator does to contexts *)

LEMMA FreeKeeps ==
    ASSUME EmuInv, NEW S, \A c \in S : c \in Ctx /\ status[c] = "finished", Free(S),
           UNCHANGED <<waits, sleeper, force>>, reschedule' \in BOOLEAN
    PROVE  EmuInv' /\ (Family => Family')
<1>. USE ContextsAssumption DEF Ctx
<1>1. EmuTypeOK /\ PidsInOrder /\ Kinship /\ JoinsOwnGroup /\ NoLostWakeup
  BY DEF EmuInv
<1>2. /\ status' = [c \in Ctx |-> IF c \in S THEN "freed" ELSE status[c]]
      /\ parent' = [c \in Ctx |-> IF c \in S THEN None ELSE parent[c]]
      /\ group' = [c \in Ctx |-> IF c \in S THEN None ELSE group[c]]
  BY DEF Free
<1>3. EmuTypeOK'
  BY <1>1, <1>2 DEF EmuTypeOK
<1>4. PidsInOrder' /\ Kinship'
  BY <1>1, <1>2 DEF EmuTypeOK, PidsInOrder, Kinship
<1>5. \A c \in Ctx : c \in Alive => c \in Alive' /\ c \notin S
  BY <1>2 DEF Alive, Present, Dead
<1>6. \A c \in Asleep("futex")' : c \in Asleep("futex") /\ c \notin S
  BY <1>2 DEF Asleep
<1>7. JoinsOwnGroup'
  <2>1. \A c \in Asleep("futex") : waits[c].pid \in Ctx /\ waits[c].pid \notin S
    BY <1>1, <1>5 DEF NoLostWakeup, JoinsOwnGroup
  <2>. QED
    BY <1>1, <1>2, <1>6, <2>1 DEF JoinsOwnGroup, Leader, Asleep
<1>8. NoLostWakeup'
  <2>1. \A c \in Asleep("futex")' : waits'[c].pid \in Alive'
    BY <1>1, <1>5, <1>6 DEF NoLostWakeup, JoinsOwnGroup
  <2>2. \A c \in Asleep("waitpid")' : Zombies(c, waits[c].pid)' # {} => force'
    BY <1>1, <1>2 DEF EmuTypeOK, NoLostWakeup, Zombies, Asleep
  <2>3. \A c \in Asleep("nanosleep")' : sleeper'[c] = "active" \/ force'
    BY <1>1, <1>2 DEF NoLostWakeup, Asleep
  <2>. QED
    BY <2>1, <2>2, <2>3 DEF NoLostWakeup
<1>9. Family => Family'
  BY <1>1, <1>2, <1>5 DEF EmuTypeOK, Family
<1>. QED
  BY <1>3, <1>4, <1>7, <1>8, <1>9 DEF EmuInv

LEMMA HostThreadKeeps ==
    ASSUME EmuInv, NEW c \in Ctx, HostThread(c)
    PROVE  EmuInv' /\ (Family => Family')
<1>1. /\ sleeper' = [sleeper EXCEPT ![c] = "done"] /\ force' = TRUE
      /\ UNCHANGED <<status, waits, parent, group, reschedule>>
  BY DEF HostThread, relatives
<1>2. EmuTypeOK' /\ PidsInOrder' /\ Kinship' /\ JoinsOwnGroup' /\ NoLostWakeup'
  BY <1>1 DEF EmuInv, EmuTypeOK, PidsInOrder, Kinship, JoinsOwnGroup, NoLostWakeup,
              Asleep, Leader, Zombies, Alive, Present, Dead
<1>3. Family => Family'
  BY <1>1 DEF Family, Alive, Present, Dead
<1>. QED
  BY <1>2, <1>3 DEF EmuInv

\* The events clear force: they must have done all that was announced.
LEMMA ProcessEventsKeeps ==
    ASSUME EmuInv, ProcessEvents
    PROVE  EmuInv' /\ (Family => Family')
<1>. USE ContextsAssumption DEF Ctx
<1>. DEFINE unwatched == {c \in Asleep("nanosleep") : sleeper[c] # "active"}
            parents == {c \in Asleep("waitpid") : Zombies(c, waits[c].pid) # {}}
<1>1. EmuTypeOK /\ PidsInOrder /\ Kinship /\ JoinsOwnGroup /\ NoLostWakeup
  BY DEF EmuInv
<1>2. PICK slept \in SUBSET unwatched, child \in [parents -> Ctx] :
          LET reaped == {child[c] : c \in parents} IN
          /\ \A c \in unwatched : sleeper[c] = "done" => c \in slept
          /\ \A c \in parents : child[c] \in Zombies(c, waits[c].pid)
          /\ Become(slept \cup parents \cup reaped,
                    [d \in Ctx |-> IF d \in reaped THEN "finished" ELSE "running"])
          /\ sleeper' = [c \in Ctx |-> IF c \in slept THEN "none"
                                       ELSE IF c \in unwatched THEN "active" ELSE sleeper[c]]
  BY DEF ProcessEvents
<1>. DEFINE reaped == {child[c] : c \in parents}
            awake == slept \cup parents
<1>3. \A d \in reaped : d \in Ctx /\ status[d] = "zombie"
  BY <1>2 DEF Zombies
<1>4. \A d \in awake : d \in Ctx /\ status[d] = "suspended"
  BY DEF Asleep
<1>5. /\ status' = [d \in Ctx |-> IF d \in reaped THEN "finished"
                                 ELSE IF d \in awake THEN "running" ELSE status[d]]
      /\ waits' = [d \in Ctx |-> IF d \in awake \cup reaped THEN [why |-> "none", pid |-> 0]
                                ELSE waits[d]]
      /\ reschedule' \in BOOLEAN
  <2>1. /\ status' = [c \in Ctx |-> IF c \in awake \cup reaped
                                    THEN [d \in Ctx |-> IF d \in reaped THEN "finished" ELSE "running"][c]
                                    ELSE status[c]]
        /\ waits' = [c \in Ctx |-> IF c \in awake \cup reaped THEN Nothing ELSE waits[c]]
        /\ reschedule' = (reschedule \/ awake \cup reaped # {})
    BY <1>2 DEF Become
  <2>. QED
    BY <1>1, <2>1 DEF EmuTypeOK, Nothing, For, AnyChild
<1>6. /\ sleeper' = [c \in Ctx |-> IF c \in slept THEN "none"
                                  ELSE IF c \in unwatched THEN "active" ELSE sleeper[c]]
      /\ parent' = parent /\ group' = group /\ force' = FALSE
  BY <1>2 DEF ProcessEvents, relatives
<1>. HIDE DEF reaped
<1>7. EmuTypeOK'
  BY <1>1, <1>5, <1>6 DEF EmuTypeOK, AnyChild
<1>8. \A d \in Ctx : status'[d] = "absent" <=> status[d] = "absent"
  BY <1>3, <1>4, <1>5
<1>9. PidsInOrder' /\ Kinship'
  BY <1>1, <1>6, <1>8 DEF PidsInOrder, Kinship
<1>10. \A d \in Ctx : status'[d] = "suspended" =>
                        status[d] = "suspended" /\ d \notin awake /\ waits'[d] = waits[d]
  BY <1>3, <1>5
<1>11. JoinsOwnGroup'
  BY <1>1, <1>6, <1>10 DEF JoinsOwnGroup, Asleep, Leader
<1>12. \A d \in Ctx : d \in Alive => d \in Alive'
  BY <1>3, <1>5 DEF Alive, Present, Dead
<1>13. NoLostWakeup'
  <2>1. \A c \in Asleep("futex")' : waits'[c].pid \in Alive'
    BY <1>1, <1>10, <1>12 DEF NoLostWakeup, JoinsOwnGroup, Asleep
  <2>2. \A c \in Asleep("waitpid")' : Zombies(c, waits[c].pid)' = {}
    <3>1. ASSUME NEW c \in Asleep("waitpid")'  PROVE Zombies(c, waits'[c].pid) = {}
      BY <1>10, <3>1 DEF Asleep
    <3>2. \A d \in Ctx : status'[d] = "zombie" => status[d] = "zombie"
      BY <1>5
    <3>. QED
      BY <1>6, <3>1, <3>2 DEF Zombies
  <2>3. \A c \in Asleep("nanosleep")' : sleeper'[c] = "active"
    BY <1>1, <1>6, <1>10 DEF EmuTypeOK, Asleep
  <2>. QED
    BY <2>1, <2>2, <2>3 DEF NoLostWakeup
<1>14. Family => Family'
  <2>1. ASSUME NEW d \in Ctx, status'[d] \in {"running", "suspended", "zombie"}
        PROVE  status[d] \in {"running", "suspended", "zombie"}
    BY <1>4, <1>5, <2>1
  <2>2. \A d \in Ctx : status'[d] = "zombie" => status[d] = "zombie"
    BY <1>5
  <2>3. \A d \in Ctx : parent[d] \in Alive => parent[d] \in Alive'
    BY <1>12 DEF Alive, Present
  <2>. QED
    BY <1>6, <2>1, <2>2, <2>3 DEF Family
<1>. QED
  BY <1>7, <1>9, <1>11, <1>13, <1>14 DEF EmuInv

-----------------------------------------------------------------------------
(* The scheduler *)

\* Eviction changes contexts by freeing finished ones only.
LEMMA UnmapKeeps ==
    ASSUME EmuInv, NEW S \in SUBSET Ctx, Unmap(S),
           UNCHANGED <<waits, sleeper, force>>, reschedule' \in BOOLEAN
    PROVE  EmuInv' /\ (Family => Family')
<1>. DEFINE F == {c \in S : status[c] = "finished"}
<1>1. Free(F) /\ \A c \in F : c \in Ctx /\ status[c] = "finished"
  BY DEF Unmap
<1>. QED
  BY <1>1, FreeKeeps

\* Most steps of the scheduler leave the contexts alone.
LEMMA IdleKeeps ==
    ASSUME EmuInv, UNCHANGED <<status, waits, relatives, sleeper, force>>, reschedule' \in BOOLEAN
    PROVE  EmuInv' /\ (Family => Family')
  BY DEF EmuInv, EmuTypeOK, PidsInOrder, Kinship, JoinsOwnGroup, NoLostWakeup, Family, relatives,
         Asleep, Leader, Zombies, Alive, Present, Dead

LEMMA NextKeeps ==
    ASSUME EmuInv, [Next]_vars
    PROVE  EmuInv' /\ (WellBehaved /\ Family => Family')
<1>. USE DEF EmuInv, EmuTypeOK
<1>1. CASE Stop \/ NotCalled \/ Allocate \/ UNCHANGED vars
  BY <1>1, IdleKeeps DEF Stop, NotCalled, Allocate, vars, emuVars
<1>2. CASE Evict
  <2>1. PICK before \in SUBSET {c \in Stopped : ~ Drained(c)}, last \in SUBSET {c \in Stopped : Drained(c)} :
            Unmap(last)
    BY <1>2 DEF Evict, EvictStopped
  <2>2. last \in SUBSET Ctx
    BY DEF Stopped, Alloc
  <2>3. UNCHANGED <<waits, sleeper, force>> /\ reschedule' \in BOOLEAN
    BY <1>2 DEF Evict
  <2>. QED
    BY <2>1, <2>2, <2>3, UnmapKeeps
<1>3. CASE EvictOldest
  <2>1. UNCHANGED <<waits, sleeper, force, reschedule>>
    BY <1>3 DEF EvictOldest
  <2>2. CASE UNCHANGED unmapVars
    BY <2>1, <2>2, IdleKeeps DEF unmapVars
  <2>3. CASE \E c \in Alloc : Unmap({c})
    BY <2>1, <2>3, UnmapKeeps DEF Alloc
  <2>. QED
    BY <1>3, <2>2, <2>3 DEF EvictOldest
<1>4. CASE EndSchedule
  BY <1>4, IdleKeeps DEF EndSchedule
<1>5. CASE Commit
  <2>1. PICK evicted \in SUBSET Ctx : Unmap(evicted) /\ reschedule' = (reschedule \/ evicted # {})
    BY <1>5 DEF Commit
  <2>2. UNCHANGED <<waits, sleeper, force>>
    BY <1>5 DEF Commit
  <2>. QED
    BY <2>1, <2>2, UnmapKeeps
<1>6. CASE Events
  BY <1>6, ProcessEventsKeeps, IdleKeeps DEF Events, emuVars
<1>7. ASSUME NEW n \in Node, Fetch(n)
      PROVE  EmuInv' /\ (WellBehaved /\ Family => Family')
  BY <1>7, SystemCallKeeps, IdleKeeps DEF Fetch, emuVars, Running
<1>8. ASSUME NEW c \in Ctx, Host(c)
      PROVE  EmuInv' /\ (WellBehaved /\ Family => Family')
  BY <1>8, HostThreadKeeps DEF Host
<1>. QED
  BY <1>1, <1>2, <1>3, <1>4, <1>5, <1>6, <1>7, <1>8 DEF Next, Cycle

-----------------------------------------------------------------------------

\* The status, the reasons to wait and the relatives of contexts, and the states
\* of host threads, are always as declared.
THEOREM ContextsTypeCorrect == Spec => []EmuTypeOK
<1>1. Init => EmuInv
  BY InitEmu DEF Init
<1>2. EmuInv /\ [Next]_vars => EmuInv'
  BY NextKeeps
<1>3. EmuInv => EmuTypeOK
  BY DEF EmuInv
<1>. QED
  BY <1>1, <1>2, <1>3, PTL DEF Spec

\* x86_emu_process_events_schedule is called whenever a sleeper's reason is over,
\* and x86_emu_process_events clears the request only after all were woken up.
THEOREM WakeupsNotLost == Spec => []NoLostWakeup
<1>1. Init => EmuInv
  BY InitEmu DEF Init
<1>2. EmuInv /\ [Next]_vars => EmuInv'
  BY NextKeeps
<1>3. EmuInv => NoLostWakeup
  BY DEF EmuInv
<1>. QED
  BY <1>1, <1>2, <1>3, PTL DEF Spec

\* If groups exit after the children of their members, the parent of every zombie
\* can still call waitpid.
THEOREM NoOrphanZombies ==
    ASSUME WellBehaved
    PROVE  Spec => []ZombiesAwaited
<1>1. Init => EmuInv /\ Family
  BY InitEmu DEF Init
<1>2. EmuInv /\ Family /\ [Next]_vars => EmuInv' /\ Family'
  BY NextKeeps
<1>3. Family => ZombiesAwaited
  BY DEF Family, ZombiesAwaited
<1>. QED
  BY <1>1, <1>2, <1>3, PTL DEF Spec

-----------------------------------------------------------------------------
(* Nodes and contexts *)

CpuTypeOK ==
    /\ ctxOn \in [Node -> Ctx \cup {None}] /\ busy \in [Node -> BOOLEAN]
    /\ signal \in [Ctx -> BOOLEAN] /\ lastNode \in [Ctx -> Node \cup {None}]

\* A context that is on a node exists, and the node is the one noted in it (so
\* it is on one node only).
Mapped == \A n \in Node : ctxOn[n] # None => ctxOn[n] \in Present /\ lastNode[ctxOn[n]] = n

\* Only the pipeline of a mapped context holds instructions, and a context that
\* has been told to leave is on a node until its pipeline is empty.
Draining ==
    /\ \A n \in Node : busy[n] => ctxOn[n] # None
    /\ \A c \in Ctx : signal[c] => \E n \in Node : ctxOn[n] = c /\ busy[n]

Signalled == {c \in Ctx : signal[c]}

\* The oldest context is looked for only if nobody is leaving.
Counted == signals = Cardinality(Signalled) /\ (pc = "oldest" => signals = 0)

CpuInv == CpuTypeOK /\ Mapped /\ Draining /\ Counted

LEMMA CtxFinite ==
    \A S \in SUBSET Ctx : IsFiniteSet(S)
<1>1. IsFiniteSet(Ctx)
  BY FS_Interval, ContextsAssumption DEF Ctx
<1>. QED
  BY <1>1, FS_Subset

LEMMA NodeOfMapped ==
    ASSUME Mapped, NEW n \in Node, ctxOn[n] \in Ctx
    PROVE  NodeOf(ctxOn[n]) = n
<1>1. \A m \in Node : ctxOn[m] = ctxOn[n] => m = n
  BY ContextsAssumption DEF Mapped, Ctx
<1>. QED
  BY <1>1 DEF NodeOf

LEMMA CpuInvExact == CpuInv => MappingExact
<1>. SUFFICES ASSUME CpuInv  PROVE MappingExact
  OBVIOUS
<1>. USE DEF CpuInv
<1>1. \A m, n \in Node : ctxOn[m] = ctxOn[n] /\ ctxOn[m] # None => m = n
  BY DEF Mapped
<1>2. \A c \in Alloc : c \in Present /\ lastNode[c] = NodeOf(c)
  <2>. SUFFICES ASSUME NEW n \in Node, ctxOn[n] \in Ctx
                PROVE  ctxOn[n] \in Present /\ lastNode[ctxOn[n]] = NodeOf(ctxOn[n])
    BY DEF Alloc
  <2>. QED
    BY NodeOfMapped, ContextsAssumption DEF Mapped, Ctx
<1>3. \A c \in Ctx : signal[c] => c \in Alloc /\ busy[NodeOf(c)]
  BY NodeOfMapped DEF Draining, Alloc
<1>. QED
  BY <1>1, <1>2, <1>3 DEF MappingExact, Draining, Counted, Signalled

LEMMA InitCpu ==
    ASSUME Init
    PROVE  CpuInv
<1>1. Signalled = {}
  BY DEF Init, Signalled
<1>2. CpuTypeOK /\ Mapped /\ Draining
  BY DEF Init, CpuTypeOK, Mapped, Draining
<1>3. Counted
  BY <1>1, FS_EmptySet DEF Init, Counted
<1>. QED
  BY <1>2, <1>3 DEF CpuInv

\* Eviction keeps nodes and contexts together; only finished contexts that are
\* evicted are freed.
LEMMA UnmapMaps ==
    ASSUME EmuTypeOK, CpuInv, NEW S \in SUBSET Ctx, Unmap(S)
    PROVE  /\ ctxOn' = [n \in Node |-> IF ctxOn[n] \in S THEN None ELSE ctxOn[n]]
           /\ lastNode' \in [Ctx -> Node \cup {None}]
           /\ Mapped'
<1>. USE ContextsAssumption DEF CpuInv
<1>1. ctxOn' = [n \in Node |-> IF ctxOn[n] \in S THEN None ELSE ctxOn[n]]
  BY DEF Unmap
<1>2. lastNode' = [c \in Ctx |-> IF c \in S /\ Dead(c) THEN None ELSE lastNode[c]]
  BY DEF Unmap
<1>3. \A c \in Ctx : c \notin S => status'[c] = status[c]
  BY DEF Unmap, Free
<1>4. Mapped'
  BY <1>1, <1>2, <1>3 DEF CpuTypeOK, Mapped, Present
<1>. QED
  BY <1>1, <1>2, <1>4 DEF CpuTypeOK

LEMMA PresentStay ==
    ASSUME EmuTypeOK, NEW c \in Ctx, NEW d \in Present,
           \/ status[c] = "running" /\ SystemCall(c)
           \/ HostThread(c)
           \/ ProcessEvents
    PROVE  d \in Present'
<1>. USE DEF EmuTypeOK, Present
<1>1. ASSUME NEW thread, Clone(c, thread)  PROVE d \in Present'
  BY <1>1 DEF Clone
<1>2. ASSUME NEW why, NEW pid, Suspend(c, why, pid)  PROVE d \in Present'
  BY <1>2 DEF Suspend
<1>3. ASSUME NEW pid, WaitPid(c, pid)  PROVE d \in Present'
  BY <1>2, <1>3 DEF WaitPid, Become
<1>4. CASE Exit(c)
  BY <1>4 DEF Exit, Become, EndOf
<1>5. CASE ExitGroup(c)
  BY <1>5 DEF ExitGroup, Become, EndOf
<1>6. CASE HostThread(c)
  BY <1>6 DEF HostThread
<1>7. CASE ProcessEvents
  BY <1>7 DEF ProcessEvents, Become
<1>. QED
  BY <1>1, <1>2, <1>3, <1>4, <1>5, <1>6, <1>7 DEF SystemCall, Join, NanoSleep

\* Steps that touch neither nodes nor signals.
LEMMA CpuIdle ==
    ASSUME CpuInv, UNCHANGED <<ctxOn, busy, signal, signals, lastNode>>,
           \A c \in Present : c \in Present', pc' # "oldest"
    PROVE  CpuInv'
  BY DEF CpuInv, CpuTypeOK, Mapped, Draining, Counted, Signalled

LEMMA EvictMaps ==
    ASSUME EmuTypeOK, CpuInv, Evict
    PROVE  CpuInv'
<1>. USE DEF CpuInv
<1>1. PICK before \in SUBSET {c \in Stopped : ~ Drained(c)}, last \in SUBSET {c \in Stopped : Drained(c)} :
          /\ Unmap(last)
          /\ signal' = [c \in Ctx |-> signal[c] \/ c \in before]
          /\ signals' = Cardinality(before)
  BY DEF Evict, EvictStopped
<1>2. before \in SUBSET Ctx /\ last \in SUBSET Ctx
  BY DEF Stopped, Alloc
<1>3. /\ ctxOn' = [n \in Node |-> IF ctxOn[n] \in last THEN None ELSE ctxOn[n]]
      /\ lastNode' \in [Ctx -> Node \cup {None}] /\ Mapped'
  BY <1>1, <1>2, UnmapMaps
<1>4. busy' = busy
  BY DEF Evict
<1>5. \A c \in Ctx : ~ signal[c]
  <2>1. IsFiniteSet(Signalled)
    BY CtxFinite DEF Signalled
  <2>2. signals = 0
    BY DEF Evict, Called
  <2>3. Signalled = {}
    BY <2>1, <2>2, FS_EmptySet DEF Counted
  <2>. QED
    BY <2>3 DEF Signalled
<1>6. Signalled' = before
  BY <1>1, <1>2, <1>5 DEF Signalled
<1>7. CpuTypeOK'
  BY <1>1, <1>3, <1>4, <1>5, ContextsAssumption DEF CpuTypeOK
<1>8. Counted'
  <2>1. pc' = "oldest" => signals' = 0
    BY DEF Evict
  <2>. QED
    BY <1>1, <1>6, <2>1 DEF Counted
<1>9. \A n \in Node : ctxOn[n] \in last => ~ busy[n]
  BY <1>2, NodeOfMapped DEF Drained
<1>10. \A c \in before : \E n \in Node : ctxOn'[n] = c /\ busy[n]
  <2>. SUFFICES ASSUME NEW n \in Node, ctxOn[n] \in before
                PROVE  ctxOn'[n] = ctxOn[n] /\ busy[n]
    BY DEF Stopped, Alloc
  <2>1. busy[n] /\ ctxOn[n] \notin last
    BY <1>2, <1>9, NodeOfMapped DEF Drained, CpuTypeOK
  <2>. QED
    BY <1>3, <2>1
<1>11. Draining'
  BY <1>3, <1>4, <1>6, <1>9, <1>10 DEF Draining, Signalled
<1>. QED
  BY <1>3, <1>7, <1>8, <1>11

LEMMA EvictOldestMaps ==
    ASSUME EmuTypeOK, CpuInv, EvictOldest
    PROVE  CpuInv'
<1>. USE DEF CpuInv
<1>1. busy' = busy /\ pc' = "allocate" /\ signals = 0
  BY DEF EvictOldest, Counted
<1>2. \A c \in Ctx : ~ signal[c]
  <2>1. IsFiniteSet(Signalled)
    BY CtxFinite DEF Signalled
  <2>2. Signalled = {}
    BY <1>1, <2>1, FS_EmptySet DEF Counted
  <2>. QED
    BY <2>2 DEF Signalled
<1>3. CASE UNCHANGED <<unmapVars, signal, signals>>
  BY <1>1, <1>3, CpuIdle DEF unmapVars, Present
<1>4. ASSUME NEW c \in Alloc, Drained(c), Unmap({c}), UNCHANGED <<signal, signals>>
      PROVE  CpuInv'
  <2>1. {c} \in SUBSET Ctx
    BY DEF Alloc
  <2>2. /\ ctxOn' = [n \in Node |-> IF ctxOn[n] \in {c} THEN None ELSE ctxOn[n]]
        /\ lastNode' \in [Ctx -> Node \cup {None}] /\ Mapped'
    BY <1>4, <2>1, UnmapMaps
  <2>3. \A n \in Node : ctxOn[n] = c => ~ busy[n]
    BY <1>4, <2>1, NodeOfMapped DEF Drained
  <2>4. CpuTypeOK'
    BY <1>1, <1>4, <2>2 DEF CpuTypeOK
  <2>5. Draining'
    BY <1>1, <1>2, <1>4, <2>2, <2>3 DEF Draining
  <2>6. Counted'
    BY <1>1, <1>4 DEF Counted, Signalled
  <2>. QED
    BY <2>2, <2>4, <2>5, <2>6
<1>5. ASSUME NEW c \in Alloc, ~ Drained(c), UNCHANGED unmapVars,
             signal' = [signal EXCEPT ![c] = TRUE], signals' = 1
      PROVE  CpuInv'
  <2>1. c \in Ctx
    BY DEF Alloc
  <2>2. PICK n \in Node : ctxOn[n] = c /\ busy[n]
    BY <1>5, NodeOfMapped DEF Drained, Alloc, CpuTypeOK
  <2>3. UNCHANGED <<ctxOn, lastNode, status>>
    BY <1>5 DEF unmapVars
  <2>4. CpuTypeOK' /\ Mapped' /\ Draining'
    BY <1>1, <1>2, <1>5, <2>1, <2>2, <2>3 DEF CpuTypeOK, Mapped, Draining, Present
  <2>5. Signalled' = {c}
    BY <1>2, <1>5, <2>1 DEF Signalled, CpuTypeOK
  <2>6. Counted'
    BY <1>1, <1>5, <2>5, FS_Singleton DEF Counted
  <2>. QED
    BY <2>4, <2>6
<1>. QED
  BY <1>3, <1>4, <1>5 DEF EvictOldest

LEMMA AllocateMaps ==
    ASSUME CpuInv, Allocate
    PROVE  CpuInv'
<1>. USE DEF CpuInv
<1>1. PICK c \in Waiting : \E n \in NodesFor(c) :
          /\ ctxOn' = [ctxOn EXCEPT ![n] = c]
          /\ lastNode' = [lastNode EXCEPT ![c] = n]
  BY DEF Allocate
<1>2. PICK n \in NodesFor(c) :
          /\ ctxOn' = [ctxOn EXCEPT ![n] = c]
          /\ lastNode' = [lastNode EXCEPT ![c] = n]
  BY <1>1
<1>3. UNCHANGED <<status, pc, busy, signal, signals>> /\ pc' # "oldest"
  BY DEF Allocate, emuVars
<1>4. c \in Ctx /\ c \in Present /\ \A m \in Node : ctxOn[m] # c
  BY DEF Waiting, Running, Present, Alloc
<1>5. n \in Node /\ ctxOn[n] = None
  BY DEF NodesFor, FreeNodes
<1>6. CpuTypeOK'
  BY <1>2, <1>3, <1>4, <1>5 DEF CpuTypeOK
<1>7. Mapped'
  BY <1>2, <1>3, <1>4, <1>5 DEF CpuTypeOK, Mapped, Present
<1>8. Draining'
  BY <1>2, <1>3, <1>4, <1>5, ContextsAssumption DEF CpuTypeOK, Draining, Ctx
<1>9. Counted'
  BY <1>3 DEF Counted, Signalled
<1>. QED
  BY <1>6, <1>7, <1>8, <1>9

LEMMA CommitMaps ==
    ASSUME EmuTypeOK, CpuInv, Commit
    PROVE  CpuInv'
<1>. USE DEF CpuInv
<1>. DEFINE evicted(drained) == {c \in Ctx : signal[c] /\ \E n \in drained : ctxOn[n] = c}
<1>1. PICK drained \in SUBSET {n \in Node : busy[n]} :
          /\ busy' = [n \in Node |-> busy[n] /\ n \notin drained]
          /\ Unmap(evicted(drained))
          /\ signal' = [c \in Ctx |-> signal[c] /\ c \notin evicted(drained)]
          /\ signals' = signals - Cardinality(evicted(drained))
  BY DEF Commit
<1>. DEFINE gone == evicted(drained)
<1>2. pc' = "fetch"
  BY DEF Commit
<1>3. gone \in SUBSET Ctx
  OBVIOUS
<1>4. /\ ctxOn' = [n \in Node |-> IF ctxOn[n] \in gone THEN None ELSE ctxOn[n]]
      /\ lastNode' \in [Ctx -> Node \cup {None}] /\ Mapped'
  BY <1>1, <1>3, UnmapMaps
<1>5. CpuTypeOK'
  BY <1>1, <1>4 DEF CpuTypeOK
<1>6. \A n \in Node : ctxOn[n] \in gone => n \in drained
  BY <1>1, ContextsAssumption DEF Mapped, Ctx
<1>7. Draining'
  <2>1. ASSUME NEW n \in Node, busy'[n]  PROVE ctxOn'[n] # None
    BY <1>1, <1>4, <1>6, <2>1 DEF Draining
  <2>2. ASSUME NEW c \in Ctx, signal'[c]  PROVE \E n \in Node : ctxOn'[n] = c /\ busy'[n]
    <3>1. signal[c] /\ c \notin gone
      BY <1>1, <2>2
    <3>2. PICK n \in Node : ctxOn[n] = c /\ busy[n]
      BY <3>1 DEF Draining
    <3>3. n \notin drained
      BY <3>1, <3>2
    <3>. QED
      BY <1>1, <1>4, <3>1, <3>2, <3>3
  <2>. QED
    BY <2>1, <2>2 DEF Draining
<1>8. Counted'
  <2>1. Signalled' = Signalled \ gone
    BY <1>1 DEF Signalled
  <2>2. Signalled \cap gone = gone
    BY DEF Signalled
  <2>3. IsFiniteSet(Signalled)
    BY CtxFinite DEF Signalled
  <2>4. Cardinality(Signalled \ gone) = Cardinality(Signalled) - Cardinality(gone)
    BY <2>2, <2>3, FS_Difference
  <2>. QED
    BY <1>1, <1>2, <2>1, <2>4 DEF Counted
<1>. QED
  BY <1>4, <1>5, <1>7, <1>8

LEMMA FetchMaps ==
    ASSUME EmuTypeOK, CpuInv, NEW n \in Node, Fetch(n)
    PROVE  CpuInv'
<1>. USE DEF CpuInv
<1>1. /\ busy' = [busy EXCEPT ![n] = TRUE] /\ pc' = "fetch"
      /\ UNCHANGED <<ctxOn, signal, signals, lastNode>>
      /\ ctxOn[n] \in Ctx
  BY DEF Fetch, Running
<1>2. \A c \in Present : c \in Present'
  <2>1. CASE UNCHANGED emuVars
    BY <2>1 DEF emuVars, Present
  <2>2. CASE SystemCall(ctxOn[n])
    BY <1>1, <2>2, PresentStay DEF Fetch, Running
  <2>. QED
    BY <2>1, <2>2 DEF Fetch
<1>3. CpuTypeOK' /\ Mapped'
  BY <1>1, <1>2 DEF CpuTypeOK, Mapped
<1>4. Draining'
  BY <1>1, ContextsAssumption DEF CpuTypeOK, Draining, Ctx
<1>5. Counted'
  BY <1>1 DEF Counted, Signalled
<1>. QED
  BY <1>3, <1>4, <1>5

LEMMA CpuStep ==
    ASSUME EmuInv, CpuInv, [Next]_vars
    PROVE  CpuInv'
<1>1. EmuTypeOK
  BY DEF EmuInv
<1>2. CASE UNCHANGED vars
  BY <1>2 DEF vars, cpuVars, emuVars, CpuInv, CpuTypeOK, Mapped, Draining, Counted, Signalled, Present
<1>3. CASE Stop \/ NotCalled \/ EndSchedule
  BY <1>3, CpuIdle DEF Stop, NotCalled, EndSchedule, cpuVars, emuVars, Present
<1>4. CASE Events
  <2>1. UNCHANGED <<ctxOn, busy, signal, signals, lastNode>> /\ pc' # "oldest"
    BY <1>4 DEF Events
  <2>2. \A c \in Present : c \in Present'
    BY <1>1, <1>4, PresentStay DEF Events, emuVars, Present
  <2>. QED
    BY <2>1, <2>2, CpuIdle
<1>5. ASSUME NEW c \in Ctx, Host(c)  PROVE CpuInv'
  <2>1. UNCHANGED <<ctxOn, busy, signal, signals, lastNode>> /\ pc' # "oldest"
    BY <1>5 DEF Host, cpuVars
  <2>2. \A d \in Present : d \in Present'
    BY <1>1, <1>5, PresentStay DEF Host
  <2>. QED
    BY <2>1, <2>2, CpuIdle
<1>. QED
  BY <1>1, <1>2, <1>3, <1>4, <1>5, EvictMaps, EvictOldestMaps, AllocateMaps, CommitMaps, FetchMaps
  DEF Next, Cycle

\* Nodes, contexts and the counter of signals always agree: the scheduler, the
\* commit stage and the end of a context keep them together.
THEOREM NodesAndContextsAgree == Spec => []MappingExact
<1>1. Init => EmuInv /\ CpuInv
  BY InitEmu, InitCpu DEF Init
<1>2. EmuInv /\ CpuInv /\ [Next]_vars => EmuInv' /\ CpuInv'
  BY NextKeeps, CpuStep
<1>. QED
  BY <1>1, <1>2, CpuInvExact, PTL DEF Spec

-----------------------------------------------------------------------------
(* Times, orders and counters *)

ClockTypeOK ==
    /\ pc \in {"sched", "oldest", "allocate", "commit", "fetch", "stop"}
    /\ used \in [Node -> BOOLEAN]
    /\ allocAge \in [Ctx -> 0..Quantum] /\ oldest \in 0..Quantum
    /\ left \in [Ctx -> 0..MaxCtx] /\ leftNow \in BOOLEAN

LEMMA Least ==
    ASSUME NEW T \in SUBSET Nat, T # {}
    PROVE  \E x \in T : \A y \in T : x <= y
<1>1. \E x \in T : \A y \in T : ~ (y < x)
  <2>1. PICK x \in T : \A y \in T : ~ (<<y, x>> \in OpToRel(<, Nat))
    BY NatLessThanWellFounded, WFMin
  <2>. QED
    BY <2>1 DEF OpToRel
<1>2. PICK x \in T : \A y \in T : ~ (y < x)
  BY <1>1
<1>3. x \in Nat /\ \A y \in T : y \in Nat
  BY <1>2
<1>. QED
  BY <1>2, <1>3

\* A set of numbers up to n has a greatest one.
LEMMA Greatest ==
    ASSUME NEW n \in Nat, NEW T \in SUBSET (0..n), T # {}
    PROVE  \E x \in T : \A y \in T : y <= x
<1>. DEFINE B == {k \in 0..n : n - k \in T}
<1>1. \A y \in T : y \in 0..n /\ n - y \in 0..n /\ n - (n - y) = y
  OBVIOUS
<1>2. \A y \in T : n - y \in B
  BY <1>1
<1>3. B # {}
  <2>1. PICK t \in T : TRUE
    OBVIOUS
  <2>2. n - t \in B
    BY <1>2, <2>1
  <2>. QED
    BY <2>2
<1>4. B \in SUBSET Nat
  OBVIOUS
<1>5. PICK x \in B : \A y \in B : x <= y
  BY <1>3, <1>4, Least
<1>6. ASSUME NEW y \in T  PROVE y <= n - x
  <2>1. n - y \in B /\ x \in 0..n /\ y \in 0..n
    BY <1>1, <1>2, <1>5
  <2>2. x <= n - y
    BY <1>5, <2>1
  <2>. QED
    BY <2>1, <2>2
<1>7. n - x \in T
  BY <1>5
<1>. QED
  BY <1>6, <1>7

\* An order without gaps on the contexts counts up to their number at most.
LEMMA RankedType ==
    ASSUME NEW f
    PROVE  Ranked(f) \in [Ctx -> 0..MaxCtx]
<1>1. IsFiniteSet(Ctx) /\ Cardinality(Ctx) = MaxCtx /\ MaxCtx \in Nat
  BY FS_Interval, ContextsAssumption DEF Ctx
<1>2. ASSUME NEW d \in Ctx
      PROVE  Cardinality({f[e] : e \in {x \in Ctx : 0 < f[x] /\ f[x] <= f[d]}}) \in 0..MaxCtx
  <2>. DEFINE X == {x \in Ctx : 0 < f[x] /\ f[x] <= f[d]}
              Y == {f[e] : e \in X}
              g == [e \in X |-> f[e]]
  <2>1. X \in SUBSET Ctx
    OBVIOUS
  <2>. HIDE DEF X
  <2>2. IsFiniteSet(X) /\ Cardinality(X) <= MaxCtx
    BY <1>1, <2>1, FS_Subset
  <2>3. g \in Surjection(X, Y)
    BY DEF Surjection
  <2>4. IsFiniteSet(Y) /\ Cardinality(Y) <= Cardinality(X)
    BY <2>2, <2>3, FS_Surjection
  <2>5. Cardinality(X) \in Nat /\ Cardinality(Y) \in Nat
    BY <2>2, <2>4, FS_CardinalityType
  <2>. QED
    BY <1>1, <2>2, <2>4, <2>5 DEF X
<1>. QED
  BY <1>2 DEF Ranked

\* Each context that has been told to leave is on a node of its own.
LEMMA SignalsBounded ==
    ASSUME CpuInv
    PROVE  signals \in 0..MaxNode
<1>. USE DEF CpuInv
<1>1. IsFiniteSet(Node) /\ Cardinality(Node) = MaxNode /\ MaxNode \in Nat
  BY FS_Interval, SchedulerAssumption DEF Node
<1>. DEFINE f == [c \in Signalled |-> lastNode[c]]
<1>2. ASSUME NEW c \in Signalled  PROVE lastNode[c] \in Node /\ ctxOn[lastNode[c]] = c
  <2>1. PICK n \in Node : ctxOn[n] = c
    BY DEF Signalled, Draining
  <2>2. ctxOn[n] # None
    BY <2>1, ContextsAssumption DEF Signalled, Ctx
  <2>. QED
    BY <2>1, <2>2 DEF Mapped
<1>3. f \in Injection(Signalled, Node)
  BY <1>2 DEF Injection, IsInjective
<1>4. IsFiniteSet(Signalled) /\ Cardinality(Signalled) <= Cardinality(Node)
  BY <1>1, <1>3, FS_Injection
<1>. QED
  BY <1>1, <1>4, FS_CardinalityType DEF Counted

LEMMA UnmapClock ==
    ASSUME ClockTypeOK, NEW S, Unmap(S)
    PROVE  left' \in [Ctx -> 0..MaxCtx] /\ leftNow' \in BOOLEAN
  BY RankedType DEF Unmap, ClockTypeOK

LEMMA ClockStep ==
    ASSUME EmuInv, ClockTypeOK, [Next]_vars
    PROVE  ClockTypeOK'
<1>1. Quantum \in Nat /\ Quantum > 0
  BY SchedulerAssumption
<1>2. CASE Stop \/ NotCalled \/ UNCHANGED vars
  BY <1>2 DEF Stop, NotCalled, vars, cpuVars, ClockTypeOK
<1>3. CASE Evict
  <2>1. left' \in [Ctx -> 0..MaxCtx] /\ leftNow' \in BOOLEAN
    BY <1>3, UnmapClock DEF Evict, EvictStopped
  <2>2. used' = used /\ pc' \in {"commit", "oldest", "allocate"} /\ oldest' \in {0, oldest}
    BY <1>3 DEF Evict
  <2>3. allocAge' \in [Ctx -> 0..Quantum]
    BY <1>1, <1>3 DEF Evict, ClockTypeOK
  <2>. QED
    BY <1>1, <2>1, <2>2, <2>3 DEF ClockTypeOK
<1>4. CASE EvictOldest
  <2>1. left' \in [Ctx -> 0..MaxCtx] /\ leftNow' \in BOOLEAN
    BY <1>4, UnmapClock DEF EvictOldest, unmapVars, ClockTypeOK
  <2>. QED
    BY <1>4, <2>1 DEF EvictOldest, ClockTypeOK
<1>5. CASE Allocate
  <2>1. PICK c \in Ctx, n \in Node : /\ used' = [used EXCEPT ![n] = TRUE]
                                     /\ allocAge' = [allocAge EXCEPT ![c] = 0]
    BY <1>5 DEF Allocate, Waiting, Running, NodesFor, FreeNodes
  <2>2. used' \in [Node -> BOOLEAN] /\ allocAge' \in [Ctx -> 0..Quantum]
    BY <1>1, <2>1 DEF ClockTypeOK
  <2>. QED
    BY <1>5, <2>2 DEF Allocate, ClockTypeOK, emuVars
<1>6. CASE EndSchedule
  <2>. DEFINE ages == {allocAge[c] : c \in {d \in Alloc : ~ signal[d]}}
  <2>1. ages \in SUBSET (0..Quantum)
    BY DEF ClockTypeOK, Alloc
  <2>2. oldest' = IF ages = {} THEN 0 ELSE CHOOSE a \in ages : \A b \in ages : b <= a
    BY <1>6 DEF EndSchedule
  <2>. HIDE DEF ages
  <2>3. CASE ages = {}
    <3>1. oldest' \in 0..Quantum
      BY <1>1, <2>2, <2>3
    <3>. QED
      BY <1>6, <3>1 DEF EndSchedule, ClockTypeOK
  <2>4. CASE ages # {}
    <3>1. \E a \in ages : \A b \in ages : b <= a
      BY <1>1, <2>1, <2>4, Greatest
    <3>2. oldest' \in ages
      BY <2>2, <2>4, <3>1
    <3>. QED
      BY <1>6, <2>1, <3>2 DEF EndSchedule, ClockTypeOK
  <2>. QED
    BY <2>3, <2>4
<1>7. CASE Commit
  <2>1. left' \in [Ctx -> 0..MaxCtx] /\ leftNow' \in BOOLEAN
    BY <1>7, UnmapClock DEF Commit
  <2>. QED
    BY <1>7, <2>1 DEF Commit, ClockTypeOK
<1>8. CASE Events
  <2>1. \A age \in 0..Quantum : Older(age) \in 0..Quantum
    BY <1>1 DEF Older
  <2>2. allocAge' \in [Ctx -> 0..Quantum] /\ oldest' \in 0..Quantum
    BY <1>1, <1>8, <2>1 DEF Events, ClockTypeOK
  <2>. QED
    BY <1>8, <2>2 DEF Events, ClockTypeOK
<1>9. ASSUME NEW n \in Node, Fetch(n)  PROVE ClockTypeOK'
  BY <1>9 DEF Fetch, ClockTypeOK
<1>10. ASSUME NEW c \in Ctx, Host(c)  PROVE ClockTypeOK'
  BY <1>10 DEF Host, cpuVars, ClockTypeOK
<1>. QED
  BY <1>2, <1>3, <1>4, <1>5, <1>6, <1>7, <1>8, <1>9, <1>10 DEF Next, Cycle

\* Every field of nodes and contexts keeps its type.  In particular the counter
\* x86_cpu->ctx_dealloc_signals is never negative nor beyond the number of nodes.
THEOREM SchedulerTypeCorrect == Spec => []TypeOK
<1>1. Init => EmuInv /\ CpuInv /\ ClockTypeOK
  <2>1. 0 \in 0..Quantum /\ 0 \in 0..MaxCtx
    BY SchedulerAssumption, ContextsAssumption
  <2>2. Init => ClockTypeOK
    BY <2>1 DEF Init, ClockTypeOK
  <2>. QED
    BY <2>2, InitEmu, InitCpu DEF Init
<1>2. EmuInv /\ CpuInv /\ ClockTypeOK /\ [Next]_vars => (EmuInv /\ CpuInv /\ ClockTypeOK)'
  BY NextKeeps, CpuStep, ClockStep
<1>3. EmuInv /\ CpuInv /\ ClockTypeOK => TypeOK
  BY SignalsBounded DEF TypeOK, EmuInv, CpuInv, CpuTypeOK, ClockTypeOK
<1>. QED
  BY <1>1, <1>2, <1>3, PTL DEF Spec
=============================================================================
