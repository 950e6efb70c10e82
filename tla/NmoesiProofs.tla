---------------------------- MODULE NmoesiProofs ----------------------------
(***************************************************************************)
(* TLAPS proofs about Nmoesi, for every tree of modules, every number of   *)
(* ways and blocks and every workload: the calls between stacks, the       *)
(* directory locks and the access lists.                                   *)
(***************************************************************************)
EXTENDS Nmoesi, SequenceTheorems, FiniteSetTheorems, WellFoundedInduction, TLAPS

-----------------------------------------------------------------------------
(* Events, by the call they belong to *)

AccessEvs == {"LOAD_LOCK", "LOAD_ACTION", "LOAD_MISS", "LOAD_UNLOCK",
              "LOAD_FINISH", "STORE_LOCK", "STORE_ACTION", "STORE_UNLOCK",
              "STORE_FINISH"}
FalEvs    == {"FIND_AND_LOCK", "FIND_AND_LOCK_ACTION", "FIND_AND_LOCK_FINISH"}
EvictEvs  == {"EVICT", "EVICT_INVALID", "EVICT_ACTION", "EVICT_RECEIVE",
              "EVICT_PROCESS", "EVICT_REPLY_RECEIVE"}
InvEvs    == {"INVALIDATE", "INVALIDATE_FINISH"}
WriteEvs  == {"WRITE_REQUEST_RECEIVE", "WRITE_REQUEST_ACTION",
              "WRITE_REQUEST_EXCLUSIVE", "WRITE_REQUEST_UPDOWN_FINISH",
              "WRITE_REQUEST_FINISH"}
ReadEvs   == {"READ_REQUEST_RECEIVE", "READ_REQUEST_LOCK",
              "READ_REQUEST_ACTION", "READ_REQUEST_UPDOWN_MISS",
              "READ_REQUEST_UPDOWN_FINISH",
              "READ_REQUEST_DOWNUP_WAIT_FOR_REQS",
              "READ_REQUEST_DOWNUP_FINISH", "READ_REQUEST_FINISH"}

\* The events in which a stack waits for the stack it has called: find_and_lock,
\* a request, or several requests at once.
FalCallers == {"LOAD_ACTION", "STORE_ACTION", "EVICT_PROCESS",
               "WRITE_REQUEST_ACTION", "READ_REQUEST_ACTION"}
InvCallers == {"EVICT_INVALID", "WRITE_REQUEST_EXCLUSIVE"}
ReqCallers == {"LOAD_MISS", "STORE_UNLOCK", "WRITE_REQUEST_UPDOWN_FINISH",
               "READ_REQUEST_UPDOWN_MISS"}
Forkers    == {"INVALIDATE_FINISH", "READ_REQUEST_UPDOWN_FINISH",
               "READ_REQUEST_DOWNUP_WAIT_FOR_REQS"}

\* The events in which a stack waits in another one.
Sleepers == {"LOAD_LOCK", "LOAD_FINISH", "STORE_LOCK", "STORE_FINISH",
             "READ_REQUEST_LOCK"}

\* The events in which a stack has a way locked whatever happened before.
Lockers == {"FIND_AND_LOCK_ACTION", "FIND_AND_LOCK_FINISH", "LOAD_MISS",
            "LOAD_UNLOCK", "STORE_UNLOCK", "WRITE_REQUEST_EXCLUSIVE",
            "WRITE_REQUEST_UPDOWN_FINISH", "READ_REQUEST_UPDOWN_MISS",
            "READ_REQUEST_UPDOWN_FINISH", "READ_REQUEST_DOWNUP_WAIT_FOR_REQS",
            "READ_REQUEST_DOWNUP_FINISH"}

-----------------------------------------------------------------------------
(* Stacks and calls *)

Fields == {"ev", "n", "now", "wait", "mod", "tgt", "addr", "kind", "down",
           "blocking", "peer", "way", "src", "state", "hit", "evict", "err",
           "shared", "retain", "reply", "pending", "master", "ported", "good"}

\* A stack has all fields, and those that its event needs have a meaning.
Typed(f) ==
  /\ f = [x \in Fields |-> f[x]]
  /\ f.n \in Nat /\ f.mod \in Mods /\ f.tgt \in Mods \cup {None}
  /\ f.addr \in Blocks \cup {None} /\ f.state \in States
  /\ f.pending \in Nat /\ f.err \in BOOLEAN /\ f.down \in BOOLEAN
  /\ f.wait # <<>> => f.ev \in Sleepers /\ f.n = 0

\* What the events of an access, of find_and_lock, of an eviction, of an
\* invalidation and of a request know.
AccessOK(f) == f.ev \in AccessEvs /\ f.mod \in Cores
FalOK(f) ==
  /\ f.ev \in FalEvs
  /\ f.mod = MM => f.state \in {"I", "E", "M"}
EvictOK(f) ==
  /\ f.ev \in EvictEvs
  /\ f.ev = "EVICT" => f.way \in Ways(f.mod)
  /\ f.ev # "EVICT" /\ f.mod # MM => f.tgt = Low[f.mod]
  /\ f.ev \notin {"EVICT", "EVICT_INVALID"} => f.mod # MM
InvOK(f) ==
  /\ f.ev \in InvEvs
  /\ f.way \in Ways(f.mod)
RequestOK(f) ==
  /\ f.ev \in WriteEvs \cup ReadEvs
  /\ f.ev \in {"WRITE_REQUEST_UPDOWN_FINISH", "READ_REQUEST_UPDOWN_MISS",
               "READ_REQUEST_UPDOWN_FINISH"} => f.down
  /\ f.ev \in {"READ_REQUEST_DOWNUP_WAIT_FOR_REQS",
               "READ_REQUEST_DOWNUP_FINISH"} => ~f.down
  /\ f.ev = "READ_REQUEST_UPDOWN_MISS" => f.tgt # MM /\ f.pending = 1
  /\ f.tgt = MM =>
       \/ f.state \in {"E", "M"}
       \/ f.ev \notin FalCallers \cup {"WRITE_REQUEST_EXCLUSIVE"}
       \/ f.ev \in FalCallers /\ (f.n = 0 \/ f.err)

\* The module in which a stack has a way locked, or is about to lock one.
Module(f) == IF f.ev \in AccessEvs \cup FalEvs THEN f.mod ELSE f.tgt

\* Stack p has called stack f under label l.
Called(p, l, f) ==
  \/ /\ l = "FAL" /\ p.ev \in FalCallers /\ p.n = 0
     /\ FalOK(f) /\ f.mod = Module(p)
  \/ /\ l = "EVICT" /\ p.ev = "FIND_AND_LOCK_FINISH" /\ p.n = 0
     /\ EvictOK(f)
  \/ /\ l = "INV" /\ p.ev \in InvCallers /\ p.n = 0
     /\ InvOK(f)
  \/ /\ l = "REQ" /\ p.ev \in ReqCallers /\ p.n = 0
     /\ RequestOK(f) /\ f.down /\ f.mod # MM /\ f.tgt = Low[f.mod]
  \/ /\ l \in Mods /\ p.ev \in Forkers
     /\ RequestOK(f) /\ ~f.down /\ f.tgt = l /\ l # MM

\* The name of a stack: the number of its access and the calls.
Paths == {x \in Seq((1..MaxAccesses) \cup Labels) :
            /\ x # <<>> /\ x[1] \in 1..MaxAccesses
            /\ \A i \in 2..Len(x) : x[i] \in Labels}

\* Each stack is an access or was called by one that waits for it.
Calls(s, id) ==
  \A x \in DOMAIN s :
    /\ x \in Paths /\ x[1] < id /\ Typed(s[x])
    /\ Len(x) = 1 => AccessOK(s[x])
    /\ Len(x) > 1 => Front(x) \in DOMAIN s /\ Called(s[Front(x)], Last(x), s[x])

\* A stack that has several requests under way counts them: c of them have
\* not returned.
Counted(f, c) ==
  IF f.ev \in Forkers
  THEN f.pending \in 1..Cardinality(Mods) /\ f.n + c = f.pending
  ELSE f.n \in {0, 1}
Kids(s, x) == {l \in Mods : Append(x, l) \in DOMAIN s}
Counts(s) == \A x \in DOMAIN s : Counted(s[x], Cardinality(Kids(s, x)))

StackInv(s, id) == Calls(s, id) /\ Counts(s)

-----------------------------------------------------------------------------
(* Directory locks *)

\* Stack f has a way of Module(f) locked.
Locks(f) == \/ f.ev \in Lockers
            \/ f.ev \in FalCallers /\ f.n > 0 /\ ~f.err

\* Stack x has way w of module m locked, or waits for it.
HoldsWay(s, x, m, w) ==
  x \in DOMAIN s /\ Locks(s[x]) /\ Module(s[x]) = m /\ s[x].way = w
Asleep(s, x) == x \in DOMAIN s /\ s[x].ev = "FIND_AND_LOCK" /\ s[x].n = 0
WaitsFor(s, x, m, w) ==
  Asleep(s, x) /\ s[x].mod = m /\ s[Front(x)].way = w

\* A way is locked by one stack or by none, its queue has the stacks that wait
\* for it, once each, and a stack that sleeps is in a queue.
LockShape(l) ==
  /\ DOMAIN l = Mods
  /\ \A m \in Mods :
       /\ DOMAIN l[m] = Ways(m)
       /\ \A w \in Ways(m) : l[m][w] \in [held : BOOLEAN, queue : Seq(Paths)]
LockInv(s, l) ==
  /\ LockShape(l)
  /\ \A x \in DOMAIN s : Locks(s[x]) => s[x].way \in Ways(Module(s[x]))
  /\ \A m \in Mods : \A w \in Ways(m) :
       /\ l[m][w].held <=> \E x \in DOMAIN s : HoldsWay(s, x, m, w)
       /\ \A x, y \in DOMAIN s :
            HoldsWay(s, x, m, w) /\ HoldsWay(s, y, m, w) => x = y
       /\ \A i \in 1..Len(l[m][w].queue) :
            /\ WaitsFor(s, l[m][w].queue[i], m, w)
            /\ \A j \in 1..Len(l[m][w].queue) :
                 l[m][w].queue[i] = l[m][w].queue[j] => i = j
  /\ \A x \in DOMAIN s : Asleep(s, x) =>
       \E m \in Mods : \E w \in Ways(m) :
         \E i \in 1..Len(l[m][w].queue) : l[m][w].queue[i] = x

-----------------------------------------------------------------------------
(* Access lists, caches and directories *)

\* Stack f, of path x, is in the access list of m.
Listed(s, x, m) ==
  /\ x \in DOMAIN s
  /\ \/ Len(x) = 1 /\ s[x].mod = m
     \/ /\ s[x].ev \in ReadEvs \ {"READ_REQUEST_RECEIVE"}
        /\ s[x].down /\ s[x].tgt = m
ListInv(s, a) ==
  /\ DOMAIN a = Mods
  /\ \A m \in Mods :
       /\ a[m] \in Seq(Paths)
       /\ \A i \in 1..Len(a[m]) :
            /\ Listed(s, a[m][i], m)
            /\ \A j \in 1..Len(a[m]) : a[m][i] = a[m][j] => i = j
       /\ \A x \in DOMAIN s : Listed(s, x, m) =>
            \E i \in 1..Len(a[m]) : a[m][i] = x

BlockType == [tag : Blocks \cup {None}, state : States,
              transient : Blocks \cup {None}]
EntryType == [owner : (Mods \ {MM}) \cup {None}, sharers : SUBSET (Mods \ {MM})]
CacheInv(b, d) ==
  /\ DOMAIN b = Mods /\ DOMAIN d = Mods
  /\ \A m \in Mods :
       /\ DOMAIN b[m] = Ways(m) /\ DOMAIN d[m] = Ways(m)
       /\ \A w \in Ways(m) : b[m][w] \in BlockType /\ d[m][w] \in EntryType
  /\ \A w \in Ways(MM) : b[MM][w].state \in {"I", "E", "M"}

\* The inductive invariant.
NmoesiInv ==
  /\ StackInv(stk, nextId) /\ LockInv(stk, lock)
  /\ ListInv(stk, acc) /\ CacheInv(blk, dir)
  /\ nextId \in 1..MaxAccesses + 1
  /\ fresh \in [Blocks -> SUBSET Mods]

-----------------------------------------------------------------------------
(* Names of stacks *)

LEMMA PathAppend ==
  ASSUME NEW k \in Paths, NEW l \in Labels
  PROVE  /\ Append(k, l) \in Paths /\ Len(Append(k, l)) > 1
         /\ Len(Append(k, l)) # 1
         /\ Front(Append(k, l)) = k /\ Last(Append(k, l)) = l
         /\ Append(k, l)[1] = k[1] /\ Append(k, l) # k
<1>. DEFINE S == (1..MaxAccesses) \cup Labels
            a == Append(k, l)
<1>1. k \in Seq(S) /\ l \in S /\ Len(k) \in Nat /\ Len(k) > 0 /\ k[1] \in 1..MaxAccesses
  <2>1. k \in Seq(S) /\ k # <<>> /\ k[1] \in 1..MaxAccesses
    BY DEF Paths
  <2>. QED BY <2>1
<1>. HIDE DEF S
<1>2. a \in Seq(S) /\ Len(a) = Len(k) + 1 /\ a[Len(a)] = l
      /\ \A i \in 1..Len(k) : a[i] = k[i]
  BY <1>1
<1>3. a # <<>> /\ a[1] = k[1] /\ Len(a) > 1 /\ Len(a) # 1 /\ a # k
  BY <1>1, <1>2
<1>4. \A i \in 2..Len(a) : a[i] \in Labels
  <2>1. \A i \in 2..Len(k) : k[i] \in Labels
    BY DEF Paths
  <2>. QED BY <1>1, <1>2, <2>1
<1>5. a \in Paths
  BY <1>1, <1>2, <1>3, <1>4 DEF Paths, S
<1>6. Front(a) = k
  <2>1. /\ Front(a) = SubSeq(a, 1, Len(k)) /\ Front(a) \in Seq(S)
        /\ Len(Front(a)) = Len(k)
    BY <1>1, <1>2 DEF Front
  <2>2. \A i \in 1..Len(k) : Front(a)[i] = a[i]
    BY <1>1, <1>2, <2>1
  <2>. QED BY <1>1, <1>2, <2>1, <2>2, SeqEqual
<1>. QED BY <1>2, <1>3, <1>5, <1>6 DEF Last

LEMMA PathFront ==
  ASSUME NEW x \in Paths, Len(x) > 1
  PROVE  /\ x = Append(Front(x), Last(x)) /\ Last(x) \in Labels
         /\ Front(x) # x /\ Front(x)[1] = x[1]
<1>. DEFINE S == (1..MaxAccesses) \cup Labels
            n == Len(x) - 1
<1>1. x \in Seq(S) /\ Len(x) \in Nat
  BY DEF Paths
<1>2. Last(x) \in Labels
  BY <1>1 DEF Paths, Last
<1>. HIDE DEF S
<1>3. /\ Front(x) \in Seq(S) /\ Len(Front(x)) = n /\ n \in Nat /\ n > 0
      /\ \A i \in 1..n : Front(x)[i] = x[i]
  BY <1>1 DEF Front
<1>4. /\ Append(Front(x), Last(x)) \in Seq(S)
      /\ Len(Append(Front(x), Last(x))) = n + 1
      /\ \A i \in 1..n : Append(Front(x), Last(x))[i] = x[i]
      /\ Append(Front(x), Last(x))[n + 1] = x[Len(x)]
  BY <1>1, <1>3 DEF Last
<1>5. x = Append(Front(x), Last(x))
  <2>1. \A i \in 1..Len(x) : x[i] = Append(Front(x), Last(x))[i]
    BY <1>1, <1>3, <1>4
  <2>. QED BY <1>1, <1>3, <1>4, <2>1, SeqEqual
<1>. QED BY <1>1, <1>2, <1>3, <1>5

\* A path is an access or a call of another path.
LEMMA PathLength ==
  ASSUME NEW x \in Paths
  PROVE  Len(x) \in Nat /\ Len(x) >= 1 /\ (Len(x) = 1 \/ Len(x) > 1)
<1>. DEFINE S == (1..MaxAccesses) \cup Labels
<1>1. x \in Seq(S) /\ x # <<>>
  BY DEF Paths
<1>. HIDE DEF S
<1>2. Len(x) \in Nat /\ Len(x) # 0
  BY <1>1
<1>. QED BY <1>2

-----------------------------------------------------------------------------
(* What a step leaves alone *)

\* Stack g is what is left of f after a step of another stack: at most woken,
\* or told by the stack it has called.
Near(f, g) ==
  /\ Typed(g)
  /\ g.ev = f.ev /\ g.mod = f.mod /\ g.tgt = f.tgt /\ g.down = f.down
  /\ g.way = f.way \/ (f.ev \in FalCallers /\ f.n = 0)
  /\ g.state = f.state /\ g.pending = f.pending
  /\ f.ev \in FalCallers => g.err = f.err \/ f.n = 0
  /\ g.n = f.n \/ (g.n = 1 /\ f.ev \in Sleepers \cup {"FIND_AND_LOCK"})

\* Stack g is f but for the fields in F.
But(f, g, F) ==
  /\ g = [x \in Fields |-> g[x]]
  /\ \A x \in Fields \ F : g[x] = f[x]

\* The fields that no invariant here is about.
Free == {"now", "kind", "blocking", "peer", "src", "hit", "evict", "shared",
         "retain", "reply", "master", "ported", "good"}

LEMMA NearFields ==
  ASSUME NEW f, NEW g, Typed(f), But(f, g, Free)
  PROVE  Near(f, g)
<1>1. /\ g.ev = f.ev /\ g.mod = f.mod /\ g.tgt = f.tgt /\ g.down = f.down
      /\ g.way = f.way /\ g.state = f.state /\ g.pending = f.pending
      /\ g.err = f.err /\ g.n = f.n /\ g.addr = f.addr /\ g.wait = f.wait
  BY DEF But, Free, Fields
<1>2. g = [x \in Fields |-> g[x]]
  BY DEF But
<1>. QED BY <1>1, <1>2 DEF Near, Typed

\* The error flag of a stack that has called is set before it returns.
LEMMA NearError ==
  ASSUME NEW f, NEW g, Typed(f), But(f, g, Free \cup {"err"}), g.err \in BOOLEAN,
         f.ev \notin FalCallers \/ f.n = 0
  PROVE  Near(f, g)
<1>1. /\ g.ev = f.ev /\ g.mod = f.mod /\ g.tgt = f.tgt /\ g.down = f.down
      /\ g.way = f.way /\ g.state = f.state /\ g.pending = f.pending
      /\ g.n = f.n /\ g.addr = f.addr /\ g.wait = f.wait
  BY DEF But, Free, Fields
<1>2. g = [x \in Fields |-> g[x]]
  BY DEF But
<1>. QED BY <1>1, <1>2 DEF Near, Typed

LEMMA NearSelf ==
  ASSUME NEW f, Typed(f)
  PROVE  Near(f, f)
  BY DEF Near

LEMMA NearTwice ==
  ASSUME NEW f, NEW g, NEW h, Near(f, g), Near(g, h)
  PROVE  Near(f, h)
<1>1. f.ev \in FalCallers => f.ev \notin Sleepers \cup {"FIND_AND_LOCK"}
  BY DEF FalCallers, Sleepers
<1>. QED BY <1>1 DEF Near

LEMMA NearClass ==
  ASSUME NEW f, NEW g, Near(f, g)
  PROVE  /\ AccessOK(f) => AccessOK(g)
         /\ (FalOK(f) => FalOK(g)) /\ (EvictOK(f) => EvictOK(g))
         /\ (InvOK(f) => InvOK(g)) /\ (RequestOK(f) => RequestOK(g))
         /\ Module(g) = Module(f)
<1>1. RequestOK(f) => RequestOK(g)
  BY DEF Near, RequestOK, FalCallers, Sleepers
<1>2. /\ AccessOK(f) => AccessOK(g)
      /\ (FalOK(f) => FalOK(g)) /\ (EvictOK(f) => EvictOK(g))
      /\ InvOK(f) => InvOK(g)
  BY DEF Near, AccessOK, FalOK, EvictOK, InvOK, FalCallers, InvEvs
<1>3. Module(g) = Module(f)
  BY DEF Near, Module
<1>. QED BY <1>1, <1>2, <1>3

LEMMA NearCalled ==
  ASSUME NEW p, NEW q, NEW l, NEW f, NEW g, Near(p, q), Near(f, g), Called(p, l, f)
  PROVE  Called(q, l, g)
<1>1. /\ (FalOK(f) => FalOK(g)) /\ (EvictOK(f) => EvictOK(g))
      /\ (InvOK(f) => InvOK(g)) /\ (RequestOK(f) => RequestOK(g))
      /\ Module(q) = Module(p)
  BY NearClass
<1>2. g.mod = f.mod /\ g.tgt = f.tgt /\ g.down = f.down
  BY DEF Near
<1>3. /\ q.ev = p.ev
      /\ p.ev \in FalCallers \cup InvCallers \cup ReqCallers \cup {"FIND_AND_LOCK_FINISH"}
           => q.n = p.n
  BY DEF Near, FalCallers, InvCallers, ReqCallers, Sleepers
<1>. QED BY <1>1, <1>2, <1>3 DEF Called

-----------------------------------------------------------------------------
(* The calls after a step *)

\* Nobody was called by k.
NoKids(s, k) == \A x \in DOMAIN s : Len(x) > 1 => Front(x) # k

LEMMA KidsFinite ==
  ASSUME NEW s, NEW x
  PROVE  IsFiniteSet(Kids(s, x)) /\ Cardinality(Kids(s, x)) \in Nat
<1>1. IsFiniteSet(Mods) /\ Kids(s, x) \subseteq Mods
  BY TreeAssumption DEF Kids
<1>. QED BY <1>1, FS_Subset, FS_CardinalityType

\* A stack whose event is handled has called nobody, unless it counts replies.
LEMMA Childless ==
  ASSUME NEW s, NEW id, StackInv(s, id), NEW k \in DOMAIN s, s[k].n > 0,
         s[k].ev \notin Forkers \/ s[k].pending = 1
  PROVE  NoKids(s, k)
<1>1. SUFFICES ASSUME NEW x \in DOMAIN s, Len(x) > 1, Front(x) = k  PROVE FALSE
  BY DEF NoKids
<1>2. x \in Paths /\ Called(s[k], Last(x), s[x]) /\ s[k].n \in Nat
  BY <1>1 DEF StackInv, Calls, Typed
<1>3. Last(x) \in Mods /\ s[k].ev \in Forkers
  BY <1>2 DEF Called
<1>4. x = Append(k, Last(x))
  BY <1>1, <1>2, PathFront
<1>5. Last(x) \in Kids(s, k)
  BY <1>1, <1>3, <1>4 DEF Kids
<1>6. Cardinality(Kids(s, k)) \in Nat /\ Cardinality(Kids(s, k)) # 0
  BY <1>5, KidsFinite, FS_EmptySet
<1>7. s[k].n + Cardinality(Kids(s, k)) = s[k].pending
  BY <1>3 DEF StackInv, Counts, Counted
<1>. QED BY <1>2, <1>3, <1>6, <1>7

\* Stack k goes on as g, in the same call and in the same access list.
InList(f) == f.ev \in ReadEvs \ {"READ_REQUEST_RECEIVE"} /\ f.down
Goes(s, k, g) ==
  /\ Typed(g)
  /\ Len(k) = 1 => AccessOK(g) /\ g.mod = s[k].mod
  /\ Len(k) > 1 => Called(s[Front(k)], Last(k), g)
  /\ InList(g) <=> InList(s[k])
  /\ InList(g) => g.tgt = s[k].tgt

\* Stack p calls f under label l.
Starts == {"FIND_AND_LOCK", "EVICT", "INVALIDATE", "WRITE_REQUEST_RECEIVE",
           "READ_REQUEST_RECEIVE"}
Begins(p, l, f) == Typed(f) /\ Called(p, l, f) /\ f.n = 1 /\ f.ev \in Starts

\* In s, stack k goes on and calls those of L.
Grows(s, t, k, L) ==
  /\ DOMAIN t = DOMAIN s \cup {Append(k, l) : l \in L}
  /\ \A x \in DOMAIN s : x # k => Near(s[x], t[x])
  /\ Goes(s, k, t[k])
  /\ \A l \in L : Begins(t[k], l, t[Append(k, l)])
  /\ Counted(t[k], Cardinality(L \cap Mods))

LEMMA StackGrows ==
  ASSUME NEW s, NEW t, NEW id, NEW k \in DOMAIN s, StackInv(s, id), NoKids(s, k),
         NEW L \in SUBSET Labels, Grows(s, t, k, L)
  PROVE  StackInv(t, id)
<1>1. \A x \in DOMAIN s : x \in Paths /\ x[1] < id /\ Typed(s[x])
  BY DEF StackInv, Calls
<1>2. \A l \in L : /\ Append(k, l) \in Paths /\ Len(Append(k, l)) > 1
                   /\ Front(Append(k, l)) = k /\ Last(Append(k, l)) = l
                   /\ Append(k, l)[1] = k[1] /\ Append(k, l) # k
  BY <1>1, PathAppend
<1>3. \A l \in L : Append(k, l) \notin DOMAIN s
  BY <1>2 DEF NoKids
<1>4. Calls(t, id)
  <2>1. SUFFICES ASSUME NEW x \in DOMAIN t
                 PROVE  /\ x \in Paths /\ x[1] < id /\ Typed(t[x])
                        /\ Len(x) = 1 => AccessOK(t[x])
                        /\ Len(x) > 1 => /\ Front(x) \in DOMAIN t
                                         /\ Called(t[Front(x)], Last(x), t[x])
    BY DEF Calls
  <2>2. CASE x = k
    <3>1. Typed(t[k]) /\ (Len(k) = 1 => AccessOK(t[k]))
      BY DEF Grows, Goes
    <3>2. ASSUME Len(k) > 1
          PROVE  Front(k) \in DOMAIN t /\ Called(t[Front(k)], Last(k), t[k])
      <4>1. Front(k) \in DOMAIN s /\ Front(k) # k
        BY <1>1, <3>2, PathFront DEF StackInv, Calls
      <4>2. Near(s[Front(k)], t[Front(k)]) /\ Called(s[Front(k)], Last(k), t[k])
        BY <3>2, <4>1 DEF Grows, Goes
      <4>3. Near(t[k], t[k])
        BY <3>1, NearSelf
      <4>. QED BY <4>1, <4>2, <4>3, NearCalled DEF Grows
    <3>. QED BY <1>1, <2>2, <3>1, <3>2
  <2>3. CASE x \in DOMAIN s /\ x # k
    <3>1. Near(s[x], t[x]) /\ Typed(t[x])
      BY <2>3 DEF Grows, Near
    <3>2. Len(x) = 1 => AccessOK(t[x])
      BY <2>3, <3>1, NearClass DEF StackInv, Calls
    <3>3. ASSUME Len(x) > 1
          PROVE  Front(x) \in DOMAIN t /\ Called(t[Front(x)], Last(x), t[x])
      <4>1. /\ Front(x) \in DOMAIN s /\ Front(x) # k
            /\ Called(s[Front(x)], Last(x), s[x])
        BY <2>3, <3>3 DEF StackInv, Calls, NoKids
      <4>2. Near(s[Front(x)], t[Front(x)])
        BY <4>1 DEF Grows
      <4>. QED BY <3>1, <4>1, <4>2, NearCalled DEF Grows
    <3>. QED BY <1>1, <2>3, <3>1, <3>2, <3>3
  <2>4. CASE x \notin DOMAIN s
    <3>1. PICK l \in L : x = Append(k, l)
      BY <2>4 DEF Grows
    <3>2. Typed(t[x]) /\ Called(t[k], l, t[x])
      BY <3>1 DEF Grows, Begins
    <3>3. Front(x) = k /\ Last(x) = l /\ x \in Paths /\ x[1] = k[1] /\ Len(x) > 1
      BY <1>2, <3>1
    <3>4. k \in DOMAIN t /\ k[1] < id
      BY <1>1 DEF Grows
    <3>5. Len(x) # 1
      BY <1>1, <3>1, PathAppend
    <3>. QED BY <3>2, <3>3, <3>4, <3>5
  <2>. QED BY <2>2, <2>3, <2>4
<1>5. Counts(t)
  <2>1. SUFFICES ASSUME NEW x \in DOMAIN t
                 PROVE  Counted(t[x], Cardinality(Kids(t, x)))
    BY DEF Counts
  <2>2. CASE x = k
    <3>1. Kids(t, k) = L \cap Mods
      <4>1. ASSUME NEW l \in Mods, Append(k, l) \in DOMAIN t  PROVE l \in L
        <5>1. l \in Labels
          BY DEF Labels
        <5>2. Front(Append(k, l)) = k /\ Len(Append(k, l)) > 1
          BY <1>1, <5>1, PathAppend
        <5>3. Append(k, l) \notin DOMAIN s
          BY <5>2 DEF NoKids
        <5>4. PICK h \in L : Append(k, l) = Append(k, h)
          BY <4>1, <5>3 DEF Grows
        <5>5. Last(Append(k, l)) = l /\ Last(Append(k, h)) = h
          BY <1>1, <1>2, <5>1, PathAppend
        <5>. QED BY <5>4, <5>5
      <4>2. \A l \in L : Append(k, l) \in DOMAIN t
        BY DEF Grows
      <4>. QED BY <4>1, <4>2 DEF Kids
    <3>. QED BY <2>2, <3>1 DEF Grows
  <2>3. CASE x \in DOMAIN s /\ x # k
    <3>1. Kids(t, x) = Kids(s, x)
      <4>1. ASSUME NEW l \in Mods  PROVE Append(x, l) \in DOMAIN t <=> Append(x, l) \in DOMAIN s
        <5>1. l \in Labels
          BY DEF Labels
        <5>2. Front(Append(x, l)) = x
          BY <1>1, <2>3, <5>1, PathAppend
        <5>3. \A h \in L : Append(k, h) # Append(x, l)
          BY <1>2, <2>3, <5>2
        <5>. QED BY <5>3 DEF Grows
      <4>. QED BY <4>1 DEF Kids
    <3>2. Near(s[x], t[x]) /\ Counted(s[x], Cardinality(Kids(s, x)))
      BY <2>3 DEF Grows, StackInv, Counts
    <3>3. s[x].ev \in Forkers => s[x].ev \notin Sleepers \cup {"FIND_AND_LOCK"}
      BY DEF Forkers, Sleepers
    <3>. QED BY <3>1, <3>2, <3>3 DEF Near, Counted
  <2>4. CASE x \notin DOMAIN s
    <3>1. PICK l \in L : x = Append(k, l)
      BY <2>4 DEF Grows
    <3>2. t[x].n = 1 /\ t[x].ev \in Starts
      BY <3>1 DEF Grows, Begins
    <3>3. t[x].ev \notin Forkers
      BY <3>2 DEF Starts, Forkers
    <3>. QED BY <3>2, <3>3 DEF Counted
  <2>. QED BY <2>2, <2>3, <2>4
<1>. QED BY <1>4, <1>5 DEF StackInv

\* Stack k has got one of the replies it counts, not the last one.
Recounts(s, t, k) ==
  /\ DOMAIN t = DOMAIN s
  /\ \A x \in DOMAIN s : x # k => Near(s[x], t[x])
  /\ But(s[k], t[k], {"n", "pending"})
  /\ t[k].n = s[k].n - 1 /\ t[k].pending = s[k].pending - 1

LEMMA RecountFields ==
  ASSUME NEW f, NEW g, Typed(f), But(f, g, {"n", "pending"}), f.ev \in Forkers,
         g.n \in Nat, g.pending \in Nat
  PROVE  /\ Typed(g) /\ g.ev = f.ev /\ g.way = f.way /\ g.tgt = f.tgt
         /\ g.mod = f.mod /\ g.down = f.down
         /\ (InvOK(f) => InvOK(g)) /\ (RequestOK(f) => RequestOK(g))
         /\ ~AccessOK(f) /\ ~FalOK(f) /\ ~EvictOK(f)
<1>1. /\ g.ev = f.ev /\ g.mod = f.mod /\ g.tgt = f.tgt /\ g.down = f.down
      /\ g.way = f.way /\ g.state = f.state
      /\ g.err = f.err /\ g.addr = f.addr /\ g.wait = f.wait
  BY DEF But, Fields
<1>2. g = [x \in Fields |-> g[x]]
  BY DEF But
<1>6. f.ev \notin Sleepers
  BY DEF Forkers, Sleepers
<1>3. Typed(g)
  BY <1>1, <1>2, <1>6 DEF Typed
<1>4. (InvOK(f) => InvOK(g)) /\ (RequestOK(f) => RequestOK(g))
  BY <1>1 DEF InvOK, RequestOK, FalCallers, Forkers
<1>5. ~AccessOK(f) /\ ~FalOK(f) /\ ~EvictOK(f)
  BY DEF AccessOK, AccessEvs, FalOK, FalEvs, EvictOK, EvictEvs, Forkers
<1>. QED BY <1>1, <1>3, <1>4, <1>5

LEMMA StackRecounts ==
  ASSUME NEW s, NEW t, NEW id, NEW k \in DOMAIN s, StackInv(s, id),
         s[k].ev \in Forkers, s[k].n > 0, s[k].pending # 1, Recounts(s, t, k)
  PROVE  StackInv(t, id)
<1>1. \A x \in DOMAIN s : x \in Paths /\ x[1] < id /\ Typed(s[x])
  BY DEF StackInv, Calls
<1>2. /\ s[k].n \in Nat /\ s[k].pending \in 1..Cardinality(Mods)
      /\ s[k].n + Cardinality(Kids(s, k)) = s[k].pending
  BY <1>1 DEF StackInv, Counts, Counted, Typed
<1>3. /\ t[k].n \in Nat /\ t[k].pending \in 1..Cardinality(Mods)
      /\ t[k].n + Cardinality(Kids(s, k)) = t[k].pending
  <2>1. Cardinality(Kids(s, k)) \in Nat /\ Cardinality(Mods) \in Nat
    BY KidsFinite, TreeAssumption, FS_CardinalityType
  <2>2. t[k].n = s[k].n - 1 /\ t[k].pending = s[k].pending - 1
    BY DEF Recounts
  <2>. QED BY <1>2, <2>1, <2>2
<1>4. /\ Typed(t[k]) /\ t[k].ev = s[k].ev /\ t[k].tgt = s[k].tgt
      /\ t[k].mod = s[k].mod /\ t[k].down = s[k].down
      /\ (InvOK(s[k]) => InvOK(t[k])) /\ (RequestOK(s[k]) => RequestOK(t[k]))
      /\ ~AccessOK(s[k]) /\ ~FalOK(s[k]) /\ ~EvictOK(s[k])
  BY <1>1, <1>3, RecountFields DEF Recounts
<1>5. Calls(t, id)
  <2>1. SUFFICES ASSUME NEW x \in DOMAIN s
                 PROVE  /\ Typed(t[x])
                        /\ Len(x) = 1 => AccessOK(t[x])
                        /\ Len(x) > 1 => /\ Front(x) \in DOMAIN s
                                         /\ Called(t[Front(x)], Last(x), t[x])
    BY <1>1 DEF Calls, Recounts
  <2>2. ASSUME Len(x) > 1
        PROVE  /\ Front(x) \in DOMAIN s /\ Front(x) # x
               /\ Called(s[Front(x)], Last(x), s[x])
    BY <1>1, <2>2, PathFront DEF StackInv, Calls
  <2>3. CASE x = k
    <3>1. Len(x) # 1
      BY <1>4, <2>3 DEF StackInv, Calls
    <3>2. ASSUME Len(x) > 1  PROVE Called(t[Front(x)], Last(x), t[x])
      <4>1. Near(s[Front(k)], t[Front(k)])
        BY <2>2, <2>3, <3>2 DEF Recounts
      <4>2. Called(s[Front(k)], Last(k), t[k])
        BY <1>4, <2>2, <2>3, <3>2 DEF Called
      <4>3. Near(t[k], t[k])
        BY <1>4, NearSelf
      <4>. QED BY <2>3, <4>1, <4>2, <4>3, NearCalled
    <3>. QED BY <1>4, <2>2, <2>3, <3>1, <3>2
  <2>4. CASE x # k
    <3>1. Near(s[x], t[x]) /\ Typed(t[x])
      BY <2>4 DEF Recounts, Near
    <3>2. Len(x) = 1 => AccessOK(t[x])
      BY <3>1, NearClass DEF StackInv, Calls
    <3>3. ASSUME Len(x) > 1, Front(x) # k  PROVE Called(t[Front(x)], Last(x), t[x])
      BY <2>2, <3>1, <3>3, NearCalled DEF Recounts
    <3>4. ASSUME Len(x) > 1, Front(x) = k  PROVE Called(t[Front(x)], Last(x), t[x])
      <4>1. Called(s[k], Last(x), t[x])
        <5>1. Near(s[k], s[k])
          BY <1>1, NearSelf
        <5>. QED BY <2>2, <3>1, <3>4, <5>1, NearCalled
      <4>2. s[k].ev \notin FalCallers \cup InvCallers \cup ReqCallers \cup {"FIND_AND_LOCK_FINISH"}
        BY DEF Forkers, FalCallers, InvCallers, ReqCallers
      <4>. QED BY <1>4, <3>4, <4>1, <4>2 DEF Called
    <3>. QED BY <2>2, <3>1, <3>2, <3>3, <3>4
  <2>. QED BY <2>3, <2>4
<1>6. Counts(t)
  <2>1. \A x : Kids(t, x) = Kids(s, x)
    BY DEF Kids, Recounts
  <2>2. SUFFICES ASSUME NEW x \in DOMAIN s
                 PROVE  Counted(t[x], Cardinality(Kids(s, x)))
    BY <2>1 DEF Counts, Recounts
  <2>3. CASE x = k
    BY <1>3, <1>4, <2>3 DEF Counted
  <2>4. CASE x # k
    <3>1. Near(s[x], t[x]) /\ Counted(s[x], Cardinality(Kids(s, x)))
      BY <2>4 DEF Recounts, StackInv, Counts
    <3>2. s[x].ev \in Forkers => s[x].ev \notin Sleepers \cup {"FIND_AND_LOCK"}
      BY DEF Forkers, Sleepers
    <3>. QED BY <3>1, <3>2 DEF Near, Counted
  <2>. QED BY <2>3, <2>4
<1>. QED BY <1>5, <1>6 DEF StackInv

\* Stack k returns: the stacks that wait in it are woken, its caller goes on.
Leaves(s, t, k) ==
  /\ DOMAIN t = DOMAIN s \ {k}
  /\ \A x \in DOMAIN t : Len(k) = 1 \/ x # Front(k) => Near(s[x], t[x])
  /\ Len(k) > 1 =>
       LET p == Front(k) IN
       /\ Goes(s, p, t[p]) /\ t[p].ev = s[p].ev /\ t[p].n = s[p].n + 1
       /\ t[p].pending = s[p].pending /\ Module(t[p]) = Module(s[p])

LEMMA StackLeaves ==
  ASSUME NEW s, NEW t, NEW id, NEW k \in DOMAIN s, StackInv(s, id), NoKids(s, k),
         Leaves(s, t, k)
  PROVE  StackInv(t, id)
<1>1. \A x \in DOMAIN s : x \in Paths /\ x[1] < id /\ Typed(s[x])
  BY DEF StackInv, Calls
<1>2. ASSUME NEW x \in DOMAIN s, Len(x) > 1
      PROVE  /\ Front(x) \in DOMAIN t /\ Front(x) # x /\ Front(x) # k
             /\ x = Append(Front(x), Last(x))
             /\ Called(s[Front(x)], Last(x), s[x])
  BY <1>1, <1>2, PathFront DEF StackInv, Calls, NoKids, Leaves
<1>3. \A x \in DOMAIN t : x \in DOMAIN s /\ x # k
  BY DEF Leaves
<1>4. ASSUME NEW x \in DOMAIN t, Len(k) = 1 \/ x # Front(k)
      PROVE  Near(s[x], t[x]) /\ Typed(t[x])
  BY <1>4 DEF Leaves, Near
<1>. DEFINE p == Front(k)
<1>5. ASSUME Len(k) > 1
      PROVE  /\ p \in DOMAIN t /\ Goes(s, p, t[p]) /\ t[p].ev = s[p].ev
             /\ t[p].n = s[p].n + 1 /\ t[p].pending = s[p].pending
             /\ Called(s[p], Last(k), s[k]) /\ Typed(t[p])
             /\ Module(t[p]) = Module(s[p])
  BY <1>2, <1>5 DEF Leaves, Goes
<1>6. Calls(t, id)
  <2>1. SUFFICES ASSUME NEW x \in DOMAIN t
                 PROVE  /\ Typed(t[x])
                        /\ Len(x) = 1 => AccessOK(t[x])
                        /\ Len(x) > 1 => Called(t[Front(x)], Last(x), t[x])
    BY <1>1, <1>2, <1>3 DEF Calls
  <2>2. CASE Len(k) = 1 \/ x # p
    <3>1. Near(s[x], t[x]) /\ Typed(t[x])
      BY <1>4, <2>2
    <3>2. Len(x) = 1 => AccessOK(t[x])
      BY <1>3, <3>1, NearClass DEF StackInv, Calls
    <3>3. ASSUME Len(x) > 1, Len(k) = 1 \/ Front(x) # p
          PROVE  Called(t[Front(x)], Last(x), t[x])
      <4>1. Near(s[Front(x)], t[Front(x)])
        BY <1>2, <1>3, <1>4, <3>3
      <4>. QED BY <1>2, <1>3, <3>1, <3>3, <4>1, NearCalled
    <3>4. ASSUME Len(x) > 1, Len(k) > 1, Front(x) = p
          PROVE  Called(t[Front(x)], Last(x), t[x])
      <4>1. Called(s[p], Last(x), s[x]) /\ x # k /\ x = Append(p, Last(x))
        BY <1>2, <1>3, <3>4
      <4>2. k = Append(p, Last(k)) /\ Called(s[p], Last(k), s[k])
        BY <1>2, <3>4
      <4>3. Last(x) # Last(k)
        BY <4>1, <4>2
      <4>4. Last(x) \in Mods /\ s[p].ev \in Forkers
        <5>1. Last(x) \in Mods \/ Last(k) \in Mods
          BY <4>1, <4>2, <4>3 DEF Called, FalCallers, InvCallers, ReqCallers
        <5>. QED BY <4>1, <4>2, <5>1
              DEF Called, FalCallers, InvCallers, ReqCallers, Forkers
      <4>5. RequestOK(s[x]) /\ ~s[x].down /\ s[x].tgt = Last(x) /\ Last(x) # MM
        <5>1. Last(x) \notin {"FAL", "EVICT", "INV", "REQ"}
          BY <4>4, TreeAssumption
        <5>. QED BY <4>1, <5>1 DEF Called
      <4>6. RequestOK(t[x]) /\ t[x].down = s[x].down /\ t[x].tgt = s[x].tgt
        BY <3>1, <4>5, NearClass DEF Near
      <4>. QED BY <1>5, <3>4, <4>4, <4>5, <4>6 DEF Called
    <3>. QED BY <1>1, <1>3, <3>1, <3>2, <3>3, <3>4, PathLength
  <2>3. CASE Len(k) > 1 /\ x = p
    <3>1. Typed(t[p]) /\ (Len(p) = 1 => AccessOK(t[p]))
      BY <1>5, <2>3 DEF Goes
    <3>2. ASSUME Len(p) > 1  PROVE Called(t[Front(p)], Last(p), t[p])
      <4>1. /\ p \in DOMAIN s /\ Front(p) \in DOMAIN t /\ Front(p) # p
        BY <1>2, <1>3, <2>3, <3>2
      <4>2. Near(s[Front(p)], t[Front(p)])
        BY <1>4, <4>1
      <4>3. Called(s[Front(p)], Last(p), t[p])
        BY <1>5, <2>3, <3>2 DEF Goes
      <4>4. Near(t[p], t[p])
        BY <3>1, NearSelf
      <4>. QED BY <4>2, <4>3, <4>4, NearCalled
    <3>. QED BY <2>3, <3>1, <3>2
  <2>. QED BY <1>1, <2>2, <2>3, PathLength
<1>7. Counts(t)
  <2>1. SUFFICES ASSUME NEW x \in DOMAIN t
                 PROVE  Counted(t[x], Cardinality(Kids(t, x)))
    BY DEF Counts
  <2>2. Counted(s[x], Cardinality(Kids(s, x))) /\ x \in Paths
    BY <1>1, <1>3 DEF StackInv, Counts
  <2>3. CASE Len(k) = 1 \/ x # p
    <3>1. Near(s[x], t[x])
      BY <1>4, <2>3
    <3>2. Kids(t, x) = Kids(s, x)
      <4>1. ASSUME NEW l \in Mods  PROVE Append(x, l) # k
        <5>1. l \in Labels
          BY DEF Labels
        <5>2. Front(Append(x, l)) = x /\ Len(Append(x, l)) # 1
          BY <2>2, <5>1, PathAppend
        <5>. QED BY <2>3, <5>2
      <4>. QED BY <4>1 DEF Kids, Leaves
    <3>3. s[x].ev \in Forkers => s[x].ev \notin Sleepers \cup {"FIND_AND_LOCK"}
      BY DEF Forkers, Sleepers
    <3>. QED BY <2>2, <3>1, <3>2, <3>3 DEF Near, Counted
  <2>4. CASE Len(k) > 1 /\ x = p
    <3>1. /\ t[p].ev = s[p].ev /\ t[p].n = s[p].n + 1 /\ t[p].pending = s[p].pending
          /\ Called(s[p], Last(k), s[k]) /\ k = Append(p, Last(k))
      BY <1>2, <1>5, <2>4
    <3>2. CASE s[p].ev \in Forkers
      <4>1. Last(k) \in Mods
        BY <3>1, <3>2 DEF Called, FalCallers, InvCallers, ReqCallers, Forkers
      <4>2. Last(k) \in Kids(s, p)
        BY <3>1, <4>1 DEF Kids
      <4>3. Kids(t, p) = Kids(s, p) \ {Last(k)}
        <5>1. ASSUME NEW l \in Mods  PROVE Append(p, l) = k <=> l = Last(k)
          <6>1. l \in Labels
            BY DEF Labels
          <6>2. Last(Append(p, l)) = l
            BY <2>2, <2>4, <6>1, PathAppend
          <6>. QED BY <3>1, <6>2
        <5>. QED BY <5>1 DEF Kids, Leaves
      <4>4. Cardinality(Kids(t, p)) = Cardinality(Kids(s, p)) - 1
        BY <4>2, <4>3, KidsFinite, FS_RemoveElement
      <4>5. Cardinality(Kids(s, p)) \in Nat /\ s[p].n \in Nat
        BY <1>1, <1>3, <2>4, KidsFinite DEF Typed
      <4>6. /\ s[p].n + Cardinality(Kids(s, p)) = s[p].pending
            /\ s[p].pending \in 1..Cardinality(Mods)
        BY <2>2, <2>4, <3>2 DEF Counted
      <4>7. t[p].n + Cardinality(Kids(t, p)) = s[p].pending
        <5>1. ASSUME NEW n \in Nat, NEW c \in Nat  PROVE (n + 1) + (c - 1) = n + c
          OBVIOUS
        <5>2. t[p].n = s[p].n + 1
          BY <3>1
        <5>. QED BY <4>4, <4>5, <4>6, <5>1, <5>2
      <4>. QED BY <2>4, <3>1, <3>2, <4>6, <4>7 DEF Counted
    <3>3. CASE s[p].ev \notin Forkers
      <4>1. s[p].n = 0
        BY <3>1, <3>3 DEF Called
      <4>. QED BY <2>4, <3>1, <3>3, <4>1 DEF Counted
    <3>. QED BY <3>2, <3>3
  <2>. QED BY <1>1, <2>3, <2>4, PathLength
<1>. QED BY <1>6, <1>7 DEF StackInv

-----------------------------------------------------------------------------
(* The directory locks after a step *)

\* Dequeued(q): the queue of a way without its first stack.
Dequeued(q) == IF q = <<>> THEN <<>> ELSE Tail(q)
Woken(q, x) == q # <<>> /\ x = Head(q)
Released(l, m, w) ==
  [l EXCEPT ![m][w].held = FALSE, ![m][w].queue = IF @ = <<>> THEN <<>> ELSE Tail(@)]

\* The queue of way w of module m, in locks l.
Queue(l, m, w) == l[m][w].queue

LEMMA LockKeeps ==
  ASSUME NEW s, NEW t, NEW l, LockInv(s, l),
         \A x, m, w : HoldsWay(t, x, m, w) <=> HoldsWay(s, x, m, w),
         \A x, m, w : WaitsFor(s, x, m, w) => WaitsFor(t, x, m, w),
         \A x : Asleep(t, x) => Asleep(s, x)
  PROVE  LockInv(t, l)
<1>1. ASSUME NEW x \in DOMAIN t, Locks(t[x])
      PROVE  t[x].way \in Ways(Module(t[x]))
  <2>1. HoldsWay(t, x, Module(t[x]), t[x].way)
    BY <1>1 DEF HoldsWay
  <2>2. HoldsWay(s, x, Module(t[x]), t[x].way)
    BY <2>1
  <2>. QED BY <2>2 DEF HoldsWay, LockInv
<1>2. ASSUME NEW m \in Mods, NEW w \in Ways(m)
      PROVE  /\ l[m][w].held <=> \E x \in DOMAIN t : HoldsWay(t, x, m, w)
             /\ \A x, y \in DOMAIN t :
                  HoldsWay(t, x, m, w) /\ HoldsWay(t, y, m, w) => x = y
             /\ \A i \in 1..Len(l[m][w].queue) :
                  /\ WaitsFor(t, l[m][w].queue[i], m, w)
                  /\ \A j \in 1..Len(l[m][w].queue) :
                       l[m][w].queue[i] = l[m][w].queue[j] => i = j
  <2>1. /\ l[m][w].held <=> \E x \in DOMAIN s : HoldsWay(s, x, m, w)
        /\ \A x, y \in DOMAIN s :
             HoldsWay(s, x, m, w) /\ HoldsWay(s, y, m, w) => x = y
        /\ \A i \in 1..Len(l[m][w].queue) :
             /\ WaitsFor(s, l[m][w].queue[i], m, w)
             /\ \A j \in 1..Len(l[m][w].queue) :
                  l[m][w].queue[i] = l[m][w].queue[j] => i = j
    BY DEF LockInv
  <2>2. \A x : /\ HoldsWay(t, x, m, w) => x \in DOMAIN t
               /\ HoldsWay(s, x, m, w) => x \in DOMAIN s
    BY DEF HoldsWay
  <2>. QED BY <2>1, <2>2
<1>3. ASSUME NEW x \in DOMAIN t, Asleep(t, x)
      PROVE  \E m \in Mods : \E w \in Ways(m) :
               \E i \in 1..Len(l[m][w].queue) : l[m][w].queue[i] = x
  <2>1. Asleep(s, x) /\ x \in DOMAIN s
    BY <1>3 DEF Asleep
  <2>. QED BY <2>1 DEF LockInv
<1>4. LockShape(l)
  BY DEF LockInv
<1>. QED BY <1>1, <1>2, <1>3, <1>4 DEF LockInv

\* Stack p takes the way over from k.
Handed(s, t, k, p, m, w) ==
  \A x, a, b : HoldsWay(t, x, a, b) <=>
    (HoldsWay(s, x, a, b) /\ x # k) \/ (x = p /\ a = m /\ b = w)

LEMMA LockPasses ==
  ASSUME NEW s, NEW t, NEW l, NEW k, NEW p, NEW m \in Mods, NEW w \in Ways(m),
         LockInv(s, l), HoldsWay(s, k, m, w),
         Handed(s, t, k, p, m, w),
         \A x, a, b : WaitsFor(s, x, a, b) => WaitsFor(t, x, a, b),
         \A x : Asleep(t, x) => Asleep(s, x)
  PROVE  LockInv(t, l)
<1>1. ASSUME NEW x \in DOMAIN t, Locks(t[x])
      PROVE  t[x].way \in Ways(Module(t[x]))
  <2>1. HoldsWay(t, x, Module(t[x]), t[x].way)
    BY <1>1 DEF HoldsWay
  <2>2. HoldsWay(s, x, Module(t[x]), t[x].way) \/ (Module(t[x]) = m /\ t[x].way = w)
    BY <2>1 DEF Handed
  <2>. QED BY <2>2 DEF HoldsWay, LockInv
<1>0. \A x, a, b : /\ HoldsWay(t, x, a, b) => x \in DOMAIN t
                   /\ HoldsWay(s, x, a, b) => x \in DOMAIN s
  BY DEF HoldsWay
<1>5. ASSUME NEW a, NEW b, HoldsWay(s, k, a, b)  PROVE a = m /\ b = w
  BY <1>5 DEF HoldsWay
<1>2. ASSUME NEW a \in Mods, NEW b \in Ways(a)
      PROVE  /\ l[a][b].held <=> \E x \in DOMAIN t : HoldsWay(t, x, a, b)
             /\ \A x, y \in DOMAIN t :
                  HoldsWay(t, x, a, b) /\ HoldsWay(t, y, a, b) => x = y
             /\ \A i \in 1..Len(l[a][b].queue) :
                  /\ WaitsFor(t, l[a][b].queue[i], a, b)
                  /\ \A j \in 1..Len(l[a][b].queue) :
                       l[a][b].queue[i] = l[a][b].queue[j] => i = j
  <2>1. /\ l[a][b].held <=> \E x \in DOMAIN s : HoldsWay(s, x, a, b)
        /\ \A x, y \in DOMAIN s :
             HoldsWay(s, x, a, b) /\ HoldsWay(s, y, a, b) => x = y
    BY DEF LockInv
  <2>2. \A i \in 1..Len(l[a][b].queue) :
             /\ WaitsFor(s, l[a][b].queue[i], a, b)
             /\ \A j \in 1..Len(l[a][b].queue) :
                  l[a][b].queue[i] = l[a][b].queue[j] => i = j
    BY DEF LockInv
  <2>3. l[a][b].held <=> \E x \in DOMAIN t : HoldsWay(t, x, a, b)
    BY <1>0, <1>5, <2>1 DEF Handed
  <2>4. \A x, y \in DOMAIN t : HoldsWay(t, x, a, b) /\ HoldsWay(t, y, a, b) => x = y
    BY <1>0, <2>1 DEF Handed
  <2>. QED BY <2>2, <2>3, <2>4
<1>3. ASSUME NEW x \in DOMAIN t, Asleep(t, x)
      PROVE  \E a \in Mods : \E b \in Ways(a) :
               \E i \in 1..Len(l[a][b].queue) : l[a][b].queue[i] = x
  <2>1. Asleep(s, x) /\ x \in DOMAIN s
    BY <1>3 DEF Asleep
  <2>. QED BY <2>1 DEF LockInv
<1>4. LockShape(l)
  BY DEF LockInv
<1>. QED BY <1>1, <1>2, <1>3, <1>4 DEF LockInv

LEMMA ReleasedIs ==
  ASSUME NEW l, LockShape(l), NEW m \in Mods, NEW w \in Ways(m)
  PROVE  /\ LockShape(Released(l, m, w))
         /\ Released(l, m, w)[m][w].held = FALSE
         /\ Released(l, m, w)[m][w].queue = Dequeued(l[m][w].queue)
         /\ \A a \in Mods : \A b \in Ways(a) :
              a # m \/ b # w => Released(l, m, w)[a][b] = l[a][b]
<1>. DEFINE r == Released(l, m, w)
<1>1. /\ DOMAIN l = Mods
      /\ \A a \in Mods : /\ DOMAIN l[a] = Ways(a)
                         /\ \A b \in Ways(a) : l[a][b] \in [held : BOOLEAN, queue : Seq(Paths)]
  BY DEF LockShape
<1>2. DOMAIN r = Mods /\ \A a \in Mods : DOMAIN r[a] = Ways(a)
  BY <1>1 DEF Released
<1>3. ASSUME NEW a \in Mods, NEW b \in Ways(a), a # m \/ b # w
      PROVE  r[a][b] = l[a][b]
  BY <1>1, <1>3 DEF Released
<1>4. r[m][w] = [l[m][w] EXCEPT !.held = FALSE, !.queue = Dequeued(@)]
  BY <1>1 DEF Released, Dequeued
<1>. HIDE DEF r
<1>5. l[m][w] \in [held : BOOLEAN, queue : Seq(Paths)]
  BY <1>1
<1>6. Dequeued(l[m][w].queue) \in Seq(Paths)
  BY <1>5 DEF Dequeued
<1>7. /\ r[m][w].held = FALSE /\ r[m][w].queue = Dequeued(l[m][w].queue)
      /\ r[m][w] \in [held : BOOLEAN, queue : Seq(Paths)]
  BY <1>4, <1>5, <1>6
<1>8. LockShape(r)
  <2>1. ASSUME NEW a \in Mods, NEW b \in Ways(a)
        PROVE  r[a][b] \in [held : BOOLEAN, queue : Seq(Paths)]
    BY <1>1, <1>3, <1>7
  <2>. QED BY <1>2, <2>1 DEF LockShape
<1>. QED BY <1>3, <1>7, <1>8 DEF r

\* Stack k unlocks its way and wakes the first of the queue.
LEMMA LockReleases ==
  ASSUME NEW s, NEW t, NEW l, NEW k, NEW m \in Mods, NEW w \in Ways(m),
         LockInv(s, l), HoldsWay(s, k, m, w),
         \A x, a, b : HoldsWay(t, x, a, b) <=> HoldsWay(s, x, a, b) /\ x # k,
         \A x, a, b : WaitsFor(s, x, a, b) /\ ~Woken(Queue(l, m, w), x)
                        => WaitsFor(t, x, a, b),
         \A x : Asleep(t, x) => Asleep(s, x) /\ ~Woken(Queue(l, m, w), x)
  PROVE  LockInv(t, Released(l, m, w))
<1>. DEFINE r == Released(l, m, w)
            q == Queue(l, m, w)
<1>1. /\ LockShape(r) /\ r[m][w].held = FALSE /\ r[m][w].queue = Dequeued(q)
      /\ \A a \in Mods : \A b \in Ways(a) : a # m \/ b # w => r[a][b] = l[a][b]
  <2>1. LockShape(l)
    BY DEF LockInv
  <2>2. LockShape(r) /\ r[m][w].queue = Dequeued(q)
    BY <2>1, ReleasedIs DEF Queue
  <2>3. r[m][w].held = FALSE
    BY <2>1, ReleasedIs
  <2>4. \A a \in Mods : \A b \in Ways(a) : a # m \/ b # w => r[a][b] = l[a][b]
    BY <2>1, ReleasedIs
  <2>. QED BY <2>2, <2>3, <2>4
<1>2. /\ q \in Seq(Paths)
      /\ \A i \in 1..Len(q) : /\ WaitsFor(s, q[i], m, w)
                              /\ \A j \in 1..Len(q) : q[i] = q[j] => i = j
  BY DEF LockInv, LockShape, Queue
<1>. HIDE DEF r, q
<1>3. ASSUME NEW i \in 1..Len(Dequeued(q))
      PROVE  /\ q # <<>> /\ i + 1 \in 1..Len(q) /\ i + 1 # 1 /\ 1 \in 1..Len(q)
             /\ Dequeued(q)[i] = q[i + 1] /\ Head(q) = q[1]
  <2>1. q # <<>>
    BY <1>3 DEF Dequeued
  <2>2. /\ Dequeued(q) = Tail(q) /\ Len(Tail(q)) = Len(q) - 1 /\ Len(q) \in Nat
        /\ Len(q) # 0
    BY <1>2, <2>1 DEF Dequeued
  <2>. QED BY <1>2, <1>3, <2>1, <2>2
<1>4. ASSUME NEW i \in 1..Len(q)
      PROVE  Woken(q, q[i]) \/ (i - 1 \in 1..Len(Dequeued(q)) /\ Dequeued(q)[i - 1] = q[i])
  <2>1. q # <<>> /\ Len(q) \in Nat
    BY <1>2, <1>4
  <2>2. Dequeued(q) = Tail(q) /\ Len(Tail(q)) = Len(q) - 1 /\ Head(q) = q[1]
    BY <1>2, <2>1 DEF Dequeued
  <2>3. CASE i = 1
    BY <2>1, <2>2, <2>3 DEF Woken
  <2>4. CASE i # 1
    BY <1>2, <2>1, <2>2, <2>4
  <2>. QED BY <2>3, <2>4
<1>5. ASSUME NEW x \in DOMAIN t, Locks(t[x])
      PROVE  t[x].way \in Ways(Module(t[x]))
  <2>1. HoldsWay(t, x, Module(t[x]), t[x].way)
    BY <1>5 DEF HoldsWay
  <2>2. HoldsWay(s, x, Module(t[x]), t[x].way)
    BY <2>1
  <2>. QED BY <2>2 DEF HoldsWay, LockInv
<1>6. \A x, a, b : /\ HoldsWay(t, x, a, b) => x \in DOMAIN t
                   /\ HoldsWay(s, x, a, b) => x \in DOMAIN s
  BY DEF HoldsWay
<1>7. ASSUME NEW a \in Mods, NEW b \in Ways(a)
      PROVE  /\ r[a][b].held <=> \E x \in DOMAIN t : HoldsWay(t, x, a, b)
             /\ \A x, y \in DOMAIN t :
                  HoldsWay(t, x, a, b) /\ HoldsWay(t, y, a, b) => x = y
  <2>1. /\ l[a][b].held <=> \E x \in DOMAIN s : HoldsWay(s, x, a, b)
        /\ \A x, y \in DOMAIN s :
             HoldsWay(s, x, a, b) /\ HoldsWay(s, y, a, b) => x = y
    BY DEF LockInv
  <2>2. CASE a = m /\ b = w
    BY <1>1, <1>6, <2>1, <2>2
  <2>3. CASE a # m \/ b # w
    <3>1. r[a][b] = l[a][b]
      BY <1>1, <2>3
    <3>2. ~HoldsWay(s, k, a, b)
      BY <2>3 DEF HoldsWay
    <3>. QED BY <1>6, <2>1, <3>1, <3>2
  <2>. QED BY <2>2, <2>3
<1>8. ASSUME NEW a \in Mods, NEW b \in Ways(a), NEW i \in 1..Len(r[a][b].queue)
      PROVE  /\ WaitsFor(t, r[a][b].queue[i], a, b)
             /\ \A j \in 1..Len(r[a][b].queue) :
                  r[a][b].queue[i] = r[a][b].queue[j] => i = j
  <2>1. CASE a = m /\ b = w
    <3>1. r[a][b].queue = Dequeued(q)
      BY <1>1, <2>1
    <3>2. /\ i + 1 \in 1..Len(q) /\ Dequeued(q)[i] = q[i + 1] /\ i + 1 # 1
          /\ 1 \in 1..Len(q) /\ Head(q) = q[1]
      BY <1>3, <1>8, <3>1
    <3>3. WaitsFor(s, q[i + 1], m, w) /\ ~Woken(q, q[i + 1])
      BY <1>2, <3>2 DEF Woken
    <3>4. WaitsFor(t, q[i + 1], m, w)
      BY <3>3 DEF q
    <3>5. ASSUME NEW j \in 1..Len(Dequeued(q)), Dequeued(q)[i] = Dequeued(q)[j]
          PROVE  i = j
      <4>1. j + 1 \in 1..Len(q) /\ Dequeued(q)[j] = q[j + 1]
        BY <1>3, <3>5
      <4>2. i + 1 = j + 1
        BY <1>2, <3>2, <3>5, <4>1
      <4>3. i \in Nat /\ j \in Nat
        BY <1>8, <3>1, <3>5
      <4>. QED BY <4>2, <4>3
    <3>. QED BY <2>1, <3>1, <3>2, <3>4, <3>5
  <2>2. CASE a # m \/ b # w
    <3>1. r[a][b] = l[a][b]
      BY <1>1, <2>2
    <3>2. /\ WaitsFor(s, l[a][b].queue[i], a, b)
          /\ \A j \in 1..Len(l[a][b].queue) : l[a][b].queue[i] = l[a][b].queue[j] => i = j
      BY <1>8, <3>1 DEF LockInv
    <3>3. ~Woken(q, l[a][b].queue[i])
      <4>1. SUFFICES ASSUME q # <<>>, l[a][b].queue[i] = Head(q)  PROVE FALSE
        BY DEF Woken
      <4>2. 1 \in 1..Len(q) /\ Head(q) = q[1]
        BY <1>2, <4>1
      <4>3. WaitsFor(s, Head(q), m, w)
        BY <1>2, <4>2
      <4>. QED BY <2>2, <3>2, <4>1, <4>3 DEF WaitsFor
    <3>. QED BY <3>1, <3>2, <3>3 DEF q
  <2>. QED BY <2>1, <2>2
<1>9. ASSUME NEW x \in DOMAIN t, Asleep(t, x)
      PROVE  \E a \in Mods : \E b \in Ways(a) :
               \E i \in 1..Len(r[a][b].queue) : r[a][b].queue[i] = x
  <2>1. Asleep(s, x) /\ x \in DOMAIN s /\ ~Woken(q, x)
    BY <1>9 DEF Asleep, q
  <2>5. PICK a \in Mods : \E b \in Ways(a) :
          \E i \in 1..Len(l[a][b].queue) : l[a][b].queue[i] = x
    BY <2>1 DEF LockInv
  <2>2. PICK b \in Ways(a) : \E i \in 1..Len(l[a][b].queue) : l[a][b].queue[i] = x
    BY <2>5
  <2>3. CASE a = m /\ b = w
    <3>1. PICK i \in 1..Len(q) : q[i] = x
      BY <2>2, <2>3 DEF q, Queue
    <3>2. i - 1 \in 1..Len(Dequeued(q)) /\ Dequeued(q)[i - 1] = x
      BY <1>4, <2>1, <3>1
    <3>. QED BY <1>1, <3>2
  <2>4. CASE a # m \/ b # w
    BY <1>1, <2>2, <2>4
  <2>. QED BY <2>3, <2>4
<1>. QED BY <1>1, <1>5, <1>7, <1>8, <1>9 DEF LockInv, r

\* Locks r are l but for way w of module m.
Elsewhere(r, l, m, w) ==
  \A a \in Mods : \A b \in Ways(a) : a # m \/ b # w => r[a][b] = l[a][b]
Seized(l, m, w) == [l EXCEPT ![m][w].held = TRUE]

LEMMA HeldIs ==
  ASSUME NEW l, LockShape(l), NEW m \in Mods, NEW w \in Ways(m)
  PROVE  /\ LockShape(Seized(l, m, w)) /\ Seized(l, m, w)[m][w].held = TRUE
         /\ Seized(l, m, w)[m][w].queue = l[m][w].queue
         /\ Elsewhere(Seized(l, m, w), l, m, w)
<1>. DEFINE r == Seized(l, m, w)
<1>1. /\ DOMAIN l = Mods
      /\ \A a \in Mods : /\ DOMAIN l[a] = Ways(a)
                         /\ \A b \in Ways(a) : l[a][b] \in [held : BOOLEAN, queue : Seq(Paths)]
  BY DEF LockShape
<1>2. DOMAIN r = Mods /\ \A a \in Mods : DOMAIN r[a] = Ways(a)
  BY <1>1 DEF Seized
<1>3. ASSUME NEW a \in Mods, NEW b \in Ways(a), a # m \/ b # w
      PROVE  r[a][b] = l[a][b]
  BY <1>1, <1>3 DEF Seized
<1>4. r[m][w] = [l[m][w] EXCEPT !.held = TRUE]
  BY <1>1 DEF Seized
<1>. HIDE DEF r
<1>5. l[m][w] \in [held : BOOLEAN, queue : Seq(Paths)]
  BY <1>1
<1>6. /\ r[m][w].held = TRUE /\ r[m][w].queue = l[m][w].queue
      /\ r[m][w] \in [held : BOOLEAN, queue : Seq(Paths)]
  BY <1>4, <1>5
<1>7. LockShape(r)
  <2>1. ASSUME NEW a \in Mods, NEW b \in Ways(a)
        PROVE  r[a][b] \in [held : BOOLEAN, queue : Seq(Paths)]
    BY <1>1, <1>3, <1>6
  <2>. QED BY <1>2, <2>1 DEF LockShape
<1>. QED BY <1>3, <1>6, <1>7 DEF r, Elsewhere

\* Stack k locks a way that is free.
LEMMA LockAcquires ==
  ASSUME NEW s, NEW t, NEW l, NEW k, NEW m \in Mods, NEW w \in Ways(m),
         LockInv(s, l), ~l[m][w].held, k \in DOMAIN s, ~Locks(s[k]),
         \A x, a, b : HoldsWay(t, x, a, b) <=>
           HoldsWay(s, x, a, b) \/ (x = k /\ a = m /\ b = w),
         \A x, a, b : WaitsFor(s, x, a, b) => WaitsFor(t, x, a, b),
         \A x : Asleep(t, x) => Asleep(s, x)
  PROVE  LockInv(t, Seized(l, m, w))
<1>. DEFINE r == Seized(l, m, w)
<1>1. /\ LockShape(r) /\ r[m][w].held = TRUE /\ r[m][w].queue = l[m][w].queue
      /\ \A a \in Mods : \A b \in Ways(a) : a # m \/ b # w => r[a][b] = l[a][b]
  <2>1. LockShape(l)
    BY DEF LockInv
  <2>2. LockShape(r) /\ r[m][w].queue = l[m][w].queue
    BY <2>1, HeldIs
  <2>3. r[m][w].held = TRUE
    BY <2>1, HeldIs
  <2>4. Elsewhere(r, l, m, w)
    BY <2>1, HeldIs
  <2>. QED BY <2>2, <2>3, <2>4 DEF Elsewhere
<1>. HIDE DEF r
<1>2. ASSUME NEW x \in DOMAIN t, Locks(t[x])
      PROVE  t[x].way \in Ways(Module(t[x]))
  <2>1. HoldsWay(t, x, Module(t[x]), t[x].way)
    BY <1>2 DEF HoldsWay
  <2>2. HoldsWay(s, x, Module(t[x]), t[x].way) \/ (Module(t[x]) = m /\ t[x].way = w)
    BY <2>1
  <2>. QED BY <2>2 DEF HoldsWay, LockInv
<1>3. \A x, a, b : /\ HoldsWay(t, x, a, b) => x \in DOMAIN t
                   /\ HoldsWay(s, x, a, b) => x \in DOMAIN s
  BY DEF HoldsWay
<1>4. ASSUME NEW a \in Mods, NEW b \in Ways(a)
      PROVE  /\ r[a][b].held <=> \E x \in DOMAIN t : HoldsWay(t, x, a, b)
             /\ \A x, y \in DOMAIN t :
                  HoldsWay(t, x, a, b) /\ HoldsWay(t, y, a, b) => x = y
  <2>1. /\ l[a][b].held <=> \E x \in DOMAIN s : HoldsWay(s, x, a, b)
        /\ \A x, y \in DOMAIN s :
             HoldsWay(s, x, a, b) /\ HoldsWay(s, y, a, b) => x = y
    BY DEF LockInv
  <2>2. CASE a = m /\ b = w
    <3>1. \A x : ~HoldsWay(s, x, a, b)
      BY <1>3, <2>1, <2>2
    <3>2. HoldsWay(t, k, a, b)
      BY <2>2
    <3>. QED BY <1>1, <1>3, <2>2, <3>1, <3>2
  <2>3. CASE a # m \/ b # w
    <3>1. r[a][b] = l[a][b]
      BY <1>1, <2>3
    <3>2. \A x : HoldsWay(t, x, a, b) <=> HoldsWay(s, x, a, b)
      BY <2>3
    <3>. QED BY <1>3, <2>1, <3>1, <3>2
  <2>. QED BY <2>2, <2>3
<1>5. \A a \in Mods : \A b \in Ways(a) : r[a][b].queue = l[a][b].queue
  BY <1>1
<1>6. ASSUME NEW a \in Mods, NEW b \in Ways(a), NEW i \in 1..Len(r[a][b].queue)
      PROVE  /\ WaitsFor(t, r[a][b].queue[i], a, b)
             /\ \A j \in 1..Len(r[a][b].queue) :
                  r[a][b].queue[i] = r[a][b].queue[j] => i = j
  <2>1. r[a][b].queue = l[a][b].queue
    BY <1>5
  <2>2. /\ WaitsFor(s, l[a][b].queue[i], a, b)
        /\ \A j \in 1..Len(l[a][b].queue) : l[a][b].queue[i] = l[a][b].queue[j] => i = j
    BY <1>6, <2>1 DEF LockInv
  <2>. QED BY <2>1, <2>2
<1>7. ASSUME NEW x \in DOMAIN t, Asleep(t, x)
      PROVE  \E a \in Mods : \E b \in Ways(a) :
               \E i \in 1..Len(r[a][b].queue) : r[a][b].queue[i] = x
  <2>1. Asleep(s, x) /\ x \in DOMAIN s
    BY <1>7 DEF Asleep
  <2>2. \E a \in Mods : \E b \in Ways(a) :
          \E i \in 1..Len(l[a][b].queue) : l[a][b].queue[i] = x
    BY <2>1 DEF LockInv
  <2>. QED BY <1>5, <2>2
<1>. QED BY <1>1, <1>2, <1>4, <1>6, <1>7 DEF LockInv, r

\* The walk of dir_entry_lock stops at a waiter of the list.
LEMMA LinkAfterInQueue ==
  ASSUME NEW S, NEW q \in Seq(S), q # <<>>, NEW k
  PROVE  LinkAfter(q, k) \in 1..Len(q)
<1>1. IsFiniteSet(1..Len(q) - 1) /\ Cardinality(1..Len(q) - 1) = Len(q) - 1
  BY FS_Interval
<1>2. Passed(q, k) \subseteq 1..Len(q) - 1
  BY DEF Passed
<1>3. Cardinality(Passed(q, k)) \in Nat /\ Cardinality(Passed(q, k)) <= Len(q) - 1
  BY <1>1, <1>2, FS_Subset, FS_CardinalityType
<1>. QED BY <1>3 DEF LinkAfter

\* Place p of list e is that of the new waiter k, the others are those of q.
Inserted(e, q, k, p) ==
  /\ Len(e) = Len(q) + 1 /\ p \in 1..Len(q) + 1 /\ e[p] = k
  /\ \A i \in 1..Len(q) : IF i < p THEN e[i] = q[i] ELSE e[i + 1] = q[i]

LEMMA EnqueueShape ==
  ASSUME NEW S, NEW q \in Seq(S), NEW k \in S
  PROVE  Enqueue(q, k) \in Seq(S) /\ \E p : Inserted(Enqueue(q, k), q, k, p)
<1>. DEFINE e == Enqueue(q, k)
<1>1. CASE q = <<>>
  <2>1. e = <<k>> /\ Len(q) = 0
    BY <1>1 DEF Enqueue
  <2>2. e \in Seq(S) /\ Inserted(e, q, k, 1)
    BY <2>1 DEF Inserted
  <2>. QED BY <2>2
<1>2. CASE q # <<>>
  <2>. DEFINE p == LinkAfter(q, k) + 1
              L == SubSeq(q, 1, p - 1)
              F == L \o <<k>>
              R == SubSeq(q, p, Len(q))
  <2>1. p \in 2..Len(q) + 1 /\ p \in Nat /\ Len(q) \in Nat
    BY <1>2, LinkAfterInQueue
  <2>2. e = F \o R
    BY <1>2 DEF Enqueue, InsertAt
  <2>. HIDE DEF p
  <2>3. L \in Seq(S) /\ Len(L) = p - 1 /\ \A i \in 1..p - 1 : L[i] = q[i]
    BY <2>1
  <2>4. /\ R \in Seq(S) /\ Len(R) = Len(q) + 1 - p
        /\ \A i \in 1..Len(q) + 1 - p : R[i] = q[p + i - 1]
    BY <2>1
  <2>. HIDE DEF L, R
  <2>5. /\ F \in Seq(S) /\ Len(F) = p /\ F[p] = k
        /\ \A i \in 1..p - 1 : F[i] = q[i]
    BY <2>1, <2>3
  <2>6. /\ F \o R \in Seq(S) /\ Len(F \o R) = Len(F) + Len(R)
        /\ \A i \in 1..Len(F) + Len(R) :
             (F \o R)[i] = IF i <= Len(F) THEN F[i] ELSE R[i - Len(F)]
    BY <2>4, <2>5, ConcatProperties
  <2>. HIDE DEF F, e
  <2>7. e \in Seq(S) /\ Len(e) = Len(q) + 1
    BY <2>1, <2>2, <2>4, <2>5, <2>6
  <2>8. \A i \in 1..p : e[i] = F[i]
    BY <2>1, <2>2, <2>4, <2>5, <2>6
  <2>9. ASSUME NEW i \in 1..Len(q), ~(i < p)  PROVE e[i + 1] = q[i]
    <3>. DEFINE d == i + 1 - p
    <3>1. /\ d \in 1..Len(R) /\ p + d - 1 = i
          /\ i + 1 \in 1..Len(F) + Len(R) /\ ~(i + 1 <= Len(F))
          /\ (i + 1) - Len(F) = d
      BY <2>1, <2>4, <2>5, <2>9
    <3>2. e[i + 1] = R[d]
      BY <2>2, <2>6, <3>1
    <3>3. R[d] = q[p + d - 1]
      BY <2>4, <3>1
    <3>. QED BY <3>1, <3>2, <3>3
  <2>10. p \in 1..Len(q) + 1 /\ e[p] = k /\ \A i \in 1..Len(q) : i < p => e[i] = q[i]
    BY <2>1, <2>5, <2>8
  <2>11. Inserted(e, q, k, p)
    BY <2>7, <2>9, <2>10 DEF Inserted
  <2>. QED BY <2>7, <2>11 DEF e
<1>. QED BY <1>1, <1>2

\* Whoever is in the queue stays, once, and only k joins.
LEMMA EnqueueAdds ==
  ASSUME NEW S, NEW q \in Seq(S), NEW k \in S,
         \A i \in 1..Len(q) : q[i] # k /\ \A j \in 1..Len(q) : q[i] = q[j] => i = j
  PROVE  LET e == Enqueue(q, k) IN
         /\ e \in Seq(S)
         /\ \A i \in 1..Len(e) : e[i] = k \/ \E j \in 1..Len(q) : e[i] = q[j]
         /\ \A j \in 1..Len(q) : \E i \in 1..Len(e) : e[i] = q[j]
         /\ \E i \in 1..Len(e) : e[i] = k
         /\ \A i, j \in 1..Len(e) : e[i] = e[j] => i = j
<1>. DEFINE e == Enqueue(q, k)
<1>1. e \in Seq(S) /\ \E p : Inserted(e, q, k, p)
  BY EnqueueShape
<1>2. PICK p : Inserted(e, q, k, p)
  BY <1>1
<1>. HIDE DEF e
<1>3. Len(q) \in Nat /\ Len(e) = Len(q) + 1 /\ p \in 1..Len(q) + 1 /\ e[p] = k
  BY <1>2 DEF Inserted
<1>4. ASSUME NEW i \in 1..Len(e)
      PROVE  \/ i = p
             \/ i < p /\ i \in 1..Len(q) /\ e[i] = q[i]
             \/ i > p /\ i - 1 \in 1..Len(q) /\ e[i] = q[i - 1]
  <2>1. CASE i > p
    <3>1. i - 1 \in 1..Len(q) /\ ~(i - 1 < p) /\ (i - 1) + 1 = i
      BY <1>3, <2>1
    <3>2. e[(i - 1) + 1] = q[i - 1]
      BY <1>2, <3>1 DEF Inserted
    <3>. QED BY <2>1, <3>1, <3>2
  <2>2. CASE i < p
    <3>1. i \in 1..Len(q)
      BY <1>3, <2>2
    <3>. QED BY <1>2, <2>2, <3>1 DEF Inserted
  <2>. QED BY <1>3, <2>1, <2>2
<1>5. ASSUME NEW j \in 1..Len(q)  PROVE \E i \in 1..Len(e) : e[i] = q[j]
  <2>1. CASE j < p
    BY <1>2, <1>3, <2>1 DEF Inserted
  <2>2. CASE ~(j < p)
    <3>1. j + 1 \in 1..Len(e) /\ e[j + 1] = q[j]
      BY <1>2, <1>3, <2>2 DEF Inserted
    <3>. QED BY <3>1
  <2>. QED BY <2>1, <2>2
<1>6. ASSUME NEW i \in 1..Len(e), NEW j \in 1..Len(e), e[i] = e[j]  PROVE i = j
  BY <1>3, <1>4, <1>6
<1>7. p \in 1..Len(e)
  BY <1>3
<1>. QED BY <1>1, <1>3, <1>4, <1>5, <1>6, <1>7 DEF e

Queued(l, m, w, k) == [l EXCEPT ![m][w].queue = Enqueue(@, k)]

LEMMA QueuedIs ==
  ASSUME NEW l, LockShape(l), NEW m \in Mods, NEW w \in Ways(m), NEW k \in Paths
  PROVE  /\ LockShape(Queued(l, m, w, k))
         /\ Queued(l, m, w, k)[m][w].held = l[m][w].held
         /\ Queued(l, m, w, k)[m][w].queue = Enqueue(l[m][w].queue, k)
         /\ Elsewhere(Queued(l, m, w, k), l, m, w)
<1>. DEFINE r == Queued(l, m, w, k)
<1>1. /\ DOMAIN l = Mods
      /\ \A a \in Mods : /\ DOMAIN l[a] = Ways(a)
                         /\ \A b \in Ways(a) : l[a][b] \in [held : BOOLEAN, queue : Seq(Paths)]
  BY DEF LockShape
<1>2. DOMAIN r = Mods /\ \A a \in Mods : DOMAIN r[a] = Ways(a)
  BY <1>1 DEF Queued
<1>3. ASSUME NEW a \in Mods, NEW b \in Ways(a), a # m \/ b # w
      PROVE  r[a][b] = l[a][b]
  BY <1>1, <1>3 DEF Queued
<1>4. r[m][w] = [l[m][w] EXCEPT !.queue = Enqueue(@, k)]
  BY <1>1 DEF Queued
<1>. HIDE DEF r
<1>5. l[m][w] \in [held : BOOLEAN, queue : Seq(Paths)]
  BY <1>1
<1>6. Enqueue(l[m][w].queue, k) \in Seq(Paths)
  BY <1>5, EnqueueShape
<1>7. /\ r[m][w].held = l[m][w].held /\ r[m][w].queue = Enqueue(l[m][w].queue, k)
      /\ r[m][w] \in [held : BOOLEAN, queue : Seq(Paths)]
  BY <1>4, <1>5, <1>6
<1>8. LockShape(r)
  <2>1. ASSUME NEW a \in Mods, NEW b \in Ways(a)
        PROVE  r[a][b] \in [held : BOOLEAN, queue : Seq(Paths)]
    BY <1>1, <1>3, <1>7
  <2>. QED BY <1>2, <2>1 DEF LockShape
<1>. QED BY <1>3, <1>7, <1>8 DEF r, Elsewhere

\* Stack k goes to sleep in the queue of a way.
LEMMA LockEnqueues ==
  ASSUME NEW s, NEW t, NEW l, NEW k \in Paths, NEW m \in Mods, NEW w \in Ways(m),
         LockInv(s, l), ~Asleep(s, k), WaitsFor(t, k, m, w),
         \A x, a, b : HoldsWay(t, x, a, b) <=> HoldsWay(s, x, a, b),
         \A x, a, b : WaitsFor(s, x, a, b) => WaitsFor(t, x, a, b),
         \A x : Asleep(t, x) => Asleep(s, x) \/ x = k
  PROVE  LockInv(t, Queued(l, m, w, k))
<1>. DEFINE r == Queued(l, m, w, k)
            q == Queue(l, m, w)
            e == Enqueue(q, k)
<1>1. /\ LockShape(r) /\ r[m][w].held = l[m][w].held /\ r[m][w].queue = e
      /\ Elsewhere(r, l, m, w)
  <2>1. LockShape(l)
    BY DEF LockInv
  <2>2. LockShape(r) /\ Elsewhere(r, l, m, w) /\ r[m][w].queue = e
    BY <2>1, QueuedIs DEF Queue
  <2>3. r[m][w].held = l[m][w].held
    BY <2>1, QueuedIs
  <2>. QED BY <2>2, <2>3
<1>2. /\ q \in Seq(Paths)
      /\ \A i \in 1..Len(q) : /\ WaitsFor(s, q[i], m, w)
                              /\ \A j \in 1..Len(q) : q[i] = q[j] => i = j
  BY DEF LockInv, LockShape, Queue
<1>3. \A i \in 1..Len(q) : q[i] # k
  BY <1>2 DEF WaitsFor
<1>4. /\ \A i \in 1..Len(e) : e[i] = k \/ \E j \in 1..Len(q) : e[i] = q[j]
      /\ \A j \in 1..Len(q) : \E i \in 1..Len(e) : e[i] = q[j]
      /\ \E i \in 1..Len(e) : e[i] = k
      /\ \A i, j \in 1..Len(e) : e[i] = e[j] => i = j
  BY <1>2, <1>3, EnqueueAdds
<1>. HIDE DEF r, q, e
<1>5. ASSUME NEW x \in DOMAIN t, Locks(t[x])
      PROVE  t[x].way \in Ways(Module(t[x]))
  <2>1. HoldsWay(t, x, Module(t[x]), t[x].way)
    BY <1>5 DEF HoldsWay
  <2>2. HoldsWay(s, x, Module(t[x]), t[x].way)
    BY <2>1
  <2>. QED BY <2>2 DEF HoldsWay, LockInv
<1>6. \A x, a, b : /\ HoldsWay(t, x, a, b) => x \in DOMAIN t
                   /\ HoldsWay(s, x, a, b) => x \in DOMAIN s
  BY DEF HoldsWay
<1>7. ASSUME NEW a \in Mods, NEW b \in Ways(a)
      PROVE  /\ r[a][b].held <=> \E x \in DOMAIN t : HoldsWay(t, x, a, b)
             /\ \A x, y \in DOMAIN t :
                  HoldsWay(t, x, a, b) /\ HoldsWay(t, y, a, b) => x = y
  <2>1. /\ l[a][b].held <=> \E x \in DOMAIN s : HoldsWay(s, x, a, b)
        /\ \A x, y \in DOMAIN s :
             HoldsWay(s, x, a, b) /\ HoldsWay(s, y, a, b) => x = y
    BY DEF LockInv
  <2>2. r[a][b].held = l[a][b].held
    BY <1>1 DEF Elsewhere
  <2>. QED BY <1>6, <2>1, <2>2
<1>8. ASSUME NEW a \in Mods, NEW b \in Ways(a), NEW i \in 1..Len(r[a][b].queue)
      PROVE  /\ WaitsFor(t, r[a][b].queue[i], a, b)
             /\ \A j \in 1..Len(r[a][b].queue) :
                  r[a][b].queue[i] = r[a][b].queue[j] => i = j
  <2>1. CASE a = m /\ b = w
    <3>1. r[a][b].queue = e /\ i \in 1..Len(e)
      BY <1>1, <1>8, <2>1
    <3>2. WaitsFor(t, e[i], m, w)
      BY <1>2, <1>4, <3>1
    <3>. QED BY <1>4, <2>1, <3>1, <3>2
  <2>2. CASE a # m \/ b # w
    <3>1. r[a][b] = l[a][b]
      BY <1>1, <2>2 DEF Elsewhere
    <3>2. /\ WaitsFor(s, l[a][b].queue[i], a, b)
          /\ \A j \in 1..Len(l[a][b].queue) : l[a][b].queue[i] = l[a][b].queue[j] => i = j
      BY <1>8, <3>1 DEF LockInv
    <3>. QED BY <3>1, <3>2
  <2>. QED BY <2>1, <2>2
<1>9. ASSUME NEW x \in DOMAIN t, Asleep(t, x)
      PROVE  \E a \in Mods : \E b \in Ways(a) :
               \E i \in 1..Len(r[a][b].queue) : r[a][b].queue[i] = x
  <2>1. CASE x = k
    BY <1>1, <1>4, <2>1
  <2>2. CASE x # k
    <3>1. Asleep(s, x) /\ x \in DOMAIN s
      BY <1>9, <2>2 DEF Asleep
    <3>2. PICK a \in Mods : \E b \in Ways(a) :
            \E i \in 1..Len(l[a][b].queue) : l[a][b].queue[i] = x
      BY <3>1 DEF LockInv
    <3>3. PICK b \in Ways(a) : \E i \in 1..Len(l[a][b].queue) : l[a][b].queue[i] = x
      BY <3>2
    <3>4. CASE a = m /\ b = w
      <4>1. PICK j \in 1..Len(q) : q[j] = x
        BY <3>3, <3>4 DEF q, Queue
      <4>2. \E i \in 1..Len(e) : e[i] = x
        BY <1>4, <4>1
      <4>. QED BY <1>1, <4>2
    <3>5. CASE a # m \/ b # w
      BY <1>1, <3>3, <3>5 DEF Elsewhere
    <3>. QED BY <3>4, <3>5
  <2>. QED BY <2>1, <2>2
<1>. QED BY <1>1, <1>5, <1>7, <1>8, <1>9 DEF LockInv, r

-----------------------------------------------------------------------------
(* The stacks that a step does not handle *)

LEMMA Caller ==
  ASSUME NEW s, NEW id, StackInv(s, id), NEW k \in DOMAIN s
  PROVE  /\ k \in Paths /\ Typed(s[k]) /\ (Len(k) = 1 \/ Len(k) > 1)
         /\ Len(k) = 1 => AccessOK(s[k])
         /\ Len(k) > 1 => /\ Front(k) \in DOMAIN s /\ Front(k) # k
                          /\ k = Append(Front(k), Last(k))
                          /\ Called(s[Front(k)], Last(k), s[k])
                          /\ Typed(s[Front(k)])
<1>1. /\ k \in Paths /\ Typed(s[k])
      /\ Len(k) = 1 => AccessOK(s[k])
      /\ Len(k) > 1 => Front(k) \in DOMAIN s /\ Called(s[Front(k)], Last(k), s[k])
  BY DEF StackInv, Calls
<1>2. Len(k) > 1 => Typed(s[Front(k)])
  BY <1>1 DEF StackInv, Calls
<1>. QED BY <1>1, <1>2, PathLength, PathFront

Aside(k, x) == x # k /\ (Len(k) = 1 \/ x # Front(k))

\* The event and the modules of a stack stay the same.
Same(f, g) == g.ev = f.ev /\ g.mod = f.mod /\ g.tgt = f.tgt /\ g.down = f.down

\* A step of k does no more to the other stacks than to wake the first of q and
\* those that wait in k.
Quiet(s, t, k, q) ==
  /\ \A x \in DOMAIN s : Aside(k, x) =>
       /\ x \in DOMAIN t /\ Near(s[x], t[x]) /\ t[x].way = s[x].way
       /\ Asleep(s, x) => (t[x].n = 0 <=> ~Woken(q, x))
  /\ \A x \in DOMAIN t : x \in DOMAIN s \/ (Len(x) # 1 /\ t[x].n = 1 /\ t[x].ev \in Starts)
  /\ Len(k) > 1 => Front(k) \in DOMAIN t /\ Same(s[Front(k)], t[Front(k)])

\* A stack that sleeps was called by one that has called nobody else.
LEMMA AsleepCalled ==
  ASSUME NEW s, NEW id, StackInv(s, id), NEW x, Asleep(s, x)
  PROVE  /\ Len(x) > 1 /\ Front(x) \in DOMAIN s /\ s[Front(x)].n = 0
         /\ s[Front(x)].ev \in FalCallers /\ x = Append(Front(x), "FAL")
<1>1. x \in DOMAIN s /\ s[x].ev = "FIND_AND_LOCK"
  BY DEF Asleep
<1>2. ~AccessOK(s[x]) /\ ~EvictOK(s[x]) /\ ~InvOK(s[x]) /\ ~RequestOK(s[x])
  BY <1>1 DEF AccessOK, AccessEvs, EvictOK, EvictEvs, InvOK, InvEvs, RequestOK,
              WriteEvs, ReadEvs
<1>3. /\ Len(x) > 1 /\ Front(x) \in DOMAIN s /\ x = Append(Front(x), Last(x))
      /\ Called(s[Front(x)], Last(x), s[x])
  BY <1>1, <1>2, Caller
<1>. QED BY <1>2, <1>3 DEF Called

LEMMA OneCalled ==
  ASSUME NEW p, NEW l, NEW f, Called(p, l, f), p.ev \in FalCallers
  PROVE  l = "FAL"
  BY DEF Called, FalCallers, InvCallers, ReqCallers, Forkers

LEMMA CallersAwake ==
  ASSUME NEW p, NEW l, NEW f, Called(p, l, f)
  PROVE  p.ev # "FIND_AND_LOCK" /\ p.ev \notin Sleepers
  BY DEF Called, FalCallers, InvCallers, ReqCallers, Forkers, Sleepers

LEMMA NearHolds ==
  ASSUME NEW f, NEW g, Near(f, g)
  PROVE  /\ Locks(g) <=> Locks(f)
         /\ Module(g) = Module(f)
         /\ Locks(f) => g.way = f.way
<1>1. f.ev \in FalCallers => g.n = f.n /\ f.ev \notin Lockers
  BY DEF Near, FalCallers, Sleepers, Lockers
<1>2. Module(g) = Module(f) /\ g.ev = f.ev
  BY DEF Near, Module
<1>3. Locks(g) <=> Locks(f)
  BY <1>1, <1>2 DEF Near, Locks
<1>4. Typed(g)
  BY DEF Near
<1>5. Locks(f) => g.way = f.way
  BY <1>1, <1>4 DEF Near, Locks, Typed
<1>. QED BY <1>2, <1>3, <1>5

LEMMA Bystanders ==
  ASSUME NEW s, NEW t, NEW id, NEW q, NEW k \in DOMAIN s, StackInv(s, id), s[k].n > 0,
         Quiet(s, t, k, q)
  PROVE  /\ \A x, a, b : Aside(k, x) => (HoldsWay(t, x, a, b) <=> HoldsWay(s, x, a, b))
         /\ \A x, a, b : x # k /\ WaitsFor(s, x, a, b) /\ ~Woken(q, x) => WaitsFor(t, x, a, b)
         /\ \A x : x # k /\ Asleep(t, x) => Asleep(s, x) /\ ~Woken(q, x)
         /\ \A x, m : Aside(k, x) => (Listed(t, x, m) <=> Listed(s, x, m))
<1>1. ASSUME NEW x \in DOMAIN t, x \notin DOMAIN s
      PROVE  /\ \A a, b : ~HoldsWay(t, x, a, b)
             /\ ~Asleep(t, x) /\ \A m : ~Listed(t, x, m)
  <2>1. t[x].n = 1 /\ t[x].ev \in Starts /\ Len(x) # 1
    BY <1>1 DEF Quiet
  <2>3. t[x].ev \notin Lockers \cup FalCallers \cup (ReadEvs \ {"READ_REQUEST_RECEIVE"})
    BY <2>1 DEF Starts, Lockers, FalCallers, ReadEvs
  <2>. QED BY <2>1, <2>3 DEF HoldsWay, Locks, Asleep, Listed
<1>2. ASSUME NEW x \in DOMAIN s, Aside(k, x)
      PROVE  /\ x \in DOMAIN t /\ Near(s[x], t[x]) /\ t[x].way = s[x].way
             /\ t[x].ev = s[x].ev /\ t[x].mod = s[x].mod /\ t[x].tgt = s[x].tgt
             /\ t[x].down = s[x].down
             /\ t[x].n = s[x].n \/ t[x].n = 1
             /\ Asleep(s, x) => (t[x].n = 0 <=> ~Woken(q, x))
  BY <1>2 DEF Quiet, Near
<1>3. ASSUME NEW x, NEW a, NEW b, Aside(k, x)
      PROVE  HoldsWay(t, x, a, b) <=> HoldsWay(s, x, a, b)
  <2>1. CASE x \in DOMAIN s
    <3>1. /\ Locks(t[x]) <=> Locks(s[x])
          /\ Module(t[x]) = Module(s[x])
      BY <1>2, <1>3, <2>1, NearHolds
    <3>. QED BY <1>2, <1>3, <2>1, <3>1 DEF HoldsWay
  <2>2. CASE x \notin DOMAIN s
    BY <1>1, <2>2 DEF HoldsWay
  <2>. QED BY <2>1, <2>2
<1>4. ASSUME Len(k) > 1
      PROVE  /\ Front(k) \in DOMAIN s /\ Front(k) \in DOMAIN t
             /\ s[Front(k)].ev # "FIND_AND_LOCK" /\ t[Front(k)].ev = s[Front(k)].ev
  BY <1>4, Caller, CallersAwake DEF Quiet, Same
<1>5. ASSUME NEW x, x # k, Asleep(t, x)
      PROVE  Asleep(s, x) /\ ~Woken(q, x)
  <2>1. x \in DOMAIN t /\ t[x].ev = "FIND_AND_LOCK" /\ t[x].n = 0 /\ x \in DOMAIN s
    BY <1>1, <1>5 DEF Asleep
  <2>2. Aside(k, x)
    BY <1>4, <1>5, <2>1, Caller DEF Aside
  <2>3. Asleep(s, x)
    BY <1>2, <2>1, <2>2 DEF Asleep
  <2>. QED BY <1>2, <2>1, <2>2, <2>3
<1>6. ASSUME NEW x, NEW a, NEW b, x # k, WaitsFor(s, x, a, b), ~Woken(q, x)
      PROVE  WaitsFor(t, x, a, b)
  <2>1. Asleep(s, x) /\ s[x].mod = a /\ s[Front(x)].way = b
    BY <1>6 DEF WaitsFor
  <2>2. x \in DOMAIN s /\ s[x].ev = "FIND_AND_LOCK" /\ s[x].n = 0
    BY <2>1 DEF Asleep
  <2>3. Aside(k, x)
    BY <1>4, <1>6, <2>2, Caller DEF Aside
  <2>4. /\ Front(x) \in DOMAIN s /\ s[Front(x)].n = 0
        /\ s[Front(x)].ev \in FalCallers /\ x = Append(Front(x), "FAL")
    BY <2>1, AsleepCalled
  <2>5. Aside(k, Front(x))
    <3>1. Front(x) # k
      BY <2>4
    <3>2. ASSUME Len(k) > 1, Front(x) = Front(k)  PROVE FALSE
      <4>1. Called(s[Front(k)], Last(k), s[k]) /\ k = Append(Front(k), Last(k))
        BY <3>2, Caller
      <4>2. Last(k) = "FAL"
        BY <2>4, <3>2, <4>1, OneCalled
      <4>. QED BY <1>6, <2>4, <3>2, <4>1, <4>2
    <3>. QED BY <3>1, <3>2, Caller DEF Aside
  <2>6. t[Front(x)].way = b
    BY <1>2, <2>1, <2>4, <2>5
  <2>. QED BY <1>2, <1>6, <2>1, <2>2, <2>3, <2>6 DEF WaitsFor, Asleep
<1>7. ASSUME NEW x, NEW m, Aside(k, x)  PROVE Listed(t, x, m) <=> Listed(s, x, m)
  <2>1. CASE x \in DOMAIN s
    BY <1>2, <1>7, <2>1 DEF Listed
  <2>2. CASE x \notin DOMAIN s
    BY <1>1, <2>2 DEF Listed
  <2>. QED BY <2>1, <2>2
<1>. QED BY <1>3, <1>5, <1>6, <1>7

\* The caller of k keeps what it has locked.
SameHeld(s, t, x) == \A a, b : HoldsWay(t, x, a, b) <=> HoldsWay(s, x, a, b)
CallerSame(s, t, k) == Len(k) > 1 => SameHeld(s, t, Front(k))

LEMMA SameAround ==
  ASSUME NEW s, NEW t, NEW id, NEW q, NEW k \in DOMAIN s, StackInv(s, id), s[k].n > 0,
         Quiet(s, t, k, q), CallerSame(s, t, k), NEW x, x # k
  PROVE  \A a, b : HoldsWay(t, x, a, b) <=> HoldsWay(s, x, a, b)
<1>1. CASE Aside(k, x)
  BY <1>1, Bystanders
<1>2. CASE ~Aside(k, x)
  <2>1. Len(k) > 1 /\ x = Front(k)
    BY <1>2, Caller DEF Aside
  <2>. QED BY <2>1 DEF CallerSame, SameHeld
<1>. QED BY <1>1, <1>2

LEMMA NearSame ==
  ASSUME NEW s, NEW t, NEW x, x \in DOMAIN s, x \in DOMAIN t, Near(s[x], t[x])
  PROVE  SameHeld(s, t, x)
<1>1. /\ Locks(t[x]) <=> Locks(s[x])
      /\ Module(t[x]) = Module(s[x]) /\ (Locks(s[x]) => t[x].way = s[x].way)
  BY NearHolds
<1>. QED BY <1>1 DEF SameHeld, HoldsWay

-----------------------------------------------------------------------------
(* Locks after a step of k *)

LEMMA KeepsLocks ==
  ASSUME NEW s, NEW t, NEW id, NEW l, NEW k \in DOMAIN s, StackInv(s, id), s[k].n > 0,
         LockInv(s, l), Quiet(s, t, k, <<>>), CallerSame(s, t, k),
         SameHeld(s, t, k), ~Asleep(t, k)
  PROVE  LockInv(t, l)
<1>1. \A x : ~Woken(<<>>, x)
  BY DEF Woken
<1>2. ~Asleep(s, k)
  BY DEF Asleep
<1>3. \A x, a, b : HoldsWay(t, x, a, b) <=> HoldsWay(s, x, a, b)
  BY SameAround DEF SameHeld
<1>4. \A x, a, b : WaitsFor(s, x, a, b) => WaitsFor(t, x, a, b)
  <2>1. \A x, a, b : WaitsFor(s, x, a, b) => x # k
    BY <1>2 DEF WaitsFor
  <2>. QED BY <1>1, <2>1, Bystanders
<1>5. \A x : Asleep(t, x) => Asleep(s, x)
  BY Bystanders
<1>. QED BY <1>3, <1>4, <1>5, LockKeeps

LEMMA ReleasesLock ==
  ASSUME NEW s, NEW t, NEW id, NEW l, NEW k \in DOMAIN s, StackInv(s, id), s[k].n > 0,
         NEW m \in Mods, NEW w \in Ways(m), LockInv(s, l), HoldsWay(s, k, m, w),
         Quiet(s, t, k, Queue(l, m, w)), CallerSame(s, t, k),
         \A a, b : ~HoldsWay(t, k, a, b), ~Asleep(t, k)
  PROVE  LockInv(t, Released(l, m, w))
<1>2. ~Asleep(s, k)
  BY DEF Asleep
<1>3. \A x, a, b : HoldsWay(t, x, a, b) <=> HoldsWay(s, x, a, b) /\ x # k
  BY SameAround
<1>4. \A x, a, b : WaitsFor(s, x, a, b) /\ ~Woken(Queue(l, m, w), x) => WaitsFor(t, x, a, b)
  <2>1. \A x, a, b : WaitsFor(s, x, a, b) => x # k
    BY <1>2 DEF WaitsFor
  <2>. QED BY <2>1, Bystanders
<1>5. \A x : Asleep(t, x) => Asleep(s, x) /\ ~Woken(Queue(l, m, w), x)
  BY Bystanders
<1>. QED BY <1>3, <1>4, <1>5, LockReleases

LEMMA PassesLock ==
  ASSUME NEW s, NEW t, NEW id, NEW l, NEW k \in DOMAIN s, StackInv(s, id), s[k].n > 0,
         NEW m \in Mods, NEW w \in Ways(m), LockInv(s, l), HoldsWay(s, k, m, w),
         Quiet(s, t, k, <<>>), Len(k) > 1, k \notin DOMAIN t,
         \A a, b : HoldsWay(t, Front(k), a, b) <=> a = m /\ b = w,
         \A a, b : ~HoldsWay(s, Front(k), a, b)
  PROVE  LockInv(t, l)
<1>1. \A x : ~Woken(<<>>, x)
  BY DEF Woken
<1>2. ~Asleep(s, k) /\ ~Asleep(t, k) /\ \A a, b : ~HoldsWay(t, k, a, b)
  BY DEF Asleep, HoldsWay
<1>3. ASSUME NEW x, NEW a, NEW b
      PROVE  HoldsWay(t, x, a, b) <=>
               (HoldsWay(s, x, a, b) /\ x # k) \/ (x = Front(k) /\ a = m /\ b = w)
  <2>1. Front(k) # k
    BY Caller
  <2>2. CASE x = k
    BY <1>2, <2>1, <2>2
  <2>3. CASE x = Front(k)
    BY <2>1, <2>3
  <2>4. CASE x # k /\ x # Front(k)
    BY <2>4, Bystanders DEF Aside
  <2>. QED BY <2>2, <2>3, <2>4
<1>4. \A x, a, b : WaitsFor(s, x, a, b) => WaitsFor(t, x, a, b)
  <2>1. \A x, a, b : WaitsFor(s, x, a, b) => x # k
    BY <1>2 DEF WaitsFor
  <2>. QED BY <1>1, <2>1, Bystanders
<1>5. \A x : Asleep(t, x) => Asleep(s, x)
  BY <1>2, Bystanders
<1>6. Handed(s, t, k, Front(k), m, w)
  BY <1>3 DEF Handed
<1>. QED BY <1>4, <1>5, <1>6, LockPasses

LEMMA AcquiresLock ==
  ASSUME NEW s, NEW t, NEW id, NEW l, NEW k \in DOMAIN s, StackInv(s, id), s[k].n > 0,
         NEW m \in Mods, NEW w \in Ways(m), LockInv(s, l), ~l[m][w].held, ~Locks(s[k]),
         Quiet(s, t, k, <<>>), CallerSame(s, t, k), ~Asleep(t, k),
         \A a, b : HoldsWay(t, k, a, b) <=> a = m /\ b = w
  PROVE  LockInv(t, Seized(l, m, w))
<1>1. \A x : ~Woken(<<>>, x)
  BY DEF Woken
<1>2. ~Asleep(s, k) /\ \A a, b : ~HoldsWay(s, k, a, b)
  BY DEF Asleep, HoldsWay
<1>3. \A x, a, b : HoldsWay(t, x, a, b) <=>
                     HoldsWay(s, x, a, b) \/ (x = k /\ a = m /\ b = w)
  BY <1>2, SameAround
<1>4. \A x, a, b : WaitsFor(s, x, a, b) => WaitsFor(t, x, a, b)
  <2>1. \A x, a, b : WaitsFor(s, x, a, b) => x # k
    BY <1>2 DEF WaitsFor
  <2>. QED BY <1>1, <2>1, Bystanders
<1>5. \A x : Asleep(t, x) => Asleep(s, x)
  BY Bystanders
<1>. QED BY <1>3, <1>4, <1>5, LockAcquires

LEMMA EnqueuesLock ==
  ASSUME NEW s, NEW t, NEW id, NEW l, NEW k \in DOMAIN s, StackInv(s, id), s[k].n > 0,
         NEW m \in Mods, NEW w \in Ways(m), LockInv(s, l),
         Quiet(s, t, k, <<>>), CallerSame(s, t, k), SameHeld(s, t, k),
         WaitsFor(t, k, m, w)
  PROVE  LockInv(t, Queued(l, m, w, k))
<1>1. \A x : ~Woken(<<>>, x)
  BY DEF Woken
<1>2. ~Asleep(s, k) /\ k \in Paths
  BY Caller DEF Asleep
<1>3. \A x, a, b : HoldsWay(t, x, a, b) <=> HoldsWay(s, x, a, b)
  BY SameAround DEF SameHeld
<1>4. \A x, a, b : WaitsFor(s, x, a, b) => WaitsFor(t, x, a, b)
  <2>1. \A x, a, b : WaitsFor(s, x, a, b) => x # k
    BY <1>2 DEF WaitsFor
  <2>. QED BY <1>1, <2>1, Bystanders
<1>5. \A x : Asleep(t, x) => Asleep(s, x) \/ x = k
  BY Bystanders
<1>. QED BY <1>2, <1>3, <1>4, <1>5, LockEnqueues

-----------------------------------------------------------------------------
(* Access lists after a step *)

LEMMA ListKeeps ==
  ASSUME NEW s, NEW t, NEW a, ListInv(s, a),
         \A x, m : Listed(t, x, m) <=> Listed(s, x, m)
  PROVE  ListInv(t, a)
<1>1. \A x, m : Listed(t, x, m) => x \in DOMAIN s
  BY DEF Listed
<1>. QED BY <1>1 DEF ListInv

LEMMA ListAppends ==
  ASSUME NEW s, NEW t, NEW a, NEW k \in Paths, NEW m \in Mods, ListInv(s, a),
         ~Listed(s, k, m),
         \A x, c : Listed(t, x, c) <=> Listed(s, x, c) \/ (x = k /\ c = m)
  PROVE  ListInv(t, [a EXCEPT ![m] = Append(@, k)])
<1>. DEFINE r == [a EXCEPT ![m] = Append(@, k)]
            q == a[m]
<1>1. /\ DOMAIN a = Mods
      /\ \A c \in Mods : /\ a[c] \in Seq(Paths)
                         /\ \A i \in 1..Len(a[c]) :
                              /\ Listed(s, a[c][i], c)
                              /\ \A j \in 1..Len(a[c]) : a[c][i] = a[c][j] => i = j
                         /\ \A x \in DOMAIN s : Listed(s, x, c) =>
                              \E i \in 1..Len(a[c]) : a[c][i] = x
  BY DEF ListInv
<1>2. /\ DOMAIN r = Mods /\ r[m] = Append(q, k)
      /\ \A c \in Mods : c # m => r[c] = a[c]
  BY <1>1
<1>3. q \in Seq(Paths) /\ \A i \in 1..Len(q) : q[i] # k
  BY <1>1
<1>. HIDE DEF r, q
<1>4. /\ r[m] \in Seq(Paths) /\ Len(r[m]) = Len(q) + 1 /\ Len(q) \in Nat
      /\ r[m][Len(q) + 1] = k /\ \A i \in 1..Len(q) : r[m][i] = q[i]
  BY <1>2, <1>3
<1>5. \A x, c : /\ Listed(s, x, c) => x \in DOMAIN s
                /\ Listed(t, x, c) => x \in DOMAIN t
  BY DEF Listed
<1>6. ASSUME NEW c \in Mods, c # m
      PROVE  /\ r[c] \in Seq(Paths)
             /\ \A i \in 1..Len(r[c]) :
                  /\ Listed(t, r[c][i], c)
                  /\ \A j \in 1..Len(r[c]) : r[c][i] = r[c][j] => i = j
             /\ \A x \in DOMAIN t : Listed(t, x, c) =>
                  \E i \in 1..Len(r[c]) : r[c][i] = x
  <2>1. r[c] = a[c]
    BY <1>2, <1>6
  <2>. QED BY <1>1, <1>5, <1>6, <2>1
<1>7. ASSUME NEW i \in 1..Len(r[m])
      PROVE  /\ Listed(t, r[m][i], m)
             /\ \A j \in 1..Len(r[m]) : r[m][i] = r[m][j] => i = j
  <2>1. \A j \in 1..Len(r[m]) : (j \in 1..Len(q) /\ r[m][j] = q[j]) \/ (j = Len(q) + 1 /\ r[m][j] = k)
    BY <1>4
  <2>2. \A j \in 1..Len(q) : /\ Listed(s, q[j], m)
                             /\ \A h \in 1..Len(q) : q[j] = q[h] => j = h
    BY <1>1 DEF q
  <2>. QED BY <1>3, <2>1, <2>2
<1>8. ASSUME NEW x \in DOMAIN t, Listed(t, x, m)
      PROVE  \E i \in 1..Len(r[m]) : r[m][i] = x
  <2>1. CASE x = k
    BY <1>4, <2>1
  <2>2. CASE x # k
    <3>1. PICK i \in 1..Len(q) : q[i] = x
      BY <1>1, <1>5, <1>8, <2>2 DEF q
    <3>2. i \in 1..Len(r[m]) /\ r[m][i] = x
      BY <1>4, <3>1
    <3>. QED BY <3>2
  <2>. QED BY <2>1, <2>2
<1>9. DOMAIN r = Mods /\ r[m] \in Seq(Paths)
  BY <1>2, <1>4
<1>. QED BY <1>6, <1>7, <1>8, <1>9 DEF ListInv, r

\* Unlinking takes one stack away.
LEMMA UnlinkedIs ==
  ASSUME NEW S, NEW q \in Seq(S), NEW k,
         \A i, j \in 1..Len(q) : q[i] = q[j] => i = j,
         \E i \in 1..Len(q) : q[i] = k
  PROVE  LET u == Unlinked(q, k) IN
         /\ u \in Seq(S)
         /\ \A i \in 1..Len(u) : u[i] # k /\ \E j \in 1..Len(q) : u[i] = q[j]
         /\ \A j \in 1..Len(q) : q[j] # k => \E i \in 1..Len(u) : u[i] = q[j]
         /\ \A i, j \in 1..Len(u) : u[i] = u[j] => i = j
<1>. DEFINE u == Unlinked(q, k)
            p == CHOOSE i \in 1..Len(q) : q[i] = k
            L == SubSeq(q, 1, p - 1)
            R == SubSeq(q, p + 1, Len(q))
<1>1. p \in 1..Len(q) /\ q[p] = k /\ Len(q) \in Nat
  OBVIOUS
<1>2. u = L \o R
  BY DEF Unlinked, RemoveAt
<1>. HIDE DEF p
<1>3. L \in Seq(S) /\ Len(L) = p - 1 /\ \A i \in 1..p - 1 : L[i] = q[i]
  BY <1>1
<1>4. /\ R \in Seq(S) /\ Len(R) = Len(q) - p
      /\ \A i \in 1..Len(q) - p : R[i] = q[p + i]
  <2>1. p + 1 \in 1..Len(q) + 1 /\ Len(q) \in Nat /\ p \in Nat
    BY <1>1
  <2>2. R \in Seq(S) /\ Len(R) = Len(q) - p
    BY <2>1
  <2>3. ASSUME NEW i \in 1..Len(q) - p  PROVE R[i] = q[p + i]
    <3>1. R[i] = q[p + 1 + i - 1] /\ p + 1 + i - 1 = p + i
      BY <2>1, <2>2
    <3>. QED BY <3>1
  <2>. QED BY <2>2, <2>3
<1>. HIDE DEF L, R
<1>5. /\ L \o R \in Seq(S) /\ Len(L \o R) = Len(L) + Len(R)
      /\ \A i \in 1..Len(L) + Len(R) :
           (L \o R)[i] = IF i <= Len(L) THEN L[i] ELSE R[i - Len(L)]
  <2>1. L \in Seq(S) /\ R \in Seq(S)
    BY <1>3, <1>4
  <2>. QED BY <2>1, ConcatProperties
<1>. HIDE DEF u
<1>6. u \in Seq(S) /\ Len(u) = Len(q) - 1
  BY <1>1, <1>2, <1>3, <1>4, <1>5
<1>7. ASSUME NEW i \in 1..Len(u)
      PROVE  IF i < p THEN i \in 1..Len(q) /\ i # p /\ u[i] = q[i]
             ELSE i + 1 \in 1..Len(q) /\ i + 1 # p /\ u[i] = q[i + 1]
  <2>1. CASE i < p
    BY <1>1, <1>2, <1>3, <1>4, <1>5, <1>6, <2>1
  <2>2. CASE ~(i < p)
    <3>1. /\ i \in 1..Len(L) + Len(R) /\ ~(i <= Len(L))
          /\ i - Len(L) \in 1..Len(q) - p /\ p + (i - Len(L)) = i + 1
          /\ i + 1 \in 1..Len(q) /\ i + 1 # p
      BY <1>1, <1>3, <1>4, <1>6, <2>2
    <3>2. u[i] = R[i - Len(L)]
      BY <1>2, <1>5, <3>1
    <3>3. R[i - Len(L)] = q[p + (i - Len(L))]
      BY <1>4, <3>1
    <3>. QED BY <2>2, <3>1, <3>2, <3>3
  <2>. QED BY <2>1, <2>2
<1>8. ASSUME NEW j \in 1..Len(q), q[j] # k  PROVE \E i \in 1..Len(u) : u[i] = q[j]
  <2>1. CASE j < p
    BY <1>1, <1>6, <1>7, <2>1
  <2>2. CASE ~(j < p)
    <3>1. j - 1 \in 1..Len(u) /\ ~(j - 1 < p) /\ (j - 1) + 1 = j
      BY <1>1, <1>6, <1>8, <2>2
    <3>2. u[j - 1] = q[(j - 1) + 1]
      BY <1>7, <3>1
    <3>. QED BY <3>1, <3>2
  <2>. QED BY <2>1, <2>2
<1>9. \A i \in 1..Len(u) : u[i] # k /\ \E j \in 1..Len(q) : u[i] = q[j]
  BY <1>1, <1>7
<1>10. ASSUME NEW i \in 1..Len(u), NEW j \in 1..Len(u), u[i] = u[j]  PROVE i = j
  BY <1>1, <1>6, <1>7, <1>10
<1>. QED BY <1>6, <1>8, <1>9, <1>10 DEF u

LEMMA ListUnlinks ==
  ASSUME NEW s, NEW t, NEW a, NEW k, NEW m \in Mods, ListInv(s, a),
         Listed(s, k, m), \A c : Listed(s, k, c) => c = m,
         \A x, c : Listed(t, x, c) <=> Listed(s, x, c) /\ x # k
  PROVE  ListInv(t, [a EXCEPT ![m] = Unlinked(@, k)])
<1>. DEFINE r == [a EXCEPT ![m] = Unlinked(@, k)]
            q == a[m]
            u == Unlinked(q, k)
<1>1. /\ DOMAIN a = Mods
      /\ \A c \in Mods : /\ a[c] \in Seq(Paths)
                         /\ \A i \in 1..Len(a[c]) :
                              /\ Listed(s, a[c][i], c)
                              /\ \A j \in 1..Len(a[c]) : a[c][i] = a[c][j] => i = j
                         /\ \A x \in DOMAIN s : Listed(s, x, c) =>
                              \E i \in 1..Len(a[c]) : a[c][i] = x
  BY DEF ListInv
<1>2. DOMAIN r = Mods /\ r[m] = u /\ \A c \in Mods : c # m => r[c] = a[c]
  BY <1>1
<1>3. \A x, c : /\ Listed(s, x, c) => x \in DOMAIN s
                /\ Listed(t, x, c) => x \in DOMAIN t
  BY DEF Listed
<1>4. /\ q \in Seq(Paths) /\ (\E i \in 1..Len(q) : q[i] = k)
      /\ \A i, j \in 1..Len(q) : q[i] = q[j] => i = j
  BY <1>1, <1>3
<1>5. /\ u \in Seq(Paths)
      /\ \A i \in 1..Len(u) : u[i] # k /\ \E j \in 1..Len(q) : u[i] = q[j]
      /\ \A j \in 1..Len(q) : q[j] # k => \E i \in 1..Len(u) : u[i] = q[j]
      /\ \A i, j \in 1..Len(u) : u[i] = u[j] => i = j
  BY <1>4, UnlinkedIs
<1>6. /\ \A j \in 1..Len(q) : Listed(s, q[j], m)
      /\ \A x \in DOMAIN s : Listed(s, x, m) => \E j \in 1..Len(q) : q[j] = x
  BY <1>1
<1>. HIDE DEF r, q, u
<1>7. ASSUME NEW c \in Mods, c # m
      PROVE  /\ r[c] \in Seq(Paths)
             /\ \A i \in 1..Len(r[c]) :
                  /\ Listed(t, r[c][i], c)
                  /\ \A j \in 1..Len(r[c]) : r[c][i] = r[c][j] => i = j
             /\ \A x \in DOMAIN t : Listed(t, x, c) =>
                  \E i \in 1..Len(r[c]) : r[c][i] = x
  <2>1. r[c] = a[c]
    BY <1>2, <1>7
  <2>2. \A i \in 1..Len(a[c]) : a[c][i] # k
    BY <1>1, <1>7
  <2>. QED BY <1>1, <1>3, <1>7, <2>1, <2>2
<1>8. /\ \A i \in 1..Len(u) : Listed(t, u[i], m)
      /\ \A x \in DOMAIN t : Listed(t, x, m) => \E i \in 1..Len(u) : u[i] = x
  <2>1. \A i \in 1..Len(u) : Listed(t, u[i], m)
    BY <1>5, <1>6
  <2>2. ASSUME NEW x \in DOMAIN t, Listed(t, x, m)  PROVE \E i \in 1..Len(u) : u[i] = x
    <3>1. x # k /\ x \in DOMAIN s /\ Listed(s, x, m)
      BY <1>3, <2>2
    <3>2. PICK j \in 1..Len(q) : q[j] = x
      BY <1>6, <3>1
    <3>. QED BY <1>5, <3>1, <3>2
  <2>. QED BY <2>1, <2>2
<1>9. r[m] = u
  BY <1>2
<1>. QED BY <1>2, <1>5, <1>7, <1>8, <1>9 DEF ListInv, r

-----------------------------------------------------------------------------
(* What a stack knows of its caller *)

LEMMA AccessFacts ==
  ASSUME NEW s, NEW id, StackInv(s, id), NEW k \in DOMAIN s, s[k].ev \in AccessEvs
  PROVE  Len(k) = 1 /\ AccessOK(s[k])
<1>1. ~FalOK(s[k]) /\ ~EvictOK(s[k]) /\ ~InvOK(s[k]) /\ ~RequestOK(s[k])
  BY DEF AccessEvs, FalOK, FalEvs, EvictOK, EvictEvs, InvOK, InvEvs, RequestOK,
         WriteEvs, ReadEvs
<1>. QED BY <1>1, Caller DEF Called

LEMMA FalFacts ==
  ASSUME NEW s, NEW id, StackInv(s, id), NEW k \in DOMAIN s, s[k].ev \in FalEvs
  PROVE  /\ Len(k) > 1 /\ Len(k) # 1 /\ Last(k) = "FAL" /\ FalOK(s[k])
         /\ Front(k) \in DOMAIN s /\ Front(k) # k
         /\ s[Front(k)].ev \in FalCallers /\ s[Front(k)].n = 0
         /\ s[k].mod = Module(s[Front(k)])
<1>1. ~AccessOK(s[k]) /\ ~EvictOK(s[k]) /\ ~InvOK(s[k]) /\ ~RequestOK(s[k])
  BY DEF AccessEvs, AccessOK, FalEvs, EvictOK, EvictEvs, InvOK, InvEvs, RequestOK,
         WriteEvs, ReadEvs
<1>. QED BY <1>1, Caller DEF Called

LEMMA EvictFacts ==
  ASSUME NEW s, NEW id, StackInv(s, id), NEW k \in DOMAIN s, s[k].ev \in EvictEvs
  PROVE  /\ Len(k) > 1 /\ Len(k) # 1 /\ Last(k) = "EVICT" /\ EvictOK(s[k])
         /\ Front(k) \in DOMAIN s /\ Front(k) # k
         /\ s[Front(k)].ev = "FIND_AND_LOCK_FINISH" /\ s[Front(k)].n = 0
<1>1. ~AccessOK(s[k]) /\ ~FalOK(s[k]) /\ ~InvOK(s[k]) /\ ~RequestOK(s[k])
  BY DEF AccessEvs, AccessOK, FalEvs, FalOK, EvictEvs, InvOK, InvEvs, RequestOK,
         WriteEvs, ReadEvs
<1>. QED BY <1>1, Caller DEF Called

LEMMA InvFacts ==
  ASSUME NEW s, NEW id, StackInv(s, id), NEW k \in DOMAIN s, s[k].ev \in InvEvs
  PROVE  /\ Len(k) > 1 /\ Len(k) # 1 /\ Last(k) = "INV" /\ InvOK(s[k])
         /\ Front(k) \in DOMAIN s /\ Front(k) # k
         /\ s[Front(k)].ev \in InvCallers /\ s[Front(k)].n = 0
<1>1. ~AccessOK(s[k]) /\ ~FalOK(s[k]) /\ ~EvictOK(s[k]) /\ ~RequestOK(s[k])
  BY DEF AccessEvs, AccessOK, FalEvs, FalOK, EvictEvs, EvictOK, InvEvs, RequestOK,
         WriteEvs, ReadEvs
<1>. QED BY <1>1, Caller DEF Called

\* Requests go down to the low module, or up to the module that is their label.
Downward(p, l, f) ==
  l = "REQ" /\ p.ev \in ReqCallers /\ p.n = 0 /\ f.down /\ f.mod # MM /\ f.tgt = Low[f.mod]
Upward(p, l, f) == l \in Mods /\ p.ev \in Forkers /\ ~f.down /\ f.tgt = l /\ l # MM

LEMMA RequestFacts ==
  ASSUME NEW s, NEW id, StackInv(s, id), NEW k \in DOMAIN s,
         s[k].ev \in WriteEvs \cup ReadEvs
  PROVE  /\ Len(k) > 1 /\ Len(k) # 1 /\ RequestOK(s[k]) /\ s[k].tgt \in Mods
         /\ Front(k) \in DOMAIN s /\ Front(k) # k
         /\ s[Front(k)].ev \in ReqCallers \cup Forkers
         /\ Downward(s[Front(k)], Last(k), s[k]) \/ Upward(s[Front(k)], Last(k), s[k])
<1>1. ~AccessOK(s[k]) /\ ~FalOK(s[k]) /\ ~EvictOK(s[k]) /\ ~InvOK(s[k])
  BY DEF AccessEvs, AccessOK, FalEvs, FalOK, EvictEvs, EvictOK, InvEvs, InvOK,
         WriteEvs, ReadEvs
<1>2. /\ Len(k) > 1 /\ Len(k) # 1 /\ RequestOK(s[k])
      /\ Front(k) \in DOMAIN s /\ Front(k) # k /\ Typed(s[k])
      /\ Downward(s[Front(k)], Last(k), s[k]) \/ Upward(s[Front(k)], Last(k), s[k])
  BY <1>1, Caller DEF Called, Downward, Upward
<1>3. s[Front(k)].ev \in ReqCallers \cup Forkers
  BY <1>2 DEF Downward, Upward
<1>4. s[k].tgt \in Mods
  BY <1>2, TreeAssumption DEF Downward, Upward, Typed
<1>. QED BY <1>2, <1>3, <1>4

-----------------------------------------------------------------------------
(* Going on in the same call *)

LEMMA AccessGoes ==
  ASSUME NEW s, NEW id, StackInv(s, id), NEW k \in DOMAIN s, s[k].ev \in AccessEvs,
         NEW g, Typed(g), g.ev \in AccessEvs, g.mod = s[k].mod
  PROVE  Goes(s, k, g)
<1>1. Len(k) = 1 /\ s[k].mod \in Cores
  BY AccessFacts DEF AccessOK
<1>2. ~InList(s[k]) /\ ~InList(g)
  BY DEF InList, AccessEvs, ReadEvs
<1>. QED BY <1>1, <1>2 DEF Goes, AccessOK

LEMMA FalGoes ==
  ASSUME NEW s, NEW id, StackInv(s, id), NEW k \in DOMAIN s, s[k].ev \in FalEvs,
         NEW g, Typed(g), FalOK(g), g.mod = s[k].mod
  PROVE  Goes(s, k, g)
<1>1. /\ Len(k) # 1 /\ Last(k) = "FAL" /\ s[Front(k)].ev \in FalCallers
      /\ s[Front(k)].n = 0 /\ s[k].mod = Module(s[Front(k)])
  BY FalFacts
<1>2. ~InList(s[k]) /\ ~InList(g)
  BY DEF InList, FalEvs, FalOK, ReadEvs
<1>. QED BY <1>1, <1>2 DEF Goes, Called

LEMMA EvictGoes ==
  ASSUME NEW s, NEW id, StackInv(s, id), NEW k \in DOMAIN s, s[k].ev \in EvictEvs,
         NEW g, Typed(g), EvictOK(g)
  PROVE  Goes(s, k, g)
<1>1. /\ Len(k) # 1 /\ Last(k) = "EVICT" /\ s[Front(k)].ev = "FIND_AND_LOCK_FINISH"
      /\ s[Front(k)].n = 0
  BY EvictFacts
<1>2. ~InList(s[k]) /\ ~InList(g)
  BY DEF InList, EvictEvs, EvictOK, ReadEvs
<1>. QED BY <1>1, <1>2 DEF Goes, Called

LEMMA InvGoes ==
  ASSUME NEW s, NEW id, StackInv(s, id), NEW k \in DOMAIN s, s[k].ev \in InvEvs,
         NEW g, Typed(g), InvOK(g)
  PROVE  Goes(s, k, g)
<1>1. /\ Len(k) # 1 /\ Last(k) = "INV" /\ s[Front(k)].ev \in InvCallers
      /\ s[Front(k)].n = 0
  BY InvFacts
<1>2. ~InList(s[k]) /\ ~InList(g)
  BY DEF InList, InvEvs, InvOK, ReadEvs
<1>. QED BY <1>1, <1>2 DEF Goes, Called

LEMMA RequestGoes ==
  ASSUME NEW s, NEW id, StackInv(s, id), NEW k \in DOMAIN s,
         s[k].ev \in WriteEvs \cup ReadEvs, NEW g, Typed(g), RequestOK(g),
         g.mod = s[k].mod, g.tgt = s[k].tgt, g.down = s[k].down,
         InList(g) <=> InList(s[k])
  PROVE  Goes(s, k, g)
<1>1. /\ Len(k) # 1
      /\ Downward(s[Front(k)], Last(k), s[k]) \/ Upward(s[Front(k)], Last(k), s[k])
  BY RequestFacts
<1>2. Called(s[Front(k)], Last(k), g)
  BY <1>1 DEF Downward, Upward, Called
<1>. QED BY <1>1, <1>2 DEF Goes

\* A caller that is told goes on waiting, or wakes up, in the same event.
LEMMA SameGoes ==
  ASSUME NEW s, NEW id, StackInv(s, id), NEW k \in DOMAIN s, NEW g, Typed(g),
         Same(s[k], g), FalOK(s[k]) => FalOK(g), EvictOK(s[k]) => EvictOK(g),
         InvOK(s[k]) => InvOK(g), RequestOK(s[k]) => RequestOK(g)
  PROVE  Goes(s, k, g)
<1>1. Len(k) = 1 => AccessOK(g) /\ g.mod = s[k].mod
  BY Caller DEF AccessOK, Same
<1>2. Len(k) > 1 => Called(s[Front(k)], Last(k), g)
  BY Caller DEF Called, Same
<1>3. InList(g) <=> InList(s[k])
  BY DEF InList, Same
<1>. QED BY <1>1, <1>2, <1>3 DEF Goes, Same

-----------------------------------------------------------------------------
(* Steps, whole *)

LEMMA ButSelf ==
  ASSUME NEW f, Typed(f), NEW F
  PROVE  But(f, f, F)
  BY DEF But, Typed

LEMMA NearWoken ==
  ASSUME NEW f, NEW g, Typed(f), But(f, g, Free \cup {"n", "wait"}), g.n = 1,
         f.ev \in Sleepers \cup {"FIND_AND_LOCK"}, g.wait = <<>>
  PROVE  Near(f, g) /\ g.way = f.way
<1>1. /\ g.ev = f.ev /\ g.mod = f.mod /\ g.tgt = f.tgt /\ g.down = f.down
      /\ g.way = f.way /\ g.state = f.state /\ g.pending = f.pending
      /\ g.err = f.err /\ g.addr = f.addr
  BY DEF But, Free, Fields
<1>2. g = [x \in Fields |-> g[x]]
  BY DEF But
<1>. QED BY <1>1, <1>2 DEF Near, Typed

LEMMA ButFree ==
  ASSUME NEW f, NEW g, Typed(f), But(f, g, Free)
  PROVE  Near(f, g) /\ g.way = f.way /\ g.n = f.n /\ g.ev = f.ev /\ g.wait = f.wait
<1>1. g.way = f.way /\ g.n = f.n /\ g.ev = f.ev /\ g.wait = f.wait
  BY DEF But, Free, Fields
<1>. QED BY <1>1, NearFields

LEMMA NearIsSame ==
  ASSUME NEW f, NEW g, Near(f, g)
  PROVE  Same(f, g)
  BY DEF Near, Same

\* The module and the way that a stack has locked.
LEMMA LockedWay ==
  ASSUME NEW s, NEW id, NEW l, StackInv(s, id), LockInv(s, l), NEW k \in DOMAIN s,
         Locks(s[k])
  PROVE  /\ Module(s[k]) \in Mods /\ s[k].way \in Ways(Module(s[k]))
         /\ HoldsWay(s, k, Module(s[k]), s[k].way)
<1>1. s[k].way \in Ways(Module(s[k])) /\ HoldsWay(s, k, Module(s[k]), s[k].way)
  BY DEF LockInv, HoldsWay
<1>2. Module(s[k]) \in Mods
  <2>1. Typed(s[k])
    BY Caller
  <2>2. CASE s[k].ev \in AccessEvs \cup FalEvs
    BY <2>1, <2>2 DEF Module, Typed
  <2>3. CASE s[k].ev \in WriteEvs \cup ReadEvs
    <3>1. s[k].ev \notin AccessEvs \cup FalEvs
      BY <2>3 DEF WriteEvs, ReadEvs, AccessEvs, FalEvs
    <3>. QED BY <2>3, <3>1, RequestFacts DEF Module
  <2>4. CASE s[k].ev = "EVICT_PROCESS"
    <3>1. s[k].ev \in EvictEvs /\ s[k].ev \notin AccessEvs \cup FalEvs
      BY <2>4 DEF EvictEvs, AccessEvs, FalEvs
    <3>2. EvictOK(s[k])
      BY <3>1, EvictFacts
    <3>3. s[k].mod # MM /\ s[k].tgt = Low[s[k].mod]
      BY <2>4, <3>2 DEF EvictOK
    <3>. QED BY <2>1, <3>1, <3>3, TreeAssumption DEF Module, Typed
  <2>5. s[k].ev \in Lockers \cup FalCallers
    BY DEF Locks
  <2>. QED BY <2>2, <2>3, <2>4, <2>5
       DEF Lockers, FalCallers, AccessEvs, FalEvs, WriteEvs, ReadEvs
<1>. QED BY <1>1, <1>2

\* What a step of k does beside k: nothing, but to tell its caller.
Around(s, u, k) ==
  /\ \A x \in DOMAIN s : Aside(k, x) => But(s[x], u[x], Free)
  /\ Len(k) > 1 => Near(s[Front(k)], u[Front(k)])

\* Stack k goes on and calls those of L.
Onward(s, u, k, L) ==
  /\ DOMAIN u = DOMAIN s \cup {Append(k, l) : l \in L}
  /\ Around(s, u, k)
  /\ Goes(s, k, u[k])
  /\ \A l \in L : Begins(u[k], l, u[Append(k, l)])
  /\ Counted(u[k], Cardinality(L \cap Mods))

LEMMA AroundNear ==
  ASSUME NEW s, NEW id, NEW u, NEW k \in DOMAIN s, StackInv(s, id), Around(s, u, k)
  PROVE  \A x \in DOMAIN s : x # k =>
           /\ Near(s[x], u[x])
           /\ Aside(k, x) => u[x].way = s[x].way /\ u[x].n = s[x].n
<1>1. ASSUME NEW x \in DOMAIN s, Aside(k, x)
      PROVE  Near(s[x], u[x]) /\ u[x].way = s[x].way /\ u[x].n = s[x].n
  BY <1>1, Caller, ButFree DEF Around
<1>2. ASSUME NEW x \in DOMAIN s, x # k, ~Aside(k, x)  PROVE Near(s[x], u[x])
  <2>1. Len(k) > 1 /\ x = Front(k)
    BY <1>2, Caller DEF Aside
  <2>. QED BY <2>1 DEF Around
<1>. QED BY <1>1, <1>2

\* A listed stack, in the words of Goes.
LEMMA GoesListed ==
  ASSUME NEW s, NEW u, NEW k \in DOMAIN s, k \in DOMAIN u, Goes(s, k, u[k])
  PROVE  \A m : Listed(u, k, m) <=> Listed(s, k, m)
<1>1. /\ Len(k) = 1 => u[k].mod = s[k].mod
      /\ InList(u[k]) <=> InList(s[k])
      /\ InList(u[k]) => u[k].tgt = s[k].tgt
  BY DEF Goes
<1>. QED BY <1>1 DEF Listed, InList

LEMMA SameListed ==
  ASSUME NEW s, NEW u, NEW k \in DOMAIN s, k \in DOMAIN u, Same(s[k], u[k])
  PROVE  \A m : Listed(u, k, m) <=> Listed(s, k, m)
  BY DEF Listed, Same

LEMMA Advances ==
  ASSUME NEW s, NEW u, NEW id, NEW a, NEW k \in DOMAIN s, StackInv(s, id), ListInv(s, a),
         s[k].n > 0, NoKids(s, k), NEW L \in SUBSET Labels, Onward(s, u, k, L)
  PROVE  /\ StackInv(u, id) /\ Quiet(s, u, k, <<>>) /\ CallerSame(s, u, k)
         /\ ListInv(u, a)
<1>1. \A x \in DOMAIN s : x # k =>
        /\ Near(s[x], u[x])
        /\ Aside(k, x) => u[x].way = s[x].way /\ u[x].n = s[x].n
  BY AroundNear DEF Onward
<1>2. Grows(s, u, k, L)
  BY <1>1 DEF Onward, Grows
<1>3. StackInv(u, id)
  BY <1>2, StackGrows
<1>4. Quiet(s, u, k, <<>>)
  <2>1. \A x : ~Woken(<<>>, x)
    BY DEF Woken
  <2>2. ASSUME NEW x \in DOMAIN u, x \notin DOMAIN s
        PROVE  Len(x) # 1 /\ u[x].n = 1 /\ u[x].ev \in Starts
    <3>1. PICK l \in L : x = Append(k, l)
      BY <2>2 DEF Onward
    <3>2. Len(x) # 1
      BY <3>1, Caller, PathAppend
    <3>. QED BY <3>1, <3>2 DEF Onward, Begins
  <2>3. ASSUME NEW x \in DOMAIN s, Aside(k, x)
        PROVE  /\ x \in DOMAIN u /\ Near(s[x], u[x]) /\ u[x].way = s[x].way
               /\ Asleep(s, x) => u[x].n = 0
    <3>1. x # k
      BY <2>3 DEF Aside
    <3>. QED BY <1>1, <2>3, <3>1 DEF Onward, Asleep
  <2>4. Len(k) > 1 => Front(k) \in DOMAIN u /\ Same(s[Front(k)], u[Front(k)])
    BY <1>1, Caller, NearIsSame DEF Onward
  <2>. QED BY <2>1, <2>2, <2>3, <2>4 DEF Quiet
<1>5. CallerSame(s, u, k)
  <2>1. SUFFICES ASSUME Len(k) > 1  PROVE SameHeld(s, u, Front(k))
    BY DEF CallerSame
  <2>2. Front(k) \in DOMAIN s /\ Front(k) # k /\ Front(k) \in DOMAIN u
    BY <2>1, Caller DEF Onward
  <2>. QED BY <1>1, <2>2, NearSame
<1>6. \A x, m : Listed(u, x, m) <=> Listed(s, x, m)
  <2>1. SUFFICES ASSUME NEW x, NEW m  PROVE Listed(u, x, m) <=> Listed(s, x, m)
    OBVIOUS
  <2>2. CASE x = k
    BY <2>2, GoesListed DEF Onward
  <2>3. CASE Aside(k, x)
    BY <1>4, <2>3, Bystanders
  <2>4. CASE x # k /\ ~Aside(k, x)
    <3>1. Len(k) > 1 /\ x = Front(k)
      BY <2>4, Caller DEF Aside
    <3>2. x \in DOMAIN s /\ x \in DOMAIN u /\ Same(s[x], u[x])
      BY <1>4, <3>1, Caller DEF Quiet
    <3>. QED BY <3>2, SameListed
  <2>. QED BY <2>2, <2>3, <2>4
<1>7. ListInv(u, a)
  BY <1>6, ListKeeps
<1>. QED BY <1>3, <1>4, <1>5, <1>7

\* A step that locks and unlocks nothing.
LEMMA StepKeeps ==
  ASSUME NEW s, NEW u, NEW id, NEW l, NEW a, NEW k \in DOMAIN s,
         StackInv(s, id), LockInv(s, l), ListInv(s, a),
         s[k].n > 0, NoKids(s, k), NEW L \in SUBSET Labels, Onward(s, u, k, L),
         Locks(u[k]) <=> Locks(s[k]),
         Locks(s[k]) => Module(u[k]) = Module(s[k]) /\ u[k].way = s[k].way,
         u[k].n > 0 \/ u[k].ev # "FIND_AND_LOCK"
  PROVE  StackInv(u, id) /\ LockInv(u, l) /\ ListInv(u, a)
<1>1. /\ StackInv(u, id) /\ Quiet(s, u, k, <<>>) /\ CallerSame(s, u, k)
      /\ ListInv(u, a)
  BY Advances
<1>2. k \in DOMAIN u
  BY DEF Onward
<1>3. SameHeld(s, u, k)
  BY <1>2 DEF SameHeld, HoldsWay
<1>4. ~Asleep(u, k)
  BY DEF Asleep
<1>5. LockInv(u, l)
  BY <1>1, <1>3, <1>4, KeepsLocks
<1>. QED BY <1>1, <1>5

\* Wake, for stacks u and a queue q.
Awoken(u, q) ==
  IF q = <<>> THEN u ELSE [u EXCEPT ![Head(q)].n = 1, ![Head(q)].now = FALSE]

\* The first of a queue sleeps, and is neither k nor its caller.
LEMMA WokenAside ==
  ASSUME NEW s, NEW id, NEW l, StackInv(s, id), LockInv(s, l), NEW k \in DOMAIN s,
         s[k].n > 0, NEW m \in Mods, NEW w \in Ways(m), NEW h, Woken(Queue(l, m, w), h)
  PROVE  h \in DOMAIN s /\ Asleep(s, h) /\ Aside(k, h) /\ s[h].ev = "FIND_AND_LOCK"
<1>1. Asleep(s, h)
  <2>1. /\ Queue(l, m, w) \in Seq(Paths)
        /\ \A i \in 1..Len(Queue(l, m, w)) : WaitsFor(s, Queue(l, m, w)[i], m, w)
    BY DEF LockInv, LockShape, Queue
  <2>2. 1 \in 1..Len(Queue(l, m, w)) /\ h = Queue(l, m, w)[1]
    BY <2>1 DEF Woken
  <2>. QED BY <2>1, <2>2 DEF WaitsFor
<1>2. h \in DOMAIN s /\ s[h].ev = "FIND_AND_LOCK" /\ s[h].n = 0
  BY <1>1 DEF Asleep
<1>3. h # k
  BY <1>2
<1>4. Len(k) > 1 => s[Front(k)].ev # "FIND_AND_LOCK"
  BY Caller, CallersAwake
<1>. QED BY <1>1, <1>2, <1>3, <1>4, Caller DEF Aside

LEMMA AwokenIs ==
  ASSUME NEW u, NEW q, NEW h, q # <<>> => Head(q) \in DOMAIN u,
         \A x \in DOMAIN u : u[x] = [y \in Fields |-> u[x][y]]
  PROVE  /\ DOMAIN Awoken(u, q) = DOMAIN u
         /\ \A x \in DOMAIN u : ~Woken(q, x) => Awoken(u, q)[x] = u[x]
         /\ \A x \in DOMAIN u : Woken(q, x) =>
              But(u[x], Awoken(u, q)[x], {"n", "now"}) /\ Awoken(u, q)[x].n = 1
<1>. DEFINE t == Awoken(u, q)
<1>1. DOMAIN t = DOMAIN u
  BY DEF Awoken
<1>2. \A x \in DOMAIN u : ~Woken(q, x) => t[x] = u[x]
  BY DEF Awoken, Woken
<1>3. ASSUME NEW x \in DOMAIN u, Woken(q, x)
      PROVE  But(u[x], t[x], {"n", "now"}) /\ t[x].n = 1
  <2>1. t[x] = [u[x] EXCEPT !.n = 1, !.now = FALSE]
    BY <1>3 DEF Awoken, Woken
  <2>2. u[x] = [y \in Fields |-> u[x][y]]
    OBVIOUS
  <2>. QED BY <2>1, <2>2 DEF But, Fields
<1>. QED BY <1>1, <1>2, <1>3

\* A step that unlocks way w of module m.
LEMMA StepUnlocks ==
  ASSUME NEW s, NEW u, NEW id, NEW l, NEW a, NEW k \in DOMAIN s,
         StackInv(s, id), LockInv(s, l), ListInv(s, a),
         s[k].n > 0, NoKids(s, k), NEW m \in Mods, NEW w \in Ways(m),
         HoldsWay(s, k, m, w), Onward(s, u, k, {}), ~Locks(u[k]),
         u[k].ev # "FIND_AND_LOCK"
  PROVE  LET t == Awoken(u, Queue(l, m, w)) IN
         StackInv(t, id) /\ LockInv(t, Released(l, m, w)) /\ ListInv(t, a)
<1>. DEFINE q == Queue(l, m, w)
            t == Awoken(u, q)
<1>1. \A h : Woken(q, h) =>
        h \in DOMAIN s /\ Asleep(s, h) /\ Aside(k, h) /\ s[h].ev = "FIND_AND_LOCK"
  BY WokenAside
<1>2. /\ StackInv(u, id) /\ Quiet(s, u, k, <<>>) /\ ListInv(u, a)
  <2>1. {} \in SUBSET Labels
    OBVIOUS
  <2>. QED BY <2>1, Advances
<1>3. DOMAIN u = DOMAIN s
  BY DEF Onward
<1>4. /\ \A x \in DOMAIN u : u[x] = [y \in Fields |-> u[x][y]]
      /\ \A x \in DOMAIN u : Typed(u[x])
  BY <1>2, Caller DEF Typed
<1>. HIDE DEF q
<1>5. /\ DOMAIN t = DOMAIN u
      /\ \A x \in DOMAIN u : ~Woken(q, x) => t[x] = u[x]
      /\ \A x \in DOMAIN u : Woken(q, x) => But(u[x], t[x], {"n", "now"}) /\ t[x].n = 1
  <2>1. q # <<>> => Head(q) \in DOMAIN u
    BY <1>1, <1>3 DEF Woken
  <2>. QED BY <1>4, <2>1, AwokenIs
<1>. HIDE DEF t
<1>6. ASSUME NEW x \in DOMAIN s, Aside(k, x)
      PROVE  /\ Near(s[x], t[x]) /\ t[x].way = s[x].way
             /\ Asleep(s, x) => (t[x].n = 0 <=> ~Woken(q, x))
  <2>1. But(s[x], u[x], Free) /\ Typed(s[x])
    BY <1>6, Caller DEF Onward, Around
  <2>2. /\ Near(s[x], u[x]) /\ u[x].way = s[x].way /\ u[x].n = s[x].n
        /\ u[x].ev = s[x].ev /\ u[x].wait = s[x].wait
    BY <2>1, ButFree
  <2>3. CASE ~Woken(q, x)
    BY <1>3, <1>5, <2>2, <2>3 DEF Asleep
  <2>4. CASE Woken(q, x)
    <3>1. But(u[x], t[x], {"n", "now"}) /\ t[x].n = 1
      BY <1>3, <1>5, <2>4
    <3>2. But(s[x], t[x], Free \cup {"n", "wait"}) /\ t[x].wait = u[x].wait
      BY <2>1, <3>1 DEF But, Free, Fields
    <3>3. s[x].ev = "FIND_AND_LOCK" /\ s[x].wait = <<>>
      BY <1>1, <2>1, <2>4 DEF Typed, Sleepers
    <3>4. Near(s[x], t[x]) /\ t[x].way = s[x].way
      BY <2>1, <2>2, <3>1, <3>2, <3>3, NearWoken
    <3>. QED BY <2>4, <3>1, <3>4
  <2>. QED BY <2>3, <2>4
<1>7. t[k] = u[k] /\ k \in DOMAIN t
  <2>1. ~Woken(q, k)
    BY <1>1 DEF Aside
  <2>. QED BY <1>3, <1>5, <2>1
<1>8. ASSUME Len(k) > 1
      PROVE  /\ Front(k) \in DOMAIN s /\ Front(k) \in DOMAIN t /\ Front(k) # k
             /\ t[Front(k)] = u[Front(k)] /\ Near(s[Front(k)], t[Front(k)])
  <2>1. Front(k) \in DOMAIN s /\ Front(k) # k
    BY <1>8, Caller
  <2>2. ~Woken(q, Front(k))
    BY <1>1, <1>8 DEF Aside
  <2>3. Near(s[Front(k)], u[Front(k)])
    BY <1>8 DEF Onward, Around
  <2>. QED BY <1>3, <1>5, <2>1, <2>2, <2>3
<1>9. StackInv(t, id)
  <2>1. ASSUME NEW x \in DOMAIN s, x # k  PROVE Near(s[x], t[x])
    <3>1. Aside(k, x) \/ (Len(k) > 1 /\ x = Front(k))
      BY <2>1, Caller DEF Aside
    <3>. QED BY <1>6, <1>8, <2>1, <3>1
  <2>2. Goes(s, k, t[k]) /\ Counted(t[k], Cardinality({} \cap Mods))
    BY <1>7 DEF Onward
  <2>3. DOMAIN t = DOMAIN s \cup {Append(k, x) : x \in {}}
    BY <1>3, <1>5
  <2>4. Grows(s, t, k, {})
    BY <2>1, <2>2, <2>3 DEF Grows
  <2>5. {} \in SUBSET Labels
    OBVIOUS
  <2>. QED BY <2>4, <2>5, StackGrows
<1>10. Quiet(s, t, k, q)
  <2>1. Len(k) > 1 => Front(k) \in DOMAIN t /\ Same(s[Front(k)], t[Front(k)])
    BY <1>8, NearIsSame
  <2>. QED BY <1>3, <1>5, <1>6, <2>1 DEF Quiet
<1>11. CallerSame(s, t, k)
  BY <1>8, NearSame DEF CallerSame
<1>12. \A x, y : ~HoldsWay(t, k, x, y)
  BY <1>7 DEF HoldsWay
<1>13. ~Asleep(t, k)
  BY <1>7 DEF Asleep
<1>14. LockInv(t, Released(l, m, w))
  BY <1>10, <1>11, <1>12, <1>13, ReleasesLock DEF q
<1>15. \A x, c : Listed(t, x, c) <=> Listed(s, x, c)
  <2>1. SUFFICES ASSUME NEW x, NEW c  PROVE Listed(t, x, c) <=> Listed(s, x, c)
    OBVIOUS
  <2>2. CASE x = k
    <3>1. Goes(s, k, t[k])
      BY <1>7 DEF Onward
    <3>. QED BY <1>7, <2>2, <3>1, GoesListed
  <2>3. CASE Aside(k, x)
    BY <1>10, <2>3, Bystanders
  <2>4. CASE x # k /\ ~Aside(k, x)
    <3>1. Len(k) > 1 /\ x = Front(k)
      BY <2>4, Caller DEF Aside
    <3>2. x \in DOMAIN s /\ x \in DOMAIN t /\ Same(s[x], t[x])
      BY <1>8, <3>1, NearIsSame
    <3>. QED BY <3>2, SameListed
  <2>. QED BY <2>2, <2>3, <2>4
<1>16. ListInv(t, a)
  BY <1>15, ListKeeps
<1>. QED BY <1>9, <1>14, <1>16 DEF t, q

-----------------------------------------------------------------------------
(* Returns *)

\* Before k returns it may tell its caller.
Telling(s, u, k) ==
  /\ DOMAIN u = DOMAIN s
  /\ \A x \in DOMAIN s : Aside(k, x) => u[x] = s[x]
  /\ Len(k) > 1 => /\ u[Front(k)] = [y \in Fields |-> u[Front(k)][y]]
                   /\ u[Front(k)].wait = s[Front(k)].wait
                   /\ u[Front(k)].n \in Nat
Returned(s, u, t, k) ==
  /\ DOMAIN t = DOMAIN s \ {k}
  /\ \A x \in DOMAIN t : Aside(k, x) =>
       /\ Near(s[x], t[x]) /\ t[x].way = s[x].way
       /\ Asleep(s, x) => t[x].n = 0
  /\ Len(k) > 1 => /\ Front(k) \in DOMAIN t
                   /\ But(u[Front(k)], t[Front(k)], {"n", "now"})
                   /\ t[Front(k)].n = u[Front(k)].n + 1

LEMMA ReturnIs ==
  ASSUME NEW s, NEW id, NEW u, NEW k \in DOMAIN s, StackInv(s, id), Telling(s, u, k)
  PROVE  Returned(s, u, Return(u, k), k)
<1>. DEFINE t == Return(u, k)
            p == Front(k)
            z == WakeupStack(u, k)
            r == [x \in DOMAIN u \ {k} |-> z[x]]
<1>. USE DEF Telling
<1>1. \A x \in DOMAIN s : Typed(s[x])
  BY Caller
<1>2. k # <<>>
  BY Caller DEF Paths
<1>3. ASSUME Len(k) > 1
      PROVE  /\ p \in DOMAIN s /\ p # k /\ u[p].wait = <<>>
  <2>1. p \in DOMAIN s /\ p # k /\ s[p].ev \notin Sleepers /\ Typed(s[p])
    BY <1>3, Caller, CallersAwake
  <2>2. s[p].wait = <<>>
    BY <2>1 DEF Typed
  <2>. QED BY <1>3, <2>1, <2>2
<1>4. DOMAIN z = DOMAIN u /\ DOMAIN r = DOMAIN u \ {k}
  BY DEF WakeupStack
<1>5. t = IF Len(k) = 1 THEN r ELSE [r EXCEPT ![p].n = @ + 1, ![p].now = TRUE]
  BY DEF Return, Parent
<1>6. DOMAIN t = DOMAIN s \ {k}
  BY <1>4, <1>5
<1>7. ASSUME NEW x \in DOMAIN t, Aside(k, x)
      PROVE  /\ Near(s[x], t[x]) /\ t[x].way = s[x].way
             /\ Asleep(s, x) => t[x].n = 0
  <2>1. /\ x \in DOMAIN s /\ x # k /\ u[x] = s[x] /\ Typed(s[x])
        /\ Len(k) = 1 \/ x # p
    BY <1>1, <1>6, <1>7 DEF Aside
  <2>2. t[x] = z[x]
    BY <1>4, <1>5, <2>1
  <2>3. z[x] = IF s[x].wait = k THEN [s[x] EXCEPT !.wait = <<>>, !.n = 1, !.now = TRUE]
               ELSE s[x]
    BY <2>1 DEF WakeupStack
  <2>. HIDE DEF z, t
  <2>4. CASE s[x].wait # k
    <3>1. t[x] = s[x]
      BY <2>2, <2>3, <2>4
    <3>. QED BY <2>1, <3>1, NearSelf DEF Asleep
  <2>5. CASE s[x].wait = k
    <3>1. t[x] = [s[x] EXCEPT !.wait = <<>>, !.n = 1, !.now = TRUE]
      BY <2>2, <2>3, <2>5
    <3>2. s[x].ev \in Sleepers
      BY <1>2, <2>1, <2>5 DEF Typed
    <3>3. s[x] = [y \in Fields |-> s[x][y]]
      BY <2>1 DEF Typed
    <3>4. /\ But(s[x], t[x], Free \cup {"n", "wait"})
          /\ t[x].n = 1 /\ t[x].wait = <<>>
      BY <3>1, <3>3 DEF But, Fields, Free
    <3>5. Near(s[x], t[x]) /\ t[x].way = s[x].way
      BY <2>1, <3>2, <3>4, NearWoken
    <3>6. ~Asleep(s, x)
      BY <3>2 DEF Asleep, Sleepers
    <3>. QED BY <3>5, <3>6
  <2>. QED BY <2>4, <2>5
<1>8. ASSUME Len(k) > 1
      PROVE  /\ p \in DOMAIN t
             /\ But(u[p], t[p], {"n", "now"}) /\ t[p].n = u[p].n + 1
  <2>1. p \in DOMAIN s /\ p # k /\ u[p].wait = <<>> /\ Len(k) # 1
    BY <1>3, <1>8, Caller
  <2>2. u[p].wait # k /\ p \in DOMAIN r
    BY <1>2, <1>4, <2>1
  <2>3. r[p] = u[p]
    BY <2>1, <2>2 DEF WakeupStack
  <2>. HIDE DEF r
  <2>4. t[p] = [r[p] EXCEPT !.n = @ + 1, !.now = TRUE] /\ p \in DOMAIN t
    BY <1>5, <2>1, <2>2
  <2>5. u[p] = [y \in Fields |-> u[p][y]]
    BY <1>8
  <2>. DEFINE c == u[p].n + 1
  <2>6. t[p] = [u[p] EXCEPT !.n = c, !.now = TRUE]
    BY <2>3, <2>4
  <2>. HIDE DEF t, c
  <2>7. But(u[p], t[p], {"n", "now"}) /\ t[p].n = c
    BY <2>5, <2>6 DEF But, Fields
  <2>. QED BY <2>4, <2>7 DEF c
<1>. QED BY <1>6, <1>7, <1>8 DEF t, Returned

\* Stack k is gone, and its caller, if any, goes on.
Back(s, t, k) ==
  /\ DOMAIN t = DOMAIN s \ {k}
  /\ \A x \in DOMAIN t : Aside(k, x) => Near(s[x], t[x]) /\ t[x].way = s[x].way
  /\ Len(k) > 1 => /\ Front(k) \in DOMAIN t
                   /\ Goes(s, Front(k), t[Front(k)]) /\ Same(s[Front(k)], t[Front(k)])
                   /\ t[Front(k)].n = s[Front(k)].n + 1
                   /\ t[Front(k)].pending = s[Front(k)].pending

Drowsy(s, t, k, q) ==
  \A x \in DOMAIN t : Aside(k, x) /\ Asleep(s, x) => (t[x].n = 0 <=> ~Woken(q, x))
Gone(s, t, k) == \A x, c : Listed(t, x, c) <=> Listed(s, x, c) /\ x # k

LEMMA Returns ==
  ASSUME NEW s, NEW t, NEW id, NEW q, NEW k \in DOMAIN s, StackInv(s, id), s[k].n > 0,
         NoKids(s, k), Back(s, t, k), Drowsy(s, t, k, q)
  PROVE  StackInv(t, id) /\ Quiet(s, t, k, q) /\ Gone(s, t, k)
<1>1. StackInv(t, id)
  <2>1. \A x \in DOMAIN t : x # k
    BY DEF Back
  <2>2. \A x \in DOMAIN t : Len(k) = 1 \/ x # Front(k) => Near(s[x], t[x])
    BY <2>1 DEF Back, Aside
  <2>3. Len(k) > 1 => Module(t[Front(k)]) = Module(s[Front(k)])
                      /\ t[Front(k)].ev = s[Front(k)].ev
    BY DEF Back, Same, Module
  <2>4. Leaves(s, t, k)
    BY <2>2, <2>3 DEF Back, Leaves
  <2>. QED BY <2>4, StackLeaves
<1>2. Quiet(s, t, k, q)
  <2>1. \A x \in DOMAIN s : Aside(k, x) => x \in DOMAIN t
    BY DEF Back, Aside
  <2>. QED BY <2>1 DEF Back, Quiet, Drowsy
<1>3. ASSUME NEW x, NEW c  PROVE Listed(t, x, c) <=> Listed(s, x, c) /\ x # k
  <2>1. CASE x = k
    BY <2>1 DEF Back, Listed
  <2>2. CASE Aside(k, x)
    BY <1>2, <2>2, Bystanders DEF Aside
  <2>3. CASE x # k /\ ~Aside(k, x)
    <3>1. Len(k) > 1 /\ x = Front(k)
      BY <2>3, Caller DEF Aside
    <3>2. x \in DOMAIN s /\ x \in DOMAIN t /\ Same(s[x], t[x])
      BY <3>1, Caller DEF Back
    <3>. QED BY <2>3, <3>2, SameListed
  <2>. QED BY <2>1, <2>2, <2>3
<1>. QED BY <1>1, <1>2, <1>3 DEF Gone

\* A caller that is not waiting for a lock goes on with what it has.
LEMMA PlainCaller ==
  ASSUME NEW f, NEW g, NEW c \in Nat, Typed(f), f.ev \notin FalCallers, f.ev \notin Sleepers,
         But(f, g, {"n", "now"}), g.n = c
  PROVE  /\ Typed(g) /\ Same(f, g) /\ g.pending = f.pending /\ g.way = f.way
         /\ (FalOK(f) => FalOK(g)) /\ (EvictOK(f) => EvictOK(g))
         /\ (InvOK(f) => InvOK(g)) /\ (RequestOK(f) => RequestOK(g))
         /\ Locks(g) <=> Locks(f)
<1>1. /\ g.ev = f.ev /\ g.mod = f.mod /\ g.tgt = f.tgt /\ g.down = f.down
      /\ g.way = f.way /\ g.state = f.state /\ g.pending = f.pending
      /\ g.err = f.err /\ g.addr = f.addr /\ g.wait = f.wait
  BY DEF But, Fields
<1>2. g = [x \in Fields |-> g[x]]
  BY DEF But
<1>3. Typed(g) /\ Same(f, g)
  BY <1>1, <1>2 DEF Typed, Same
<1>4. /\ (FalOK(f) => FalOK(g)) /\ (EvictOK(f) => EvictOK(g))
      /\ (InvOK(f) => InvOK(g)) /\ (RequestOK(f) => RequestOK(g))
  BY <1>1 DEF FalOK, EvictOK, InvOK, RequestOK
<1>5. Locks(g) <=> Locks(f)
  BY <1>1 DEF Locks
<1>. QED BY <1>1, <1>3, <1>4, <1>5

\* A stack that has nothing locked, other than find_and_lock, returns.
LEMMA StepReturns ==
  ASSUME NEW s, NEW id, NEW l, NEW k \in DOMAIN s, StackInv(s, id), LockInv(s, l),
         s[k].n > 0, NoKids(s, k), ~Locks(s[k]), s[k].ev \notin FalEvs
  PROVE  LET t == Return(s, k) IN
         StackInv(t, id) /\ LockInv(t, l) /\ Gone(s, t, k)
<1>. DEFINE t == Return(s, k)
            p == Front(k)
<1>1. ASSUME Len(k) > 1
      PROVE  /\ p \in DOMAIN s /\ p # k /\ Typed(s[p]) /\ s[p].ev \notin Sleepers
             /\ s[p].n \in Nat /\ s[p] = [y \in Fields |-> s[p][y]]
             /\ s[p].ev \notin FalCallers
  <2>1. p \in DOMAIN s /\ p # k /\ Typed(s[p]) /\ Called(s[p], Last(k), s[k])
    BY <1>1, Caller
  <2>2. s[p].ev \notin FalCallers
    BY <2>1 DEF Called, FalOK, FalCallers, InvCallers, ReqCallers, Forkers
  <2>. QED BY <2>1, <2>2, CallersAwake DEF Typed
<1>2. /\ DOMAIN t = DOMAIN s \ {k}
      /\ \A x \in DOMAIN t : Aside(k, x) =>
           /\ Near(s[x], t[x]) /\ t[x].way = s[x].way
           /\ Asleep(s, x) => t[x].n = 0
      /\ Len(k) > 1 => p \in DOMAIN t /\ But(s[p], t[p], {"n", "now"}) /\ t[p].n = s[p].n + 1
  <2>1. Telling(s, s, k)
    BY <1>1 DEF Telling
  <2>2. Returned(s, s, t, k)
    BY <2>1, ReturnIs
  <2>. HIDE DEF t
  <2>. QED BY <2>2 DEF Returned
<1>. HIDE DEF t
<1>3. ASSUME Len(k) > 1
      PROVE  /\ p \in DOMAIN t /\ Goes(s, p, t[p]) /\ Same(s[p], t[p])
             /\ t[p].n = s[p].n + 1 /\ t[p].pending = s[p].pending
             /\ SameHeld(s, t, p)
  <2>. DEFINE c == s[p].n + 1
  <2>1. c \in Nat /\ t[p].n = c
    BY <1>1, <1>2, <1>3
  <2>5. Typed(s[p]) /\ s[p].ev \notin FalCallers /\ s[p].ev \notin Sleepers
    BY <1>1, <1>3
  <2>6. But(s[p], t[p], {"n", "now"})
    BY <1>2, <1>3
  <2>. HIDE DEF c, p
  <2>2. /\ Typed(t[p]) /\ Same(s[p], t[p]) /\ t[p].pending = s[p].pending
        /\ t[p].way = s[p].way
        /\ (FalOK(s[p]) => FalOK(t[p])) /\ (EvictOK(s[p]) => EvictOK(t[p]))
        /\ (InvOK(s[p]) => InvOK(t[p])) /\ (RequestOK(s[p]) => RequestOK(t[p]))
        /\ Locks(t[p]) <=> Locks(s[p])
    BY <2>1, <2>5, <2>6, PlainCaller
  <2>3. Goes(s, p, t[p])
    BY <1>1, <1>3, <2>2, SameGoes
  <2>4. SameHeld(s, t, p)
    BY <1>1, <1>2, <1>3, <2>2 DEF SameHeld, HoldsWay, Same, Module
  <2>. QED BY <1>2, <1>3, <2>1, <2>2, <2>3, <2>4 DEF c
<1>4. Back(s, t, k)
  BY <1>2, <1>3 DEF Back
<1>5. \A x : ~Woken(<<>>, x)
  BY DEF Woken
<1>6. StackInv(t, id) /\ Quiet(s, t, k, <<>>) /\ Gone(s, t, k)
  <2>1. Drowsy(s, t, k, <<>>)
    BY <1>2, <1>5 DEF Drowsy
  <2>. QED BY <1>4, <2>1, Returns
<1>7. CallerSame(s, t, k)
  BY <1>3 DEF CallerSame
<1>8. SameHeld(s, t, k) /\ ~Asleep(t, k)
  BY <1>2 DEF SameHeld, HoldsWay, Asleep
<1>9. LockInv(t, l)
  BY <1>6, <1>7, <1>8, KeepsLocks
<1>. QED BY <1>6, <1>9 DEF t

\* The stack that has called find_and_lock goes on with an error, or with a way
\* that is locked for it.
LEMMA FalCaller ==
  ASSUME NEW s, NEW id, StackInv(s, id), NEW k \in DOMAIN s, s[k].ev \in FalEvs,
         NEW g, But(s[Front(k)], g, Free \cup {"n", "err", "way", "state"}),
         g.n = 1, g.err \in BOOLEAN, g.state \in States,
         g.err \/ (s[k].mod = MM => g.state \in {"E", "M"})
  PROVE  /\ Goes(s, Front(k), g) /\ Same(s[Front(k)], g)
         /\ g.n = s[Front(k)].n + 1 /\ g.pending = s[Front(k)].pending
         /\ ~Locks(s[Front(k)]) /\ (Locks(g) <=> ~g.err) /\ Module(g) = s[k].mod
<1>. DEFINE f == s[Front(k)]
<1>1. /\ Front(k) \in DOMAIN s /\ f.ev \in FalCallers /\ f.n = 0 /\ s[k].mod = Module(f)
  BY FalFacts
<1>2. Typed(f)
  BY <1>1, Caller
<1>. HIDE DEF f
<1>3. /\ g.ev = f.ev /\ g.mod = f.mod /\ g.tgt = f.tgt /\ g.down = f.down
      /\ g.pending = f.pending /\ g.addr = f.addr /\ g.wait = f.wait
  BY DEF But, Fields, Free, f
<1>4. g = [x \in Fields |-> g[x]]
  BY DEF But
<1>12. f.ev \notin Sleepers
  BY <1>1 DEF FalCallers, Sleepers
<1>5. Typed(g) /\ Same(f, g)
  BY <1>2, <1>3, <1>4, <1>12 DEF Typed, Same
<1>6. Module(g) = Module(f)
  BY <1>3 DEF Module
<1>7. RequestOK(f) => RequestOK(g)
  <2>1. f.ev \in WriteEvs \cup ReadEvs => Module(f) = f.tgt
    BY DEF Module, WriteEvs, ReadEvs, AccessEvs, FalEvs
  <2>. QED BY <1>1, <1>3, <2>1 DEF RequestOK
<1>8. /\ (FalOK(f) => FalOK(g)) /\ (InvOK(f) => InvOK(g)) /\ (EvictOK(f) => EvictOK(g))
  BY <1>1, <1>3 DEF FalOK, InvOK, EvictOK, FalCallers, FalEvs, InvEvs
<1>9. Goes(s, Front(k), g)
  BY <1>1, <1>5, <1>7, <1>8, SameGoes DEF f
<1>10. ~Locks(f) /\ (Locks(g) <=> ~g.err)
  BY <1>1, <1>3 DEF Locks, FalCallers, Lockers
<1>11. g.n = f.n + 1
  BY <1>1
<1>. QED BY <1>1, <1>3, <1>5, <1>6, <1>9, <1>10, <1>11 DEF f

-----------------------------------------------------------------------------
(* New stacks *)

\* A stack made from a new one.
Made(f, ev, m, b, tgt, down, way) ==
  /\ f = [x \in Fields |-> f[x]]
  /\ f.ev = ev /\ f.n = 1 /\ f.wait = <<>> /\ f.mod = m /\ f.tgt = tgt
  /\ f.addr = b /\ f.down = down /\ f.state = "I" /\ f.pending = 0
  /\ f.err = FALSE /\ f.way = way

LEMMA NewStackIs ==
  ASSUME NEW ev, NEW m, NEW b
  PROVE  Made(NewStack(ev, m, b), ev, m, b, None, TRUE, 0)
<1>. DEFINE f == NewStack(ev, m, b)
<1>1. f = [x \in Fields |-> f[x]]
  BY DEF NewStack, Fields
<1>2. /\ f.ev = ev /\ f.n = 1 /\ f.wait = <<>> /\ f.mod = m /\ f.tgt = None
      /\ f.addr = b /\ f.down = TRUE /\ f.state = "I" /\ f.pending = 0
      /\ f.err = FALSE /\ f.way = 0
  BY DEF NewStack
<1>. QED BY <1>1, <1>2 DEF Made

LEMMA FalStackIs ==
  ASSUME NEW m, NEW b, NEW down, NEW blocking
  PROVE  Made(FalStack(m, b, down, blocking), "FIND_AND_LOCK", m, b, None, down, 0)
<1>. DEFINE f == NewStack("FIND_AND_LOCK", m, b)
            g == FalStack(m, b, down, blocking)
            o == None
<1>1. Made(f, "FIND_AND_LOCK", m, b, None, TRUE, 0)
  BY NewStackIs
<1>2. g = [f EXCEPT !.down = down, !.blocking = blocking]
  BY DEF FalStack
<1>. HIDE DEF f, g, o
<1>3. Made(g, "FIND_AND_LOCK", m, b, o, down, 0)
  BY <1>1, <1>2 DEF Made, Fields, o
<1>. QED BY <1>3 DEF g, o

LEMMA ReadStackIs ==
  ASSUME NEW m, NEW b, NEW peer
  PROVE  Made(ReadStack(m, b, peer), "READ_REQUEST_RECEIVE", m, b, Low[m], TRUE, 0)
<1>. DEFINE f == NewStack("READ_REQUEST_RECEIVE", m, b)
            g == ReadStack(m, b, peer)
            o == Low[m]
<1>1. Made(f, "READ_REQUEST_RECEIVE", m, b, None, TRUE, 0)
  BY NewStackIs
<1>2. g = [f EXCEPT !.now = FALSE, !.tgt = o, !.kind = "load", !.peer = peer]
  BY DEF ReadStack
<1>. HIDE DEF f, g, o
<1>3. Made(g, "READ_REQUEST_RECEIVE", m, b, o, TRUE, 0)
  BY <1>1, <1>2 DEF Made, Fields
<1>. QED BY <1>3 DEF g, o

LEMMA WriteStackIs ==
  ASSUME NEW m, NEW to, NEW b, NEW down
  PROVE  Made(WriteStack(m, to, b, down), "WRITE_REQUEST_RECEIVE", m, b, to, down, 0)
<1>. DEFINE f == NewStack("WRITE_REQUEST_RECEIVE", m, b)
            g == WriteStack(m, to, b, down)
            o == to
<1>1. Made(f, "WRITE_REQUEST_RECEIVE", m, b, None, TRUE, 0)
  BY NewStackIs
<1>2. g = [f EXCEPT !.now = FALSE, !.tgt = o, !.down = down]
  BY DEF WriteStack
<1>. HIDE DEF f, g, o
<1>3. Made(g, "WRITE_REQUEST_RECEIVE", m, b, o, down, 0)
  BY <1>1, <1>2 DEF Made, Fields
<1>. QED BY <1>3 DEF g, o

LEMMA OwnerReadIs ==
  ASSUME NEW m, NEW w, NEW b, NEW peer
  PROVE  Made(OwnerRead(m, w, b, peer), "READ_REQUEST_RECEIVE", m, b, dir[m][w].owner, FALSE, 0)
<1>. DEFINE f == NewStack("READ_REQUEST_RECEIVE", m, b)
            g == OwnerRead(m, w, b, peer)
            o == dir[m][w].owner
<1>1. Made(f, "READ_REQUEST_RECEIVE", m, b, None, TRUE, 0)
  BY NewStackIs
<1>2. g = [f EXCEPT !.now = FALSE, !.tgt = o, !.down = FALSE, !.kind = "load", !.peer = peer]
  BY DEF OwnerRead
<1>. HIDE DEF f, g, o
<1>3. Made(g, "READ_REQUEST_RECEIVE", m, b, o, FALSE, 0)
  BY <1>1, <1>2 DEF Made, Fields
<1>. QED BY <1>3 DEF g, o

LEMMA InvalidateStackIs ==
  ASSUME NEW m, NEW w, NEW except
  PROVE  Made(InvalidateStack(m, w, except), "INVALIDATE", m, None, except, TRUE, w)
<1>. DEFINE f == NewStack("INVALIDATE", m, None)
            g == InvalidateStack(m, w, except)
            o == except
<1>1. Made(f, "INVALIDATE", m, None, None, TRUE, 0)
  BY NewStackIs
<1>2. g = [f EXCEPT !.way = w, !.tgt = o]
  BY DEF InvalidateStack
<1>. HIDE DEF f, g, o
<1>3. Made(g, "INVALIDATE", m, None, o, TRUE, w)
  BY <1>1, <1>2 DEF Made, Fields
<1>. QED BY <1>3 DEF g, o

EvictStack(m, w) == [NewStack("EVICT", m, None) EXCEPT !.way = w]
LEMMA EvictStackIs ==
  ASSUME NEW m, NEW w
  PROVE  Made(EvictStack(m, w), "EVICT", m, None, None, TRUE, w)
<1>. DEFINE f == NewStack("EVICT", m, None)
            g == EvictStack(m, w)
            o == None
<1>1. Made(f, "EVICT", m, None, None, TRUE, 0)
  BY NewStackIs
<1>2. g = [f EXCEPT !.way = w]
  BY DEF EvictStack
<1>. HIDE DEF f, g, o
<1>3. Made(g, "EVICT", m, None, o, TRUE, w)
  BY <1>1, <1>2 DEF Made, Fields, o
<1>. QED BY <1>3 DEF g, o

LEMMA MadeTyped ==
  ASSUME NEW f, NEW ev, NEW m \in Mods, NEW b \in Blocks \cup {None},
         NEW to \in Mods \cup {None}, NEW down \in BOOLEAN, NEW w,
         Made(f, ev, m, b, to, down, w)
  PROVE  Typed(f) /\ f.n = 1 /\ f.ev = ev
<1>1. /\ f = [x \in Fields |-> f[x]]
      /\ f.ev = ev /\ f.n = 1 /\ f.wait = <<>> /\ f.mod = m /\ f.tgt = to
      /\ f.addr = b /\ f.down = down /\ f.state = "I" /\ f.pending = 0
      /\ f.err = FALSE
  BY DEF Made
<1>2. f.n \in Nat /\ f.pending \in Nat
  BY <1>1
<1>3. f.state \in States
  BY <1>1 DEF States
<1>4. f.err \in BOOLEAN
  BY <1>1, Zenon
<1>. QED BY <1>1, <1>2, <1>3, <1>4 DEF Typed

\* What each call begins with.
LEMMA FalBegins ==
  ASSUME NEW p, NEW b \in Blocks \cup {None}, NEW down \in BOOLEAN, NEW blocking,
         p.ev \in FalCallers, p.n = 0, NEW m \in Mods, m = Module(p)
  PROVE  Begins(p, "FAL", FalStack(m, b, down, blocking))
<1>. DEFINE f == FalStack(m, b, down, blocking)
<1>1. Made(f, "FIND_AND_LOCK", m, b, None, down, 0)
  BY FalStackIs
<1>2. Typed(f) /\ f.n = 1 /\ f.ev = "FIND_AND_LOCK"
  BY <1>1, MadeTyped
<1>. HIDE DEF f
<1>3. FalOK(f) /\ f.mod = m
  BY <1>1 DEF Made, FalOK, FalEvs
<1>4. Called(p, "FAL", f) /\ f.ev \in Starts
  BY <1>2, <1>3 DEF Called, Starts
<1>. QED BY <1>2, <1>4 DEF Begins, f

LEMMA EvictBegins ==
  ASSUME NEW p, NEW m \in Mods, NEW w \in Ways(m),
         p.ev = "FIND_AND_LOCK_FINISH", p.n = 0
  PROVE  Begins(p, "EVICT", EvictStack(m, w))
<1>. DEFINE f == EvictStack(m, w)
<1>1. Made(f, "EVICT", m, None, None, TRUE, w)
  BY EvictStackIs
<1>2. Typed(f) /\ f.n = 1 /\ f.ev = "EVICT"
  BY <1>1, MadeTyped
<1>. HIDE DEF f
<1>3. EvictOK(f)
  BY <1>1 DEF Made, EvictOK, EvictEvs
<1>4. Called(p, "EVICT", f) /\ f.ev \in Starts
  BY <1>2, <1>3 DEF Called, Starts
<1>. QED BY <1>2, <1>4 DEF Begins, f

LEMMA InvBegins ==
  ASSUME NEW p, NEW m \in Mods, NEW w \in Ways(m), NEW except \in Mods \cup {None},
         p.ev \in InvCallers, p.n = 0
  PROVE  Begins(p, "INV", InvalidateStack(m, w, except))
<1>. DEFINE f == InvalidateStack(m, w, except)
<1>1. Made(f, "INVALIDATE", m, None, except, TRUE, w)
  BY InvalidateStackIs
<1>2. Typed(f) /\ f.n = 1 /\ f.ev = "INVALIDATE"
  BY <1>1, MadeTyped
<1>. HIDE DEF f
<1>3. InvOK(f)
  BY <1>1 DEF Made, InvOK, InvEvs
<1>4. Called(p, "INV", f) /\ f.ev \in Starts
  BY <1>2, <1>3 DEF Called, Starts
<1>. QED BY <1>2, <1>4 DEF Begins, f

LEMMA RequestBegins ==
  ASSUME NEW p, NEW l, NEW f, NEW ev \in {"READ_REQUEST_RECEIVE", "WRITE_REQUEST_RECEIVE"},
         NEW m \in Mods, NEW b \in Blocks \cup {None}, NEW to \in Mods, NEW down \in BOOLEAN,
         Made(f, ev, m, b, to, down, 0),
         \/ l = "REQ" /\ p.ev \in ReqCallers /\ p.n = 0 /\ down /\ m # MM /\ to = Low[m]
         \/ l \in Mods /\ p.ev \in Forkers /\ ~down /\ to = l /\ l # MM
  PROVE  Begins(p, l, f)
<1>1. Typed(f) /\ f.n = 1 /\ f.ev = ev
  BY MadeTyped
<1>2. f.tgt = to /\ f.mod = m /\ f.down = down
  BY DEF Made
<1>3. RequestOK(f)
  BY <1>1, <1>2 DEF RequestOK, WriteEvs, ReadEvs, FalCallers
<1>4. Called(p, l, f) /\ f.ev \in Starts
  BY <1>1, <1>2, <1>3 DEF Called, Starts
<1>. QED BY <1>1, <1>4 DEF Begins

-----------------------------------------------------------------------------
(* Caches and directories after a step *)

LEMMA CacheAt ==
  ASSUME NEW b, NEW d, CacheInv(b, d), NEW m \in Mods, NEW w \in Ways(m)
  PROVE  /\ b[m][w] \in BlockType /\ d[m][w] \in EntryType
         /\ m = MM => b[m][w].state \in {"I", "E", "M"}
         /\ b[m][w].tag \in Blocks \cup {None} /\ b[m][w].state \in States
  BY DEF CacheInv, BlockType

BlockIn(m) == [tag : Blocks \cup {None},
               state : IF m = MM THEN {"I", "E", "M"} ELSE States,
               transient : Blocks \cup {None}]

LEMMA BlockChange ==
  ASSUME NEW b, NEW d, CacheInv(b, d), NEW m \in Mods, NEW w \in Ways(m), NEW c,
         DOMAIN c = Mods, \A n \in Mods : DOMAIN c[n] = Ways(n),
         \A n \in Mods : \A v \in Ways(n) : n # m \/ v # w => c[n][v] = b[n][v],
         c[m][w] \in BlockIn(m)
  PROVE  CacheInv(c, d)
<1>1. c[m][w] \in BlockType
  BY DEF BlockIn, BlockType, States
<1>2. /\ DOMAIN d = Mods
      /\ \A n \in Mods : DOMAIN d[n] = Ways(n)
      /\ \A n \in Mods : \A v \in Ways(n) : d[n][v] \in EntryType
      /\ \A n \in Mods : \A v \in Ways(n) : b[n][v] \in BlockType
      /\ \A v \in Ways(MM) : b[MM][v].state \in {"I", "E", "M"}
  BY DEF CacheInv
<1>3. ASSUME NEW v \in Ways(MM)  PROVE c[MM][v].state \in {"I", "E", "M"}
  <2>1. CASE m = MM /\ v = w
    BY <2>1 DEF BlockIn
  <2>2. CASE m # MM \/ v # w
    BY <1>2, <1>3, <2>2, TreeAssumption
  <2>. QED BY <2>1, <2>2
<1>4. ASSUME NEW n \in Mods, NEW v \in Ways(n)  PROVE c[n][v] \in BlockType
  BY <1>1, <1>2, <1>4
<1>. QED BY <1>2, <1>3, <1>4 DEF CacheInv

LEMMA SetBlockKeeps ==
  ASSUME NEW b, NEW d, CacheInv(b, d), NEW m \in Mods, NEW w \in Ways(m),
         NEW tag \in Blocks \cup {None}, NEW st \in States,
         m = MM => st \in {"I", "E", "M"}
  PROVE  CacheInv(SetBlock(b, m, w, tag, st), d)
<1>. DEFINE c == SetBlock(b, m, w, tag, st)
<1>1. /\ DOMAIN b = Mods
      /\ \A n \in Mods : DOMAIN b[n] = Ways(n)
      /\ b[m][w] \in BlockType
  BY DEF CacheInv
<1>2. DOMAIN c = Mods /\ \A n \in Mods : DOMAIN c[n] = Ways(n)
  BY <1>1 DEF SetBlock
<1>3. \A n \in Mods : \A v \in Ways(n) : n # m \/ v # w => c[n][v] = b[n][v]
  BY <1>1 DEF SetBlock
<1>4. c[m][w] = [b[m][w] EXCEPT !.tag = tag, !.state = st]
  BY <1>1 DEF SetBlock
<1>. HIDE DEF c
<1>5. c[m][w] \in BlockIn(m)
  BY <1>1, <1>4 DEF BlockType, BlockIn
<1>6. CacheInv(c, d)
  BY <1>2, <1>3, <1>5, BlockChange
<1>. QED BY <1>6 DEF c

\* A way that is not there is not written.
LEMMA NoSuchWay ==
  ASSUME NEW b, NEW d, CacheInv(b, d), NEW m \in Mods, NEW w, w \notin Ways(m),
         NEW tag, NEW st
  PROVE  CacheInv(SetBlock(b, m, w, tag, st), d)
<1>. DEFINE c == SetBlock(b, m, w, tag, st)
<1>1. DOMAIN b = Mods /\ \A n \in Mods : DOMAIN b[n] = Ways(n)
  BY DEF CacheInv
<1>2. DOMAIN c = Mods /\ \A n \in Mods : DOMAIN c[n] = Ways(n)
  BY <1>1 DEF SetBlock
<1>3. \A n \in Mods : \A v \in Ways(n) : c[n][v] = b[n][v]
  BY <1>1 DEF SetBlock
<1>. HIDE DEF c
<1>4. CacheInv(c, d)
  BY <1>2, <1>3, TreeAssumption DEF CacheInv
<1>. QED BY <1>4 DEF c

LEMMA TransientKeeps ==
  ASSUME NEW b, NEW d, CacheInv(b, d), NEW m \in Mods, NEW w \in Ways(m),
         NEW tag \in Blocks \cup {None}
  PROVE  CacheInv([b EXCEPT ![m][w].transient = tag], d)
<1>. DEFINE c == [b EXCEPT ![m][w].transient = tag]
<1>1. /\ DOMAIN b = Mods
      /\ \A n \in Mods : DOMAIN b[n] = Ways(n)
      /\ b[m][w] \in BlockType
      /\ m = MM => b[m][w].state \in {"I", "E", "M"}
  BY DEF CacheInv
<1>2. DOMAIN c = Mods /\ \A n \in Mods : DOMAIN c[n] = Ways(n)
  BY <1>1
<1>3. \A n \in Mods : \A v \in Ways(n) : n # m \/ v # w => c[n][v] = b[n][v]
  BY <1>1
<1>4. c[m][w] = [b[m][w] EXCEPT !.transient = tag]
  BY <1>1
<1>. HIDE DEF c
<1>5. c[m][w] \in BlockIn(m)
  BY <1>1, <1>4 DEF BlockType, BlockIn
<1>6. CacheInv(c, d)
  BY <1>2, <1>3, <1>5, BlockChange
<1>. QED BY <1>6 DEF c

LEMMA EntryKeeps ==
  ASSUME NEW b, NEW d, CacheInv(b, d), NEW m \in Mods, NEW w \in Ways(m),
         NEW e \in EntryType
  PROVE  CacheInv(b, [d EXCEPT ![m][w] = e])
<1>. DEFINE c == [d EXCEPT ![m][w] = e]
<1>1. /\ DOMAIN b = Mods /\ DOMAIN d = Mods
      /\ \A n \in Mods : DOMAIN b[n] = Ways(n) /\ DOMAIN d[n] = Ways(n)
      /\ \A n \in Mods : \A v \in Ways(n) : b[n][v] \in BlockType /\ d[n][v] \in EntryType
      /\ \A v \in Ways(MM) : b[MM][v].state \in {"I", "E", "M"}
  BY DEF CacheInv
<1>2. DOMAIN c = Mods /\ \A n \in Mods : DOMAIN c[n] = Ways(n)
  BY <1>1
<1>3. \A n \in Mods : \A v \in Ways(n) : n # m \/ v # w => c[n][v] = d[n][v]
  BY <1>1
<1>4. c[m][w] = e
  BY <1>1
<1>. HIDE DEF c
<1>5. \A n \in Mods : \A v \in Ways(n) : c[n][v] \in EntryType
  BY <1>1, <1>3, <1>4
<1>6. CacheInv(b, c)
  BY <1>1, <1>2, <1>5 DEF CacheInv
<1>. QED BY <1>6 DEF c

-----------------------------------------------------------------------------
(* What the operations on stacks do *)

\* From s to u, stack k changes in the fields F, and no other stack.
Changed(s, u, k, F) ==
  /\ DOMAIN u = DOMAIN s
  /\ \A x \in DOMAIN s : x # k => u[x] = s[x]
  /\ But(s[k], u[k], F)

\* All stacks have all fields.
Whole(s) == \A x \in DOMAIN s : s[x] = [y \in Fields |-> s[x][y]]

LEMMA WholeStacks ==
  ASSUME NEW s, NEW id, StackInv(s, id)
  PROVE  Whole(s)
  BY Caller DEF Whole, Typed

LEMMA GotoIs ==
  ASSUME NEW s, NEW k \in DOMAIN s, NEW ev, Whole(s)
  PROVE  /\ Changed(s, Goto(s, k, ev), k, {"ev", "now"}) /\ Goto(s, k, ev)[k].ev = ev
         /\ Changed(s, Later(s, k, ev), k, {"ev", "now"}) /\ Later(s, k, ev)[k].ev = ev
<1>. DEFINE u == Goto(s, k, ev)
            v == Later(s, k, ev)
            f == s[k]
<1>1. /\ DOMAIN u = DOMAIN s /\ \A x \in DOMAIN s : x # k => u[x] = s[x]
      /\ u[k] = [f EXCEPT !.ev = ev, !.now = TRUE]
  BY DEF Goto
<1>2. /\ DOMAIN v = DOMAIN s /\ \A x \in DOMAIN s : x # k => v[x] = s[x]
      /\ v[k] = [f EXCEPT !.ev = ev, !.now = FALSE]
  BY DEF Later
<1>3. f = [y \in Fields |-> f[y]]
  BY DEF Whole
<1>. HIDE DEF u, v, f
<1>4. But(f, u[k], {"ev", "now"}) /\ u[k].ev = ev
  BY <1>1, <1>3 DEF But, Fields
<1>5. But(f, v[k], {"ev", "now"}) /\ v[k].ev = ev
  BY <1>2, <1>3 DEF But, Fields
<1>6. Changed(s, u, k, {"ev", "now"}) /\ u[k].ev = ev
  BY <1>1, <1>4 DEF Changed, f
<1>7. Changed(s, v, k, {"ev", "now"}) /\ v[k].ev = ev
  BY <1>2, <1>5 DEF Changed, f
<1>. QED BY <1>6, <1>7 DEF u, v

LEMMA WaitIs ==
  ASSUME NEW s, NEW k \in DOMAIN s, NEW ev, NEW o, Whole(s)
  PROVE  LET u == WaitInStack(s, k, o, ev) IN
         /\ Changed(s, u, k, {"ev", "n", "wait"})
         /\ u[k].ev = ev /\ u[k].n = 0 /\ u[k].wait = o
<1>. DEFINE u == WaitInStack(s, k, o, ev)
            f == s[k]
<1>1. /\ DOMAIN u = DOMAIN s /\ \A x \in DOMAIN s : x # k => u[x] = s[x]
      /\ u[k] = [f EXCEPT !.ev = ev, !.n = 0, !.wait = o]
  BY DEF WaitInStack
<1>2. f = [y \in Fields |-> f[y]]
  BY DEF Whole
<1>. HIDE DEF u, f
<1>3. But(f, u[k], {"ev", "n", "wait"}) /\ u[k].ev = ev /\ u[k].n = 0 /\ u[k].wait = o
  BY <1>1, <1>2 DEF But, Fields
<1>4. Changed(s, u, k, {"ev", "n", "wait"})
  BY <1>1, <1>3 DEF Changed, f
<1>. QED BY <1>3, <1>4 DEF u

\* In u, stack k has called f under label l.
Calling(s, u, k, l, f) ==
  /\ DOMAIN u = DOMAIN s \cup {Append(k, l)}
  /\ \A x \in DOMAIN s : x # k => u[x] = s[x]
  /\ But(s[k], u[k], {"ev", "n"}) /\ u[Append(k, l)] = f

LEMMA CallIs ==
  ASSUME NEW s, NEW k \in DOMAIN s, NEW ev, NEW l, NEW f, Whole(s), s[k].n = 1,
         Append(k, l) \notin DOMAIN s
  PROVE  /\ Calling(s, Call(s, k, ev, l, f), k, l, f)
         /\ Call(s, k, ev, l, f)[k].ev = ev /\ Call(s, k, ev, l, f)[k].n = 0
<1>. DEFINE u == Call(s, k, ev, l, f)
            r == [s EXCEPT ![k].ev = ev, ![k].n = @ - 1]
            a == Append(k, l)
            g == s[k]
<1>1. u = [x \in DOMAIN r \cup {a} |-> IF x = a THEN f ELSE r[x]]
  BY DEF Call, Put
<1>2. /\ DOMAIN r = DOMAIN s /\ \A x \in DOMAIN s : x # k => r[x] = s[x]
      /\ r[k] = [g EXCEPT !.ev = ev, !.n = 0]
  OBVIOUS
<1>3. g = [y \in Fields |-> g[y]]
  BY DEF Whole
<1>. HIDE DEF u, r, g
<1>4. /\ DOMAIN u = DOMAIN s \cup {a} /\ \A x \in DOMAIN s : x # k => u[x] = s[x]
      /\ u[a] = f /\ u[k] = r[k]
  BY <1>1, <1>2
<1>7. u[k] = [g EXCEPT !.ev = ev, !.n = 0]
  BY <1>2, <1>4
<1>5. But(g, u[k], {"ev", "n"}) /\ u[k].ev = ev /\ u[k].n = 0
  BY <1>3, <1>7 DEF But, Fields
<1>6. Calling(s, u, k, l, f)
  BY <1>4, <1>5 DEF Calling, g
<1>. QED BY <1>5, <1>6 DEF u

-----------------------------------------------------------------------------
(* Steps by what they do to the stacks *)

\* The stacks, the locks and the lists agree.
Sound(s, l, a) == StackInv(s, nextId) /\ LockInv(s, l) /\ ListInv(s, a)

\* Beside k, a step at most tells the caller.
Beside(s, u, k) ==
  \A x \in DOMAIN s : x # k =>
    \/ But(s[x], u[x], Free)
    \/ /\ Len(k) > 1 /\ x = Front(k)
       /\ But(s[x], u[x], Free \cup {"err"}) /\ u[x].err \in BOOLEAN

LEMMA BesideAround ==
  ASSUME NEW s, NEW id, NEW u, NEW k \in DOMAIN s, StackInv(s, id), Beside(s, u, k)
  PROVE  Around(s, u, k)
<1>1. \A x \in DOMAIN s : Aside(k, x) => But(s[x], u[x], Free)
  <2>1. \A x \in DOMAIN s : Aside(k, x) => x # k /\ ~(Len(k) > 1 /\ x = Front(k))
    BY Caller DEF Aside
  <2>. QED BY <2>1 DEF Beside
<1>2. ASSUME Len(k) > 1  PROVE Near(s[Front(k)], u[Front(k)])
  <2>. DEFINE p == Front(k)
  <2>1. p \in DOMAIN s /\ p # k /\ Typed(s[p]) /\ Called(s[p], Last(k), s[k])
    BY <1>2, Caller
  <2>2. s[p].ev \notin FalCallers \/ s[p].n = 0
    BY <2>1 DEF Called, FalCallers, InvCallers, ReqCallers, Forkers
  <2>. HIDE DEF p
  <2>3. \/ But(s[p], u[p], Free)
        \/ But(s[p], u[p], Free \cup {"err"}) /\ u[p].err \in BOOLEAN
    BY <2>1 DEF Beside
  <2>4. CASE But(s[p], u[p], Free)
    BY <2>1, <2>4, NearFields DEF p
  <2>5. CASE But(s[p], u[p], Free \cup {"err"}) /\ u[p].err \in BOOLEAN
    BY <2>1, <2>2, <2>5, NearError DEF p
  <2>. QED BY <2>3, <2>4, <2>5
<1>. QED BY <1>1, <1>2 DEF Around

\* Stack k goes on alone.
Alone(s, u, k) ==
  /\ DOMAIN u = DOMAIN s /\ Beside(s, u, k)
  /\ Goes(s, k, u[k]) /\ Counted(u[k], 0)

LEMMA AloneOnward ==
  ASSUME NEW s, NEW id, NEW u, NEW k \in DOMAIN s, StackInv(s, id), Alone(s, u, k)
  PROVE  Onward(s, u, k, {})
<1>1. Around(s, u, k)
  BY BesideAround DEF Alone
<1>2. Cardinality({} \cap Mods) = 0
  BY FS_EmptySet
<1>3. DOMAIN u = DOMAIN s \cup {Append(k, x) : x \in {}}
  BY DEF Alone
<1>. QED BY <1>1, <1>2, <1>3 DEF Alone, Onward

\* Stack k calls one stack under label l, and waits.
CallsOne(s, u, k, l) ==
  /\ DOMAIN u = DOMAIN s \cup {Append(k, l)} /\ Beside(s, u, k)
  /\ Goes(s, k, u[k]) /\ Counted(u[k], 0)
  /\ l \in {"FAL", "EVICT", "INV", "REQ"} /\ Begins(u[k], l, u[Append(k, l)])

LEMMA CallsOnward ==
  ASSUME NEW s, NEW id, NEW u, NEW k \in DOMAIN s, NEW l, StackInv(s, id),
         CallsOne(s, u, k, l)
  PROVE  Onward(s, u, k, {l}) /\ {l} \in SUBSET Labels
<1>1. Around(s, u, k)
  BY BesideAround DEF CallsOne
<1>2. l \notin Mods /\ l \in Labels
  BY TreeAssumption DEF CallsOne, Labels
<1>3. {l} \cap Mods = {}
  BY <1>2
<1>4. Cardinality({l} \cap Mods) = 0
  BY <1>3, FS_EmptySet
<1>5. DOMAIN u = DOMAIN s \cup {Append(k, x) : x \in {l}}
  BY DEF CallsOne
<1>. QED BY <1>1, <1>2, <1>4, <1>5 DEF CallsOne, Onward

\* Stack k keeps the way it has locked, if any.
KeepsWay(f, g) ==
  /\ Locks(g) <=> Locks(f)
  /\ Locks(f) => Module(g) = Module(f) /\ g.way = f.way
  /\ g.ev # "FIND_AND_LOCK"

LEMMA GoesOn ==
  ASSUME NEW s, NEW u, NEW l, NEW a, NEW k \in DOMAIN s, Sound(s, l, a), s[k].n > 0,
         NoKids(s, k), Alone(s, u, k), KeepsWay(s[k], u[k])
  PROVE  Sound(u, l, a)
<1>1. Onward(s, u, k, {}) /\ {} \in SUBSET Labels
  BY AloneOnward DEF Sound
<1>. QED BY <1>1, StepKeeps DEF Sound, KeepsWay

LEMMA CallsOn ==
  ASSUME NEW s, NEW u, NEW l, NEW a, NEW k \in DOMAIN s, NEW c, Sound(s, l, a),
         s[k].n > 0, NoKids(s, k), CallsOne(s, u, k, c), KeepsWay(s[k], u[k])
  PROVE  Sound(u, l, a)
<1>1. Onward(s, u, k, {c}) /\ {c} \in SUBSET Labels
  BY CallsOnward DEF Sound
<1>. DEFINE L == {c}
<1>2. Onward(s, u, k, L) /\ L \in SUBSET Labels
  BY <1>1
<1>. HIDE DEF L
<1>. QED BY <1>2, StepKeeps DEF Sound, KeepsWay

LEMMA UnlocksOn ==
  ASSUME NEW s, NEW u, NEW a, NEW k \in DOMAIN s, Sound(s, lock, a), s[k].n > 0,
         NoKids(s, k), Alone(s, u, k), Locks(s[k]), ~Locks(u[k]),
         u[k].ev # "FIND_AND_LOCK"
  PROVE  Sound(Wake(u, Module(s[k]), s[k].way), Unlocked(Module(s[k]), s[k].way), a)
<1>. DEFINE m == Module(s[k])
            w == s[k].way
<1>1. m \in Mods /\ w \in Ways(m) /\ HoldsWay(s, k, m, w)
  BY LockedWay DEF Sound
<1>2. Onward(s, u, k, {})
  BY AloneOnward DEF Sound
<1>. HIDE DEF m, w
<1>3. Wake(u, m, w) = Awoken(u, Queue(lock, m, w))
  BY DEF Wake, Awoken, Queue
<1>4. Unlocked(m, w) = Released(lock, m, w)
  BY DEF Unlocked, Released
<1>. DEFINE t == Awoken(u, Queue(lock, m, w))
<1>5. StackInv(t, nextId) /\ LockInv(t, Released(lock, m, w)) /\ ListInv(t, a)
  BY <1>1, <1>2, StepUnlocks DEF Sound
<1>. QED BY <1>3, <1>4, <1>5 DEF Sound, m, w

LEMMA ReturnsOn ==
  ASSUME NEW s, NEW l, NEW a, NEW k \in DOMAIN s, Sound(s, l, a), s[k].n > 0,
         NoKids(s, k), ~Locks(s[k]), s[k].ev \notin FalEvs, \A m : ~Listed(s, k, m)
  PROVE  Sound(Return(s, k), l, a)
<1>. DEFINE t == Return(s, k)
<1>1. StackInv(t, nextId) /\ LockInv(t, l) /\ Gone(s, t, k)
  BY StepReturns DEF Sound
<1>. HIDE DEF t
<1>2. \A x, c : Listed(t, x, c) <=> Listed(s, x, c)
  BY <1>1 DEF Gone
<1>3. ListInv(t, a)
  BY <1>2, ListKeeps DEF Sound
<1>. QED BY <1>1, <1>3 DEF Sound, t

LEMMA ReturnsUnlinked ==
  ASSUME NEW s, NEW l, NEW a, NEW k \in DOMAIN s, Sound(s, l, a), s[k].n > 0,
         NoKids(s, k), ~Locks(s[k]), s[k].ev \notin FalEvs,
         NEW m \in Mods, \A c : Listed(s, k, c) <=> c = m
  PROVE  Sound(Return(s, k), l, [a EXCEPT ![m] = Unlinked(@, k)])
<1>. DEFINE t == Return(s, k)
            b == [a EXCEPT ![m] = Unlinked(@, k)]
<1>1. StackInv(t, nextId) /\ LockInv(t, l) /\ Gone(s, t, k)
  BY StepReturns DEF Sound
<1>. HIDE DEF t
<1>2. \A x, c : Listed(t, x, c) <=> Listed(s, x, c) /\ x # k
  BY <1>1 DEF Gone
<1>3. ListInv(t, b)
  BY <1>2, ListUnlinks DEF Sound
<1>. QED BY <1>1, <1>3 DEF Sound, t

-----------------------------------------------------------------------------
(* A stack goes on in another event *)

LEMMA Running ==
  ASSUME NEW s, NEW id, StackInv(s, id), NEW k \in DOMAIN s, s[k].n > 0
  PROVE  /\ k \in Paths /\ Typed(s[k]) /\ s[k].wait = <<>>
         /\ s[k].ev \notin Forkers => s[k].n = 1 /\ NoKids(s, k)
         /\ \A l : NoKids(s, k) /\ l \in Labels => Append(k, l) \notin DOMAIN s
<1>1. k \in Paths /\ Typed(s[k])
  BY Caller
<1>2. s[k].wait = <<>>
  BY <1>1 DEF Typed
<1>3. ASSUME s[k].ev \notin Forkers  PROVE s[k].n = 1 /\ NoKids(s, k)
  <2>1. Counted(s[k], Cardinality(Kids(s, k)))
    BY DEF StackInv, Counts
  <2>. QED BY <1>3, <2>1, Childless DEF Counted
<1>4. ASSUME NEW l \in Labels, NoKids(s, k)  PROVE Append(k, l) \notin DOMAIN s
  <2>1. Len(Append(k, l)) > 1 /\ Front(Append(k, l)) = k
    BY <1>1, PathAppend
  <2>. QED BY <1>4, <2>1 DEF NoKids
<1>. QED BY <1>1, <1>2, <1>3, <1>4

\* What a stack keeps when its event changes.
Kept(f, g) ==
  /\ g.mod = f.mod /\ g.tgt = f.tgt /\ g.down = f.down /\ g.way = f.way
  /\ g.state = f.state /\ g.err = f.err /\ g.addr = f.addr

LEMMA MovedFields ==
  ASSUME NEW f, NEW g, Typed(f), But(f, g, Free \cup {"ev", "n", "pending"}),
         g.n \in Nat, g.pending \in Nat, f.wait = <<>>
  PROVE  Typed(g) /\ Kept(f, g)
<1>1. /\ g.mod = f.mod /\ g.tgt = f.tgt /\ g.down = f.down
      /\ g.way = f.way /\ g.state = f.state
      /\ g.err = f.err /\ g.addr = f.addr /\ g.wait = f.wait
  BY DEF But, Free, Fields
<1>2. g = [x \in Fields |-> g[x]]
  BY DEF But
<1>. QED BY <1>1, <1>2 DEF Typed, Kept

LEMMA AccessMoves ==
  ASSUME NEW s, NEW id, StackInv(s, id), NEW k \in DOMAIN s, s[k].ev \in AccessEvs, s[k].n > 0,
         NEW g, But(s[k], g, Free \cup {"ev", "n"}), g.n \in {0, 1}, g.ev \in AccessEvs
  PROVE  Goes(s, k, g) /\ Counted(g, 0) /\ Kept(s[k], g) /\ Module(g) = Module(s[k])
<1>1. Typed(s[k]) /\ s[k].wait = <<>>
  BY Running
<1>2. /\ But(s[k], g, Free \cup {"ev", "n", "pending"})
      /\ g.pending = s[k].pending
  BY DEF But, Free, Fields
<1>3. g.n \in Nat /\ g.pending \in Nat
  BY <1>1, <1>2 DEF Typed
<1>4. Typed(g) /\ Kept(s[k], g)
  BY <1>1, <1>2, <1>3, MovedFields
<1>5. Goes(s, k, g)
  BY <1>4, AccessGoes DEF Kept
<1>6. Counted(g, 0)
  BY DEF Counted, AccessEvs, Forkers
<1>. QED BY <1>4, <1>5, <1>6 DEF Kept, Module

LEMMA FalMoves ==
  ASSUME NEW s, NEW id, StackInv(s, id), NEW k \in DOMAIN s, s[k].ev \in FalEvs, s[k].n > 0,
         NEW g, But(s[k], g, Free \cup {"ev", "n"}), g.n \in {0, 1}, g.ev \in FalEvs
  PROVE  Goes(s, k, g) /\ Counted(g, 0) /\ Kept(s[k], g) /\ Module(g) = Module(s[k])
<1>1. Typed(s[k]) /\ s[k].wait = <<>>
  BY Running
<1>2. /\ But(s[k], g, Free \cup {"ev", "n", "pending"})
      /\ g.pending = s[k].pending
  BY DEF But, Free, Fields
<1>3. g.n \in Nat /\ g.pending \in Nat
  BY <1>1, <1>2 DEF Typed
<1>4. Typed(g) /\ Kept(s[k], g)
  BY <1>1, <1>2, <1>3, MovedFields
<1>5. FalOK(g)
  BY <1>4, FalFacts DEF Kept, FalOK
<1>6. Goes(s, k, g)
  BY <1>4, <1>5, FalGoes DEF Kept
<1>7. Counted(g, 0)
  BY DEF Counted, FalEvs, Forkers
<1>. QED BY <1>4, <1>6, <1>7 DEF Kept, Module

LEMMA EvictMoves ==
  ASSUME NEW s, NEW id, StackInv(s, id), NEW k \in DOMAIN s, s[k].ev \in EvictEvs, s[k].n > 0,
         s[k].ev # "EVICT", NEW g, But(s[k], g, Free \cup {"ev", "n"}), g.n \in {0, 1},
         g.ev \in EvictEvs \ {"EVICT", "EVICT_INVALID"}, s[k].mod # MM
  PROVE  Goes(s, k, g) /\ Counted(g, 0) /\ Kept(s[k], g) /\ Module(g) = Module(s[k])
<1>1. Typed(s[k]) /\ s[k].wait = <<>>
  BY Running
<1>2. /\ But(s[k], g, Free \cup {"ev", "n", "pending"})
      /\ g.pending = s[k].pending
  BY DEF But, Free, Fields
<1>3. g.n \in Nat /\ g.pending \in Nat
  BY <1>1, <1>2 DEF Typed
<1>4. Typed(g) /\ Kept(s[k], g)
  BY <1>1, <1>2, <1>3, MovedFields
<1>5. EvictOK(g)
  BY <1>4, EvictFacts DEF Kept, EvictOK
<1>6. Goes(s, k, g)
  BY <1>4, <1>5, EvictGoes DEF Kept
<1>7. Counted(g, 0)
  BY DEF Counted, EvictEvs, Forkers
<1>8. Module(g) = Module(s[k])
  BY <1>4 DEF Module, Kept, EvictEvs, AccessEvs, FalEvs
<1>. QED BY <1>4, <1>6, <1>7, <1>8

LEMMA RequestMoves ==
  ASSUME NEW s, NEW id, StackInv(s, id), NEW k \in DOMAIN s, s[k].ev \in WriteEvs \cup ReadEvs,
         s[k].n > 0, NEW g, But(s[k], g, Free \cup {"ev", "n", "pending"}), g.n \in Nat,
         g.pending \in Nat, RequestOK(g), InList(g) <=> InList(s[k])
  PROVE  Goes(s, k, g) /\ Kept(s[k], g) /\ Module(g) = Module(s[k])
<1>1. Typed(s[k]) /\ s[k].wait = <<>>
  BY Running
<1>2. Typed(g) /\ Kept(s[k], g)
  BY <1>1, MovedFields
<1>3. Goes(s, k, g)
  BY <1>2, RequestGoes DEF Kept
<1>4. Module(g) = Module(s[k])
  BY <1>2 DEF Module, Kept, RequestOK, WriteEvs, ReadEvs, AccessEvs, FalEvs
<1>. QED BY <1>2, <1>3, <1>4

LEMMA ChangedBeside ==
  ASSUME NEW s, NEW id, NEW u, NEW k, NEW F, StackInv(s, id), Changed(s, u, k, F)
  PROVE  DOMAIN u = DOMAIN s /\ Beside(s, u, k)
  BY Caller, ButSelf DEF Changed, Beside

\* Stack k waits in an older one, in the same event.
LEMMA WaitsOn ==
  ASSUME NEW l, NEW a, NEW k \in DOMAIN stk, Sound(stk, l, a), stk[k].n > 0, NEW o,
         stk[k].ev \in {"LOAD_LOCK", "STORE_LOCK", "READ_REQUEST_LOCK"}
  PROVE  Sound(WaitInStack(stk, k, o, stk[k].ev), l, a)
<1>. DEFINE u == WaitInStack(stk, k, o, stk[k].ev)
            f == stk[k]
            g == u[k]
<1>1. StackInv(stk, nextId)
  BY DEF Sound
<1>2. /\ Typed(f) /\ NoKids(stk, k)
  BY <1>1, Running DEF Forkers
<1>3. /\ Changed(stk, u, k, {"ev", "n", "wait"}) /\ g.ev = f.ev /\ g.n = 0
  BY <1>1, WholeStacks, WaitIs
<1>4. DOMAIN u = DOMAIN stk /\ Beside(stk, u, k)
  BY <1>1, <1>3, ChangedBeside
<1>5. But(f, g, {"ev", "n", "wait"})
  BY <1>3 DEF Changed
<1>. HIDE DEF u, f, g
<1>6. /\ g.mod = f.mod /\ g.tgt = f.tgt /\ g.down = f.down
      /\ g.way = f.way /\ g.state = f.state /\ g.pending = f.pending
      /\ g.err = f.err /\ g.addr = f.addr /\ g = [x \in Fields |-> g[x]]
  BY <1>5 DEF But, Fields
<1>7. Typed(g) /\ Same(f, g)
  BY <1>2, <1>3, <1>6 DEF Typed, Same, Sleepers, f
<1>8. /\ (FalOK(f) => FalOK(g)) /\ (EvictOK(f) => EvictOK(g))
      /\ (InvOK(f) => InvOK(g)) /\ (RequestOK(f) => RequestOK(g))
  BY <1>3, <1>6 DEF FalOK, EvictOK, InvOK, RequestOK, FalCallers, f
<1>9. Goes(stk, k, g)
  BY <1>1, <1>7, <1>8, SameGoes DEF f
<1>10. Counted(g, 0)
  BY <1>3 DEF Counted, Forkers, f
<1>11. Alone(stk, u, k)
  BY <1>4, <1>9, <1>10 DEF Alone, g
<1>12. KeepsWay(f, g)
  BY <1>3 DEF KeepsWay, Locks, Lockers, FalCallers, f
<1>. QED BY <1>2, <1>11, <1>12, GoesOn DEF u, f, g

\* Stack k may call from event ev, and is then at work on module m.
MayCall(k, ev, m) ==
  \A g : But(stk[k], g, {"ev", "n"}) /\ g.ev = ev /\ g.n = 0
         => Goes(stk, k, g) /\ Module(g) = m

\* Stack k calls find_and_lock.
LEMMA CallsFal ==
  ASSUME NEW l, NEW a, NEW k \in DOMAIN stk, Sound(stk, l, a), stk[k].n > 0,
         NEW ev \in FalCallers, stk[k].ev \notin Forkers, ~Locks(stk[k]),
         NEW m \in Mods, NEW b \in Blocks \cup {None}, NEW down \in BOOLEAN, NEW blocking, MayCall(k, ev, m)
  PROVE  Sound(Call(stk, k, ev, "FAL", FalStack(m, b, down, blocking)), l, a)
<1>. DEFINE f == FalStack(m, b, down, blocking)
            u == Call(stk, k, ev, "FAL", f)
            g == u[k]
<1>1. StackInv(stk, nextId)
  BY DEF Sound
<1>2. /\ NoKids(stk, k) /\ stk[k].n = 1 /\ Append(k, "FAL") \notin DOMAIN stk
  BY <1>1, Running DEF Labels
<1>3. Calling(stk, u, k, "FAL", f) /\ g.ev = ev /\ g.n = 0
  BY <1>1, <1>2, WholeStacks, CallIs
<1>. HIDE DEF u, f, g
<1>4. Goes(stk, k, g) /\ Module(g) = m
  BY <1>3 DEF Calling, MayCall, g
<1>5. Begins(g, "FAL", f)
  BY <1>3, <1>4, FalBegins DEF f
<1>6. Counted(g, 0)
  BY <1>3 DEF Counted, FalCallers, Forkers
<1>7. Beside(stk, u, k)
  BY <1>1, <1>3, Caller, ButSelf DEF Calling, Beside
<1>8. CallsOne(stk, u, k, "FAL")
  BY <1>3, <1>4, <1>5, <1>6, <1>7 DEF CallsOne, Calling, g
<1>9. KeepsWay(stk[k], g)
  BY <1>3 DEF KeepsWay, Locks, Lockers, FalCallers
<1>. QED BY <1>2, <1>8, <1>9, CallsOn DEF u, f, g

-----------------------------------------------------------------------------
(* The handlers of loads and stores *)

LEMMA ButMore ==
  ASSUME NEW f, NEW g, NEW F, NEW G, F \subseteq G, But(f, g, F)
  PROVE  But(f, g, G)
  BY DEF But

LEMMA FreshKeeps ==
  ASSUME NmoesiInv, NEW b, NEW e \in SUBSET Mods
  PROVE  [fresh EXCEPT ![b] = e] \in [Blocks -> SUBSET Mods]
  BY DEF NmoesiInv

LEMMA ReceiveKeeps ==
  ASSUME NmoesiInv, NEW m \in Mods, NEW b, NEW good
  PROVE  Receive(m, b, good) \in [Blocks -> SUBSET Mods]
  BY DEF NmoesiInv, Receive

LEMMA Resume ==
  ASSUME NmoesiInv, nextId' = nextId, Sound(stk', lock', acc'), CacheInv(blk', dir'),
         fresh' \in [Blocks -> SUBSET Mods]
  PROVE  NmoesiInv'
  BY DEF NmoesiInv, Sound

LEMMA Before ==
  ASSUME NmoesiInv, NEW k \in DOMAIN stk, stk[k].n > 0
  PROVE  /\ Sound(stk, lock, acc) /\ CacheInv(blk, dir) /\ StackInv(stk, nextId)
         /\ fresh \in [Blocks -> SUBSET Mods] /\ Whole(stk)
         /\ k \in Paths /\ Typed(stk[k]) /\ stk[k].wait = <<>>
         /\ stk[k].ev \notin Forkers => stk[k].n = 1 /\ NoKids(stk, k)
<1>1. StackInv(stk, nextId)
  BY DEF NmoesiInv
<1>2. Whole(stk)
  BY <1>1, WholeStacks
<1>. QED BY <1>1, <1>2, Running DEF NmoesiInv, Sound

LEMMA AccessMayCall ==
  ASSUME NmoesiInv, NEW k \in DOMAIN stk, stk[k].n > 0, stk[k].ev \in AccessEvs,
         NEW ev \in AccessEvs
  PROVE  MayCall(k, ev, stk[k].mod) /\ stk[k].mod \in Mods
<1>1. StackInv(stk, nextId) /\ stk[k].mod \in Mods
  BY Before DEF Typed
<1>2. ASSUME NEW g, But(stk[k], g, {"ev", "n"}), g.ev = ev, g.n = 0
      PROVE  Goes(stk, k, g) /\ Module(g) = stk[k].mod
  <2>1. But(stk[k], g, Free \cup {"ev", "n"}) /\ g.n \in {0, 1}
    BY <1>2, ButMore
  <2>. QED BY <1>1, <1>2, <2>1, AccessMoves DEF Module
<1>. QED BY <1>1, <1>2 DEF MayCall

\* LOAD_LOCK and STORE_LOCK wait for an older access, or look the block up.
LEMMA AccessLocks ==
  ASSUME NmoesiInv, NEW k \in DOMAIN stk, stk[k].n > 0, NEW o,
         \/ stk' = WaitInStack(stk, k, o, stk[k].ev)
         \/ stk' = Call(stk, k, "LOAD_ACTION", "FAL",
                        FalStack(stk[k].mod, stk[k].addr, TRUE, TRUE))
         \/ stk' = Call(stk, k, "STORE_ACTION", "FAL",
                        FalStack(stk[k].mod, stk[k].addr, TRUE, TRUE)),
         stk[k].ev \in {"LOAD_LOCK", "STORE_LOCK"},
         UNCHANGED <<blk, dir, lock, acc, nextId, fresh>>
  PROVE  NmoesiInv'
<1>1. /\ Sound(stk, lock, acc) /\ CacheInv(blk, dir) /\ Typed(stk[k])
      /\ fresh \in [Blocks -> SUBSET Mods]
  BY Before
<1>2. /\ stk[k].ev \notin Forkers /\ ~Locks(stk[k]) /\ stk[k].ev \in AccessEvs
      /\ "LOAD_ACTION" \in FalCallers /\ "STORE_ACTION" \in FalCallers
      /\ "LOAD_ACTION" \in AccessEvs /\ "STORE_ACTION" \in AccessEvs
  BY DEF Forkers, Locks, Lockers, FalCallers, AccessEvs
<1>3. /\ stk[k].mod \in Mods /\ stk[k].addr \in Blocks \cup {None} /\ TRUE \in BOOLEAN
  BY <1>1 DEF Typed
<1>4. MayCall(k, "LOAD_ACTION", stk[k].mod) /\ MayCall(k, "STORE_ACTION", stk[k].mod)
  BY <1>2, AccessMayCall
<1>5. Sound(stk', lock, acc)
  <2>1. CASE stk' = WaitInStack(stk, k, o, stk[k].ev)
    BY <1>1, <2>1, WaitsOn
  <2>2. CASE stk' = Call(stk, k, "LOAD_ACTION", "FAL",
                         FalStack(stk[k].mod, stk[k].addr, TRUE, TRUE))
    BY <1>1, <1>2, <1>3, <1>4, <2>2, CallsFal
  <2>3. CASE stk' = Call(stk, k, "STORE_ACTION", "FAL",
                         FalStack(stk[k].mod, stk[k].addr, TRUE, TRUE))
    BY <1>1, <1>2, <1>3, <1>4, <2>3, CallsFal
  <2>. QED BY <2>1, <2>2, <2>3
<1>. QED BY <1>1, <1>5, Resume

LEMMA LoadLockKeeps ==
  ASSUME NmoesiInv, NEW k \in DOMAIN stk, LoadLock(k)
  PROVE  NmoesiInv'
<1>1. PICK o : \/ stk' = WaitInStack(stk, k, o, "LOAD_LOCK")
               \/ stk' = Call(stk, k, "LOAD_ACTION", "FAL",
                              FalStack(stk[k].mod, stk[k].addr, TRUE, TRUE))
  BY DEF LoadLock
<1>. QED BY <1>1, AccessLocks DEF LoadLock, At

LEMMA StoreLockKeeps ==
  ASSUME NmoesiInv, NEW k \in DOMAIN stk, StoreLock(k)
  PROVE  NmoesiInv'
<1>1. PICK o : \/ stk' = WaitInStack(stk, k, o, "STORE_LOCK")
               \/ stk' = Call(stk, k, "STORE_ACTION", "FAL",
                              FalStack(stk[k].mod, stk[k].addr, TRUE, TRUE))
  BY DEF StoreLock
<1>. QED BY <1>1, AccessLocks DEF StoreLock, At

\* An access goes on in event ev, with v for the stacks.
LEMMA AccessGoesOn ==
  ASSUME NmoesiInv, NEW k \in DOMAIN stk, stk[k].n > 0, stk[k].ev \in AccessEvs,
         NEW v, DOMAIN v = DOMAIN stk, Whole(v),
         \A x \in DOMAIN stk : But(stk[x], v[x], Free),
         NEW ev \in AccessEvs, NEW u, u \in {Goto(v, k, ev), Later(v, k, ev)}
  PROVE  /\ Alone(stk, u, k) /\ u[k].ev = ev /\ u[k].n = 1 /\ u[k].way = stk[k].way
         /\ u[k].err = stk[k].err
         /\ Module(stk[k]) = stk[k].mod /\ Module(u[k]) = stk[k].mod
<1>1. StackInv(stk, nextId) /\ stk[k].n = 1
  BY Before DEF AccessEvs, Forkers
<1>2. Changed(v, u, k, {"ev", "now"}) /\ u[k].ev = ev
  BY GotoIs
<1>3. But(stk[k], u[k], Free \cup {"ev", "n"}) /\ u[k].n = stk[k].n
  <2>. DEFINE f == stk[k]
              g == v[k]
              h == u[k]
  <2>1. But(f, g, Free) /\ But(g, h, {"ev", "now"})
    BY <1>2 DEF Changed
  <2>. HIDE DEF f, g, h
  <2>2. But(f, h, Free \cup {"ev", "n"}) /\ h.n = f.n
    BY <2>1 DEF But, Free, Fields
  <2>. QED BY <2>2 DEF f, h
<1>4. Beside(stk, u, k)
  BY <1>2 DEF Beside, Changed
<1>5. /\ Goes(stk, k, u[k]) /\ Counted(u[k], 0) /\ Kept(stk[k], u[k])
      /\ Module(u[k]) = Module(stk[k])
  <2>1. u[k].n \in {0, 1} /\ u[k].ev \in AccessEvs
    BY <1>1, <1>2, <1>3
  <2>. QED BY <1>1, <1>3, <2>1, AccessMoves
<1>6. Alone(stk, u, k)
  BY <1>2, <1>4, <1>5 DEF Alone, Changed
<1>. QED BY <1>1, <1>2, <1>3, <1>5, <1>6 DEF Kept, Module

\* A call from v, which is stk but for fields of k and of its caller.
Starting(v, k, ev, c, f) ==
  \A g : But(v[k], g, {"ev", "n"}) /\ g.ev = ev /\ g.n = 0
         => Goes(stk, k, g) /\ Begins(g, c, f) /\ KeepsWay(stk[k], g)

LEMMA CallsOut ==
  ASSUME NEW l, NEW a, NEW k \in DOMAIN stk, Sound(stk, l, a), stk[k].n > 0,
         stk[k].ev \notin Forkers, NEW v, DOMAIN v = DOMAIN stk, Whole(v),
         Beside(stk, v, k), v[k].n = 1, NEW ev, ev \notin Forkers,
         NEW c \in {"FAL", "EVICT", "INV", "REQ"}, NEW f, Starting(v, k, ev, c, f)
  PROVE  Sound(Call(v, k, ev, c, f), l, a)
<1>. DEFINE u == Call(v, k, ev, c, f)
            g == u[k]
<1>1. StackInv(stk, nextId)
  BY DEF Sound
<1>2. c \in Labels
  BY DEF Labels
<1>3. NoKids(stk, k) /\ Append(k, c) \notin DOMAIN stk
  BY <1>1, <1>2, Running
<1>4. Calling(v, u, k, c, f) /\ g.ev = ev /\ g.n = 0
  BY <1>3, CallIs
<1>. HIDE DEF u, g
<1>5. Goes(stk, k, g) /\ Begins(g, c, f) /\ KeepsWay(stk[k], g)
  BY <1>4 DEF Calling, Starting, g
<1>6. Counted(g, 0)
  BY <1>4 DEF Counted
<1>7. Beside(stk, u, k)
  BY <1>4 DEF Calling, Beside
<1>8. CallsOne(stk, u, k, c)
  BY <1>4, <1>5, <1>6, <1>7 DEF CallsOne, Calling, g
<1>. QED BY <1>3, <1>5, <1>8, CallsOn DEF u, g

\* Some field that no invariant is about changes in k.
FreeIn(v) ==
  /\ DOMAIN v = DOMAIN stk /\ Whole(v)
  /\ \A x \in DOMAIN stk : But(stk[x], v[x], Free)

LEMMA FreeSame ==
  ASSUME NmoesiInv
  PROVE  FreeIn(stk)
<1>1. StackInv(stk, nextId)
  BY DEF NmoesiInv
<1>. QED BY <1>1, WholeStacks, Caller, ButSelf DEF FreeIn

LEMMA FreeAt ==
  ASSUME NmoesiInv, NEW k \in DOMAIN stk, NEW g, But(stk[k], g, Free), NEW v,
         v = [stk EXCEPT ![k] = g]
  PROVE  FreeIn(v)
<1>1. FreeIn(stk)
  BY FreeSame
<1>2. DOMAIN v = DOMAIN stk /\ v[k] = g /\ \A x \in DOMAIN stk : x # k => v[x] = stk[x]
  OBVIOUS
<1>3. g = [y \in Fields |-> g[y]]
  BY DEF But
<1>. QED BY <1>1, <1>2, <1>3 DEF FreeIn, Whole

\* An access sends a request to the low module.
LEMMA AccessAsks ==
  ASSUME NmoesiInv, NEW k \in DOMAIN stk, stk[k].n > 0,
         stk[k].ev \in {"LOAD_ACTION", "STORE_ACTION"}, ~stk[k].err, NEW v, FreeIn(v),
         NEW ev \in {"LOAD_MISS", "STORE_UNLOCK"}, NEW f,
         NEW r \in {"READ_REQUEST_RECEIVE", "WRITE_REQUEST_RECEIVE"},
         Made(f, r, stk[k].mod, stk[k].addr, Low[stk[k].mod], TRUE, 0)
  PROVE  Sound(Call(v, k, ev, "REQ", f), lock, acc)
<1>1. /\ Sound(stk, lock, acc) /\ StackInv(stk, nextId) /\ Typed(stk[k])
  BY Before
<1>2. /\ stk[k].ev \notin Forkers /\ Locks(stk[k]) /\ stk[k].ev \in AccessEvs
      /\ ev \in Lockers /\ ev \in AccessEvs /\ ev \in ReqCallers /\ ev \notin Forkers
      /\ ev # "FIND_AND_LOCK"
  BY DEF Forkers, Locks, Lockers, FalCallers, AccessEvs, ReqCallers
<1>3. stk[k].n = 1
  BY <1>2, Before
<1>4. DOMAIN v = DOMAIN stk /\ Whole(v) /\ Beside(stk, v, k) /\ But(stk[k], v[k], Free)
  BY DEF FreeIn, Beside
<1>5. v[k].n = 1
  BY <1>3, <1>4 DEF But, Free, Fields
<1>6. /\ stk[k].mod \in Mods /\ stk[k].mod # MM /\ stk[k].addr \in Blocks \cup {None}
      /\ Low[stk[k].mod] \in Mods /\ TRUE \in BOOLEAN
  <2>1. stk[k].mod \in Cores
    BY <1>1, <1>2, AccessFacts DEF AccessOK
  <2>2. stk[k].addr \in Blocks \cup {None}
    BY <1>1 DEF Typed
  <2>. QED BY <2>1, <2>2, TreeAssumption
<1>7. ASSUME NEW g, But(v[k], g, {"ev", "n"}), g.ev = ev, g.n = 0
      PROVE  Goes(stk, k, g) /\ Begins(g, "REQ", f) /\ KeepsWay(stk[k], g)
  <2>1. But(stk[k], g, Free \cup {"ev", "n"})
    BY <1>4, <1>7 DEF But
  <2>2. /\ Goes(stk, k, g) /\ Kept(stk[k], g) /\ Module(g) = Module(stk[k])
    BY <1>1, <1>2, <1>7, <2>1, AccessMoves
  <2>3. Begins(g, "REQ", f)
    BY <1>2, <1>6, <1>7, RequestBegins
  <2>4. KeepsWay(stk[k], g)
    BY <1>2, <1>7, <2>2 DEF KeepsWay, Kept, Locks
  <2>. QED BY <2>2, <2>3, <2>4
<1>8. Starting(v, k, ev, "REQ", f)
  BY <1>7 DEF Starting
<1>. QED BY <1>1, <1>2, <1>4, <1>5, <1>8, CallsOut

\* An access goes on, and keeps the way it has locked.
LEMMA AccessKeeps ==
  ASSUME NmoesiInv, NEW k \in DOMAIN stk, stk[k].n > 0, stk[k].ev \in AccessEvs,
         NEW ev \in AccessEvs, NEW u, u \in {Goto(stk, k, ev), Later(stk, k, ev)},
         \/ Locks(stk[k]) /\ ev \in Lockers
         \/ ~Locks(stk[k]) /\ ev \notin Lockers \cup FalCallers
  PROVE  Sound(u, lock, acc)
<1>1. /\ Sound(stk, lock, acc) /\ NoKids(stk, k)
  BY Before DEF AccessEvs, Forkers
<1>2. FreeIn(stk)
  BY FreeSame
<1>3. /\ Alone(stk, u, k) /\ u[k].ev = ev /\ u[k].way = stk[k].way
      /\ Module(stk[k]) = stk[k].mod /\ Module(u[k]) = stk[k].mod
  BY <1>2, AccessGoesOn DEF FreeIn
<1>4. KeepsWay(stk[k], u[k])
  BY <1>3 DEF KeepsWay, Locks, AccessEvs
<1>. QED BY <1>1, <1>3, <1>4, GoesOn

\* An access unlocks its way.
LEMMA AccessUnlocks ==
  ASSUME NmoesiInv, NEW k \in DOMAIN stk, stk[k].n > 0, stk[k].ev \in AccessEvs \cap Lockers,
         NEW ev \in AccessEvs \ (Lockers \cup FalCallers), NEW v, FreeIn(v),
         NEW u, u \in {Goto(v, k, ev), Later(v, k, ev)}
  PROVE  Sound(Wake(u, stk[k].mod, stk[k].way), Unlocked(stk[k].mod, stk[k].way), acc)
<1>1. /\ Sound(stk, lock, acc) /\ NoKids(stk, k)
  BY Before DEF AccessEvs, Forkers
<1>2. /\ Alone(stk, u, k) /\ u[k].ev = ev /\ Module(stk[k]) = stk[k].mod
  BY AccessGoesOn DEF FreeIn
<1>3. Locks(stk[k]) /\ ~Locks(u[k]) /\ u[k].ev # "FIND_AND_LOCK"
  BY <1>2 DEF Locks, AccessEvs
<1>4. Sound(Wake(u, Module(stk[k]), stk[k].way), Unlocked(Module(stk[k]), stk[k].way), acc)
  BY <1>1, <1>2, <1>3, UnlocksOn
<1>. QED BY <1>2, <1>4

LEMMA LoadActionKeeps ==
  ASSUME NmoesiInv, NEW k \in DOMAIN stk, LoadAction(k)
  PROVE  NmoesiInv'
<1>1. /\ stk[k].ev = "LOAD_ACTION" /\ stk[k].n > 0
      /\ UNCHANGED <<blk, dir, lock, acc, nextId, fresh>>
  BY DEF LoadAction, At
<1>2. CacheInv(blk, dir) /\ fresh \in [Blocks -> SUBSET Mods] /\ stk[k].err \in BOOLEAN
      /\ stk[k] = [y \in Fields |-> stk[k][y]]
  BY <1>1, Before DEF Typed
<1>3. /\ stk[k].ev \in AccessEvs /\ "LOAD_LOCK" \in AccessEvs /\ "LOAD_UNLOCK" \in AccessEvs
      /\ "LOAD_LOCK" \notin Lockers \cup FalCallers /\ "LOAD_UNLOCK" \in Lockers
      /\ Locks(stk[k]) <=> ~stk[k].err
  BY <1>1 DEF AccessEvs, Lockers, FalCallers, Locks
<1>4. CASE stk[k].err
  <2>1. stk' = Later(stk, k, "LOAD_LOCK")
    BY <1>4 DEF LoadAction
  <2>2. Sound(stk', lock, acc)
    BY <1>1, <1>3, <1>4, <2>1, AccessKeeps
  <2>. QED BY <1>1, <1>2, <2>2, Resume
<1>5. CASE ~stk[k].err /\ stk[k].state # "I"
  <2>1. stk' = Goto(stk, k, "LOAD_UNLOCK")
    BY <1>5 DEF LoadAction
  <2>2. Sound(stk', lock, acc)
    BY <1>1, <1>3, <1>5, <2>1, AccessKeeps
  <2>. QED BY <1>1, <1>2, <2>2, Resume
<1>6. CASE ~stk[k].err /\ stk[k].state = "I"
  <2>. DEFINE f == ReadStack(stk[k].mod, stk[k].addr, TRUE)
              v == [stk EXCEPT ![k].shared = FALSE]
              g == [stk[k] EXCEPT !.shared = FALSE]
  <2>1. stk' = Call(v, k, "LOAD_MISS", "REQ", f)
    BY <1>6 DEF LoadAction
  <2>2. FreeIn(v)
    <3>1. But(stk[k], g, Free)
      BY <1>2 DEF But, Free, Fields
    <3>2. v = [stk EXCEPT ![k] = g]
      OBVIOUS
    <3>. HIDE DEF v, g
    <3>. QED BY <3>1, <3>2, FreeAt
  <2>3. Made(f, "READ_REQUEST_RECEIVE", stk[k].mod, stk[k].addr, Low[stk[k].mod], TRUE, 0)
    BY ReadStackIs
  <2>. HIDE DEF f, v
  <2>4. Sound(stk', lock, acc)
    BY <1>1, <1>6, <2>1, <2>2, <2>3, AccessAsks
  <2>. QED BY <1>1, <1>2, <2>4, Resume
<1>. QED BY <1>2, <1>4, <1>5, <1>6

LEMMA StoreActionKeeps ==
  ASSUME NmoesiInv, NEW k \in DOMAIN stk, StoreAction(k)
  PROVE  NmoesiInv'
<1>1. /\ stk[k].ev = "STORE_ACTION" /\ stk[k].n > 0
      /\ UNCHANGED <<blk, dir, lock, acc, nextId, fresh>>
  BY DEF StoreAction, At
<1>2. CacheInv(blk, dir) /\ fresh \in [Blocks -> SUBSET Mods] /\ stk[k].err \in BOOLEAN
      /\ stk[k] = [y \in Fields |-> stk[k][y]]
  BY <1>1, Before DEF Typed
<1>3. /\ stk[k].ev \in AccessEvs /\ "STORE_LOCK" \in AccessEvs /\ "STORE_UNLOCK" \in AccessEvs
      /\ "STORE_LOCK" \notin Lockers \cup FalCallers /\ "STORE_UNLOCK" \in Lockers
      /\ Locks(stk[k]) <=> ~stk[k].err
  BY <1>1 DEF AccessEvs, Lockers, FalCallers, Locks
<1>4. CASE stk[k].err
  <2>1. stk' = Later(stk, k, "STORE_LOCK")
    BY <1>4 DEF StoreAction
  <2>2. Sound(stk', lock, acc)
    BY <1>1, <1>3, <1>4, <2>1, AccessKeeps
  <2>. QED BY <1>1, <1>2, <2>2, Resume
<1>5. CASE ~stk[k].err /\ stk[k].state \in {"M", "E"}
  <2>1. stk' = Goto(stk, k, "STORE_UNLOCK")
    BY <1>5 DEF StoreAction
  <2>2. Sound(stk', lock, acc)
    BY <1>1, <1>3, <1>5, <2>1, AccessKeeps
  <2>. QED BY <1>1, <1>2, <2>2, Resume
<1>6. CASE ~stk[k].err /\ stk[k].state \notin {"M", "E"}
  <2>. DEFINE f == WriteStack(stk[k].mod, Low[stk[k].mod], stk[k].addr, TRUE)
              v == [stk EXCEPT ![k].good = FALSE]
              g == [stk[k] EXCEPT !.good = FALSE]
  <2>1. stk' = Call(v, k, "STORE_UNLOCK", "REQ", f)
    BY <1>6 DEF StoreAction
  <2>2. FreeIn(v)
    <3>1. But(stk[k], g, Free)
      BY <1>2 DEF But, Free, Fields
    <3>2. v = [stk EXCEPT ![k] = g]
      OBVIOUS
    <3>. HIDE DEF v, g
    <3>. QED BY <3>1, <3>2, FreeAt
  <2>3. Made(f, "WRITE_REQUEST_RECEIVE", stk[k].mod, stk[k].addr, Low[stk[k].mod], TRUE, 0)
    BY WriteStackIs
  <2>. HIDE DEF f, v
  <2>4. Sound(stk', lock, acc)
    BY <1>1, <1>6, <2>1, <2>2, <2>3, AccessAsks
  <2>. QED BY <1>1, <1>2, <2>4, Resume
<1>. QED BY <1>2, <1>4, <1>5, <1>6

\* The way of an access that has it locked.
LEMMA AccessWay ==
  ASSUME NmoesiInv, NEW k \in DOMAIN stk, stk[k].n > 0, stk[k].ev \in AccessEvs \cap Lockers
  PROVE  /\ stk[k].mod \in Mods /\ stk[k].mod # MM /\ stk[k].way \in Ways(stk[k].mod)
         /\ stk[k].addr \in Blocks \cup {None}
<1>1. StackInv(stk, nextId) /\ LockInv(stk, lock) /\ Typed(stk[k])
  BY Before DEF Sound
<1>2. Locks(stk[k]) /\ Module(stk[k]) = stk[k].mod
  BY DEF Locks, Module
<1>3. stk[k].mod \in Cores
  BY <1>1, AccessFacts DEF AccessOK
<1>. QED BY <1>1, <1>2, <1>3, LockedWay, TreeAssumption DEF Typed

LEMMA LoadMissKeeps ==
  ASSUME NmoesiInv, NEW k \in DOMAIN stk, LoadMiss(k)
  PROVE  NmoesiInv'
<1>1. stk[k].ev = "LOAD_MISS" /\ stk[k].n > 0 /\ UNCHANGED <<dir, acc, nextId>>
  BY DEF LoadMiss, At
<1>2. CacheInv(blk, dir) /\ fresh \in [Blocks -> SUBSET Mods]
  BY <1>1, Before
<1>3. /\ stk[k].ev \in AccessEvs \cap Lockers /\ "LOAD_UNLOCK" \in AccessEvs
      /\ "LOAD_LOCK" \in AccessEvs \ (Lockers \cup FalCallers)
      /\ "LOAD_UNLOCK" \in Lockers /\ Locks(stk[k])
  BY <1>1 DEF AccessEvs, Lockers, FalCallers, Locks
<1>4. /\ stk[k].mod \in Mods /\ stk[k].mod # MM /\ stk[k].way \in Ways(stk[k].mod)
      /\ stk[k].addr \in Blocks \cup {None}
  BY <1>1, <1>3, AccessWay
<1>5. CASE /\ stk' = Wake(Later(stk, k, "LOAD_LOCK"), stk[k].mod, stk[k].way)
           /\ lock' = Unlocked(stk[k].mod, stk[k].way) /\ UNCHANGED <<blk, fresh>>
  <2>1. Sound(stk', lock', acc)
    <3>1. FreeIn(stk)
      BY FreeSame
    <3>. DEFINE u == Later(stk, k, "LOAD_LOCK")
    <3>2. u \in {Goto(stk, k, "LOAD_LOCK"), Later(stk, k, "LOAD_LOCK")}
      OBVIOUS
    <3>. HIDE DEF u
    <3>3. Sound(Wake(u, stk[k].mod, stk[k].way), Unlocked(stk[k].mod, stk[k].way), acc)
      BY <1>1, <1>3, <3>1, <3>2, AccessUnlocks
    <3>. QED BY <1>5, <3>3 DEF u
  <2>. QED BY <1>1, <1>2, <1>5, <2>1, Resume
<1>6. CASE /\ blk' = SetBlock(blk, stk[k].mod, stk[k].way, stk[k].addr,
                              IF stk[k].shared THEN "S" ELSE "E")
           /\ fresh' = Receive(stk[k].mod, stk[k].addr, stk[k].good)
           /\ stk' = Goto(stk, k, "LOAD_UNLOCK") /\ UNCHANGED lock
  <2>1. Sound(stk', lock, acc)
    BY <1>1, <1>3, <1>6, AccessKeeps
  <2>2. CacheInv(blk', dir)
    <3>. DEFINE st == IF stk[k].shared THEN "S" ELSE "E"
    <3>1. st \in States
      BY DEF States
    <3>. HIDE DEF st
    <3>2. CacheInv(SetBlock(blk, stk[k].mod, stk[k].way, stk[k].addr, st), dir)
      BY <1>2, <1>4, <3>1, SetBlockKeeps
    <3>. QED BY <1>6, <3>2 DEF st
  <2>3. fresh' \in [Blocks -> SUBSET Mods]
    BY <1>4, <1>6, ReceiveKeeps
  <2>. QED BY <1>1, <1>6, <2>1, <2>2, <2>3, Resume
<1>. QED BY <1>5, <1>6 DEF LoadMiss

LEMMA LoadUnlockKeeps ==
  ASSUME NmoesiInv, NEW k \in DOMAIN stk, LoadUnlock(k)
  PROVE  NmoesiInv'
<1>. DEFINE u == Goto(stk, k, "LOAD_FINISH")
<1>1. /\ stk[k].ev = "LOAD_UNLOCK" /\ stk[k].n > 0
      /\ UNCHANGED <<blk, dir, acc, nextId, fresh>>
      /\ stk' = Wake(u, stk[k].mod, stk[k].way)
      /\ lock' = Unlocked(stk[k].mod, stk[k].way)
  BY DEF LoadUnlock, At
<1>2. CacheInv(blk, dir) /\ fresh \in [Blocks -> SUBSET Mods]
  BY <1>1, Before
<1>3. /\ stk[k].ev \in AccessEvs \cap Lockers
      /\ "LOAD_FINISH" \in AccessEvs \ (Lockers \cup FalCallers)
  BY <1>1 DEF AccessEvs, Lockers, FalCallers
<1>4. u \in {Goto(stk, k, "LOAD_FINISH"), Later(stk, k, "LOAD_FINISH")}
  OBVIOUS
<1>. HIDE DEF u
<1>5. Sound(Wake(u, stk[k].mod, stk[k].way), Unlocked(stk[k].mod, stk[k].way), acc)
  BY <1>1, <1>3, <1>4, FreeSame, AccessUnlocks
<1>. QED BY <1>1, <1>2, <1>5, Resume

LEMMA OutdateFree ==
  ASSUME NmoesiInv, NEW b
  PROVE  FreeIn(Outdate(stk, b))
<1>. DEFINE v == Outdate(stk, b)
<1>1. FreeIn(stk)
  BY FreeSame
<1>2. DOMAIN v = DOMAIN stk
  BY DEF Outdate
<1>3. ASSUME NEW x \in DOMAIN stk
      PROVE  But(stk[x], v[x], Free) /\ v[x] = [y \in Fields |-> v[x][y]]
  <2>1. stk[x] = [y \in Fields |-> stk[x][y]] /\ But(stk[x], stk[x], Free)
    BY <1>1 DEF FreeIn, Whole
  <2>2. CASE v[x] = stk[x]
    BY <2>1, <2>2
  <2>3. CASE v[x] = [stk[x] EXCEPT !.good = FALSE]
    <3>. DEFINE f == stk[x]
                g == v[x]
    <3>1. g = [f EXCEPT !.good = FALSE] /\ f = [y \in Fields |-> f[y]]
      BY <2>1, <2>3
    <3>. HIDE DEF f, g
    <3>2. But(f, g, Free)
      BY <3>1 DEF But, Free, Fields
    <3>3. g = [y \in Fields |-> g[y]]
      BY <3>2 DEF But
    <3>. QED BY <3>2, <3>3 DEF f, g
  <2>. QED BY <2>2, <2>3 DEF Outdate
<1>. QED BY <1>2, <1>3 DEF FreeIn, Whole

LEMMA StoreUnlockKeeps ==
  ASSUME NmoesiInv, NEW k \in DOMAIN stk, StoreUnlock(k)
  PROVE  NmoesiInv'
<1>. DEFINE u == IF stk[k].err THEN Later(stk, k, "STORE_LOCK")
                 ELSE Goto(Outdate(stk, stk[k].addr), k, "STORE_FINISH")
<1>1. /\ stk[k].ev = "STORE_UNLOCK" /\ stk[k].n > 0
      /\ UNCHANGED <<dir, acc, nextId>>
      /\ stk' = Wake(u, stk[k].mod, stk[k].way)
      /\ lock' = Unlocked(stk[k].mod, stk[k].way)
      /\ \/ UNCHANGED <<blk, fresh>>
         \/ /\ blk' = SetBlock(blk, stk[k].mod, stk[k].way, stk[k].addr, "M")
            /\ fresh' = [fresh EXCEPT ![stk[k].addr] = {stk[k].mod}]
  BY DEF StoreUnlock, At
<1>2. CacheInv(blk, dir) /\ fresh \in [Blocks -> SUBSET Mods]
  BY <1>1, Before
<1>3. /\ stk[k].ev \in AccessEvs \cap Lockers
      /\ "STORE_FINISH" \in AccessEvs \ (Lockers \cup FalCallers)
      /\ "STORE_LOCK" \in AccessEvs \ (Lockers \cup FalCallers)
  BY <1>1 DEF AccessEvs, Lockers, FalCallers
<1>4. /\ stk[k].mod \in Mods /\ stk[k].way \in Ways(stk[k].mod)
      /\ stk[k].addr \in Blocks \cup {None}
  BY <1>1, <1>3, AccessWay
<1>5. Sound(Wake(u, stk[k].mod, stk[k].way), Unlocked(stk[k].mod, stk[k].way), acc)
  <2>1. CASE stk[k].err
    <3>1. u \in {Goto(stk, k, "STORE_LOCK"), Later(stk, k, "STORE_LOCK")}
      BY <2>1
    <3>. HIDE DEF u
    <3>. QED BY <1>1, <1>3, <3>1, FreeSame, AccessUnlocks
  <2>2. CASE ~stk[k].err
    <3>. DEFINE v == Outdate(stk, stk[k].addr)
    <3>1. u \in {Goto(v, k, "STORE_FINISH"), Later(v, k, "STORE_FINISH")}
      BY <2>2
    <3>2. FreeIn(v)
      BY OutdateFree
    <3>. HIDE DEF u, v
    <3>. QED BY <1>1, <1>3, <3>1, <3>2, AccessUnlocks
  <2>. QED BY <2>1, <2>2
<1>. HIDE DEF u
<1>6. CacheInv(blk', dir) /\ fresh' \in [Blocks -> SUBSET Mods]
  <2>1. CASE UNCHANGED <<blk, fresh>>
    BY <1>2, <2>1
  <2>2. CASE /\ blk' = SetBlock(blk, stk[k].mod, stk[k].way, stk[k].addr, "M")
             /\ fresh' = [fresh EXCEPT ![stk[k].addr] = {stk[k].mod}]
    <3>1. "M" \in States /\ {stk[k].mod} \in SUBSET Mods
      BY <1>4 DEF States
    <3>2. CacheInv(SetBlock(blk, stk[k].mod, stk[k].way, stk[k].addr, "M"), dir)
      BY <1>2, <1>4, <3>1, SetBlockKeeps
    <3>. QED BY <2>2, <3>1, <3>2, FreshKeeps
  <2>. QED BY <1>1, <2>1, <2>2
<1>. QED BY <1>1, <1>5, <1>6, Resume

\* An access finishes.
LEMMA FinishKeeps ==
  ASSUME NmoesiInv, NEW k \in DOMAIN stk, LoadFinish(k) \/ StoreFinish(k)
  PROVE  NmoesiInv'
<1>1. /\ stk[k].ev \in {"LOAD_FINISH", "STORE_FINISH"} /\ stk[k].n > 0
      /\ stk' = Return(stk, k)
      /\ acc' = [acc EXCEPT ![stk[k].mod] = Unlinked(@, k)]
      /\ UNCHANGED <<blk, dir, lock, nextId, fresh>>
  BY DEF LoadFinish, StoreFinish, Finish, At
<1>2. /\ stk[k].ev \in AccessEvs /\ stk[k].ev \notin Lockers \cup FalCallers
      /\ stk[k].ev \notin FalEvs /\ stk[k].ev \notin Forkers /\ stk[k].ev \notin ReadEvs
  BY <1>1 DEF AccessEvs, Lockers, FalCallers, FalEvs, Forkers, ReadEvs
<1>3. /\ CacheInv(blk, dir) /\ fresh \in [Blocks -> SUBSET Mods] /\ NoKids(stk, k)
      /\ Sound(stk, lock, acc) /\ StackInv(stk, nextId) /\ stk[k].mod \in Mods
  BY <1>1, <1>2, Before DEF Typed
<1>4. Len(k) = 1
  BY <1>2, <1>3, AccessFacts
<1>5. \A c : Listed(stk, k, c) <=> c = stk[k].mod
  BY <1>2, <1>4 DEF Listed
<1>6. Sound(stk', lock, acc')
  BY <1>1, <1>2, <1>3, <1>5, ReturnsUnlinked DEF Locks
<1>. QED BY <1>1, <1>3, <1>6, Resume

-----------------------------------------------------------------------------
(* Stacks that tell their callers *)

\* v is stk but for fields G of k and what k tells its caller.
Told(v, k, G) ==
  /\ DOMAIN v = DOMAIN stk /\ Whole(v) /\ Beside(stk, v, k)
  /\ But(stk[k], v[k], G)

LEMMA FreeTold ==
  ASSUME NEW v, NEW k \in DOMAIN stk, FreeIn(v)
  PROVE  Told(v, k, Free)
  BY DEF FreeIn, Told, Beside

\* v is stk but for g in place of the caller of k.
LEMMA CallerTold ==
  ASSUME NmoesiInv, NEW k \in DOMAIN stk, Len(k) > 1, NEW g,
         But(stk[Front(k)], g, Free \cup {"err"}), g.err \in BOOLEAN,
         NEW v, v = [stk EXCEPT ![Front(k)] = g]
  PROVE  Told(v, k, Free)
<1>1. StackInv(stk, nextId)
  BY DEF NmoesiInv
<1>2. Front(k) \in DOMAIN stk /\ Front(k) # k
  BY <1>1, Caller
<1>3. /\ DOMAIN v = DOMAIN stk /\ v[Front(k)] = g
      /\ \A x \in DOMAIN stk : x # Front(k) => v[x] = stk[x]
  BY <1>2
<1>4. FreeIn(stk)
  BY FreeSame
<1>5. g = [y \in Fields |-> g[y]]
  BY DEF But
<1>6. Beside(stk, v, k)
  BY <1>3, <1>4 DEF Beside, FreeIn
<1>. QED BY <1>2, <1>3, <1>4, <1>5, <1>6 DEF Told, FreeIn, Whole

LEMMA ToldMore ==
  ASSUME NEW v, NEW k, NEW F, NEW G, F \subseteq G, Told(v, k, F)
  PROVE  Told(v, k, G)
  BY ButMore DEF Told

\* Event ev of k is scheduled, in v.
Scheduled(u, v, k, ev) == u = Goto(v, k, ev) \/ u = Later(v, k, ev)

LEMMA MovesOn ==
  ASSUME NEW k \in DOMAIN stk, NEW v, Told(v, k, Free \cup {"pending"}), NEW ev, NEW u,
         Scheduled(u, v, k, ev)
  PROVE  /\ DOMAIN u = DOMAIN stk /\ Beside(stk, u, k) /\ u[k].ev = ev
         /\ But(stk[k], u[k], Free \cup {"ev", "n", "pending"})
         /\ u[k].n = stk[k].n /\ u[k].pending = v[k].pending
<1>1. Changed(v, u, k, {"ev", "now"}) /\ u[k].ev = ev
  BY GotoIs DEF Told, Scheduled
<1>2. Beside(stk, u, k)
  BY <1>1 DEF Beside, Changed, Told
<1>3. But(stk[k], v[k], Free \cup {"pending"}) /\ But(v[k], u[k], {"ev", "now"})
  BY <1>1 DEF Told, Changed
<1>4. But(stk[k], u[k], Free \cup {"ev", "n", "pending"})
  BY <1>3 DEF But, Free
<1>5. u[k].n = stk[k].n /\ u[k].pending = v[k].pending
  BY <1>3 DEF But, Fields, Free
<1>. QED BY <1>1, <1>2, <1>4, <1>5 DEF Changed, Told

LEMMA FreeNumber ==
  ASSUME NEW f, NEW g, But(f, g, Free)
  PROVE  g.n = f.n /\ g.pending = f.pending
  BY DEF But, Free, Fields

\* A stack of find_and_lock or of an eviction goes on.
LEMMA InnerGoesOn ==
  ASSUME NmoesiInv, NEW k \in DOMAIN stk, stk[k].n > 0, NEW v, Told(v, k, Free),
         NEW ev, NEW u, Scheduled(u, v, k, ev),
         \/ stk[k].ev \in FalEvs /\ ev \in FalEvs
         \/ /\ stk[k].ev \in EvictEvs \ {"EVICT"}
            /\ ev \in EvictEvs \ {"EVICT", "EVICT_INVALID"} /\ stk[k].mod # MM
  PROVE  /\ Alone(stk, u, k) /\ u[k].ev = ev /\ Kept(stk[k], u[k])
         /\ Module(u[k]) = Module(stk[k]) /\ NoKids(stk, k)
<1>1. StackInv(stk, nextId) /\ stk[k].n = 1 /\ NoKids(stk, k)
  BY Before DEF FalEvs, EvictEvs, Forkers
<1>2. /\ DOMAIN u = DOMAIN stk /\ Beside(stk, u, k) /\ u[k].ev = ev
      /\ But(stk[k], u[k], Free \cup {"ev", "n", "pending"})
      /\ u[k].n = stk[k].n /\ u[k].pending = v[k].pending
  <2>1. Told(v, k, Free \cup {"pending"})
    BY ToldMore
  <2>. QED BY <2>1, MovesOn
<1>3. u[k].n \in {0, 1} /\ u[k].pending = stk[k].pending
  BY <1>1, <1>2, FreeNumber DEF Told
<1>4. But(stk[k], u[k], Free \cup {"ev", "n"})
  BY <1>2, <1>3 DEF But, Free
<1>5. /\ Goes(stk, k, u[k]) /\ Counted(u[k], 0) /\ Kept(stk[k], u[k])
      /\ Module(u[k]) = Module(stk[k])
  BY <1>1, <1>2, <1>3, <1>4, FalMoves, EvictMoves
<1>. QED BY <1>1, <1>2, <1>5 DEF Alone

LEMMA InnerKeeps ==
  ASSUME NmoesiInv, NEW k \in DOMAIN stk, stk[k].n > 0, NEW v, Told(v, k, Free),
         NEW ev, NEW u, Scheduled(u, v, k, ev),
         \/ stk[k].ev \in FalEvs /\ ev \in FalEvs /\ stk[k].ev \in Lockers /\ ev \in Lockers
         \/ /\ stk[k].ev \in EvictEvs \ {"EVICT"} /\ ~Locks(stk[k])
            /\ ev \in EvictEvs \ {"EVICT", "EVICT_INVALID", "EVICT_PROCESS"}
            /\ stk[k].mod # MM
  PROVE  Sound(u, lock, acc)
<1>1. /\ Alone(stk, u, k) /\ u[k].ev = ev /\ Kept(stk[k], u[k])
      /\ Module(u[k]) = Module(stk[k]) /\ NoKids(stk, k)
  BY InnerGoesOn
<1>2. Sound(stk, lock, acc)
  BY Before
<1>3. KeepsWay(stk[k], u[k])
  BY <1>1 DEF KeepsWay, Kept, Locks, Lockers, FalCallers, EvictEvs, FalEvs
<1>. QED BY <1>1, <1>2, <1>3, GoesOn

LEMMA FindAndLockActionKeeps ==
  ASSUME NmoesiInv, NEW k \in DOMAIN stk, FindAndLockAction(k)
  PROVE  NmoesiInv'
<1>. DEFINE f == EvictStack(stk[k].mod, stk[k].way)
            v == [stk EXCEPT ![k].evict = TRUE]
            h == [stk[k] EXCEPT !.evict = TRUE]
            ev == "FIND_AND_LOCK_FINISH"
<1>1. /\ stk[k].ev = "FIND_AND_LOCK_ACTION" /\ stk[k].n > 0
      /\ UNCHANGED <<blk, dir, lock, acc, nextId, fresh>>
      /\ stk' = Call(v, k, ev, "EVICT", f) \/ stk' = Goto(stk, k, ev)
  BY DEF FindAndLockAction, At, EvictStack
<1>2. /\ CacheInv(blk, dir) /\ fresh \in [Blocks -> SUBSET Mods]
      /\ StackInv(stk, nextId) /\ Sound(stk, lock, acc) /\ LockInv(stk, lock)
      /\ stk[k] = [y \in Fields |-> stk[k][y]] /\ stk[k].mod \in Mods
  BY <1>1, Before DEF Sound, Typed
<1>3. /\ stk[k].ev \in FalEvs /\ ev \in FalEvs /\ stk[k].ev \in Lockers /\ ev \in Lockers
      /\ Locks(stk[k]) /\ stk[k].ev \notin Forkers /\ ev \notin Forkers
      /\ ev # "FIND_AND_LOCK"
  BY <1>1 DEF FalEvs, Lockers, Locks, Forkers
<1>4. CASE stk' = Goto(stk, k, ev)
  <2>1. Told(stk, k, Free)
    BY FreeSame, FreeTold
  <2>3. Scheduled(stk', stk, k, ev)
    BY <1>4 DEF Scheduled
  <2>2. Sound(stk', lock, acc)
    BY <1>1, <1>3, <2>1, <2>3, InnerKeeps
  <2>. QED BY <1>1, <1>2, <2>2, Resume
<1>5. CASE stk' = Call(v, k, ev, "EVICT", f)
  <2>1. Told(v, k, Free)
    <3>1. But(stk[k], h, Free)
      BY <1>2 DEF But, Free, Fields
    <3>2. v = [stk EXCEPT ![k] = h]
      OBVIOUS
    <3>. HIDE DEF v, h
    <3>. QED BY <3>1, <3>2, FreeAt, FreeTold
  <2>2. stk[k].way \in Ways(stk[k].mod)
    BY <1>2, <1>3, LockedWay DEF Module
  <2>3. stk[k].n = 1
    BY <1>1, <1>3, Before
  <2>. HIDE DEF v, f
  <2>4. v[k].n = 1
    BY <2>1, <2>3, FreeNumber DEF Told
  <2>5. ASSUME NEW g, But(v[k], g, {"ev", "n"}), g.ev = ev, g.n = 0
        PROVE  Goes(stk, k, g) /\ Begins(g, "EVICT", f) /\ KeepsWay(stk[k], g)
    <3>1. But(stk[k], g, Free \cup {"ev", "n"})
      BY <2>1, <2>5 DEF But, Told
    <3>2. /\ Goes(stk, k, g) /\ Kept(stk[k], g) /\ Module(g) = Module(stk[k])
      BY <1>1, <1>2, <1>3, <2>5, <3>1, FalMoves
    <3>3. Begins(g, "EVICT", f)
      BY <1>2, <2>2, <2>5, EvictBegins DEF f
    <3>4. KeepsWay(stk[k], g)
      BY <1>3, <2>5, <3>2 DEF KeepsWay, Kept, Locks
    <3>. QED BY <3>2, <3>3, <3>4
  <2>6. Starting(v, k, ev, "EVICT", f)
    BY <2>5 DEF Starting
  <2>7. Sound(stk', lock, acc)
    BY <1>1, <1>2, <1>3, <1>5, <2>1, <2>4, <2>6, CallsOut DEF Told
  <2>. QED BY <1>1, <1>2, <2>7, Resume
<1>. QED BY <1>1, <1>4, <1>5

-----------------------------------------------------------------------------
(* The handler of find_and_lock *)

LEMMA MinIs ==
  ASSUME NEW T \in SUBSET Nat, T # {}
  PROVE  Min(T) \in T
<1>. DEFINE R == OpToRel(<, Nat)
<1>1. IsWellFoundedOn(R, Nat)
  BY NatLessThanWellFounded
<1>2. \A x, y \in Nat : x < y => <<x, y>> \in R
  BY DEF OpToRel
<1>. HIDE DEF R
<1>3. PICK x \in T : \A y \in T : ~(<<y, x>> \in R)
  BY <1>1, WFMin
<1>4. ASSUME NEW y \in T  PROVE x =< y
  <2>1. x \in Nat /\ y \in Nat
    OBVIOUS
  <2>2. ~(y < x)
    BY <1>2, <1>3, <2>1
  <2>. QED BY <2>1, <2>2
<1>. QED BY <1>4 DEF Min

LEMMA CandidatesIn ==
  ASSUME NEW m \in Mods, NEW b, NEW c, NEW w \in Candidates(m, b, c)
  PROVE  w \in Ways(m)
<1>1. Hits(m, b) \subseteq Ways(m)
  BY DEF Hits
<1>2. Ways(m) \subseteq Nat
  BY DEF Ways
<1>3. Hits(m, b) # {} => Min(Hits(m, b)) \in Hits(m, b)
  BY <1>1, <1>2, MinIs
<1>. QED BY <1>1, <1>3 DEF Candidates

\* What find_and_lock finds when its event is handled.
LEMMA FalBefore ==
  ASSUME NmoesiInv, NEW k \in DOMAIN stk, stk[k].n > 0, stk[k].ev \in FalEvs
  PROVE  /\ Len(k) > 1 /\ Len(k) # 1 /\ Front(k) \in DOMAIN stk /\ Front(k) # k
         /\ stk[Front(k)].ev \in FalCallers /\ stk[Front(k)].n = 0
         /\ Typed(stk[Front(k)]) /\ Typed(stk[k]) /\ stk[k].mod \in Mods
         /\ stk[k].mod = Module(stk[Front(k)]) /\ FalOK(stk[k]) /\ stk[k].n = 1
         /\ NoKids(stk, k) /\ \A m : ~Listed(stk, k, m)
<1>1. StackInv(stk, nextId) /\ Typed(stk[k]) /\ stk[k].n = 1 /\ NoKids(stk, k)
  BY Before DEF FalEvs, Forkers
<1>2. /\ Len(k) > 1 /\ Len(k) # 1 /\ Front(k) \in DOMAIN stk /\ Front(k) # k
      /\ stk[Front(k)].ev \in FalCallers /\ stk[Front(k)].n = 0
      /\ stk[k].mod = Module(stk[Front(k)]) /\ FalOK(stk[k])
  BY <1>1, FalFacts
<1>3. Typed(stk[Front(k)])
  BY <1>1, <1>2, Caller
<1>4. \A m : ~Listed(stk, k, m)
  BY <1>2 DEF Listed, FalEvs, ReadEvs
<1>. QED BY <1>1, <1>2, <1>3, <1>4 DEF Typed

\* The caller after find_and_lock has told it, in v, and returned.
Answered(v, t, k) ==
  /\ Back(stk, t, k) /\ Drowsy(stk, t, k, <<>>)
  /\ ~Locks(stk[Front(k)]) /\ (Locks(t[Front(k)]) <=> ~v[Front(k)].err)
  /\ Module(t[Front(k)]) = stk[k].mod /\ t[Front(k)].way = v[Front(k)].way

\* In v, find_and_lock has told its caller.
Answers(v, k) ==
  /\ DOMAIN v = DOMAIN stk
  /\ \A x \in DOMAIN stk : x # Front(k) => v[x] = stk[x]
  /\ But(stk[Front(k)], v[Front(k)], Free \cup {"err", "way", "state"})
  /\ v[Front(k)].err \in BOOLEAN /\ v[Front(k)].state \in States
  /\ v[Front(k)].err \/ (stk[k].mod = MM => v[Front(k)].state \in {"E", "M"})

LEMMA FalAnswers ==
  ASSUME NmoesiInv, NEW k \in DOMAIN stk, stk[k].n > 0, stk[k].ev \in FalEvs,
         NEW v, Answers(v, k)
  PROVE  Answered(v, Return(v, k), k)
<1>. DEFINE t == Return(v, k)
            p == Front(k)
<1>1. StackInv(stk, nextId)
  BY DEF NmoesiInv
<1>2. /\ Len(k) > 1 /\ Len(k) # 1 /\ p \in DOMAIN stk /\ p # k /\ stk[p].n = 0
  BY FalBefore
<1>3. /\ v[p].n = stk[p].n /\ v[p].wait = stk[p].wait
      /\ v[p] = [y \in Fields |-> v[p][y]]
  <2>. DEFINE f == stk[p]
              g == v[p]
  <2>1. But(f, g, Free \cup {"err", "way", "state"})
    BY DEF Answers
  <2>. HIDE DEF f, g
  <2>2. g.n = f.n /\ g.wait = f.wait /\ g = [y \in Fields |-> g[y]]
    BY <2>1 DEF But, Free, Fields
  <2>. QED BY <2>2 DEF f, g
<1>4. Telling(stk, v, k)
  BY <1>2, <1>3 DEF Telling, Answers, Aside
<1>5. Returned(stk, v, t, k)
  BY <1>1, <1>4, ReturnIs
<1>. HIDE DEF t
<1>6. /\ DOMAIN t = DOMAIN stk \ {k} /\ p \in DOMAIN t
      /\ \A x \in DOMAIN t : Aside(k, x) => Near(stk[x], t[x]) /\ t[x].way = stk[x].way
      /\ But(v[p], t[p], {"n", "now"}) /\ t[p].n = 1
  <2>1. v[p].n + 1 = 1
    BY <1>2, <1>3
  <2>. QED BY <1>2, <1>5, <2>1 DEF Returned
<1>7. /\ But(stk[p], t[p], Free \cup {"n", "err", "way", "state"})
      /\ t[p].err = v[p].err /\ t[p].state = v[p].state /\ t[p].way = v[p].way
  <2>. DEFINE f == stk[p]
              g == v[p]
              h == t[p]
  <2>1. But(f, g, Free \cup {"err", "way", "state"}) /\ But(g, h, {"n", "now"})
    BY <1>6 DEF Answers
  <2>. HIDE DEF f, g, h
  <2>2. But(f, h, Free \cup {"n", "err", "way", "state"})
    BY <2>1 DEF But, Free
  <2>3. h.err = g.err /\ h.state = g.state /\ h.way = g.way
    BY <2>1 DEF But, Fields
  <2>. QED BY <2>2, <2>3 DEF f, g, h
<1>8. /\ Goes(stk, p, t[p]) /\ Same(stk[p], t[p]) /\ t[p].n = stk[p].n + 1
      /\ t[p].pending = stk[p].pending /\ ~Locks(stk[p])
      /\ (Locks(t[p]) <=> ~t[p].err) /\ Module(t[p]) = stk[k].mod
  <2>. DEFINE g == t[p]
  <2>1. /\ But(stk[p], g, Free \cup {"n", "err", "way", "state"}) /\ g.n = 1
        /\ g.err \in BOOLEAN /\ g.state \in States
        /\ g.err \/ (stk[k].mod = MM => g.state \in {"E", "M"})
    BY <1>6, <1>7 DEF Answers
  <2>. HIDE DEF g
  <2>2. /\ Goes(stk, p, g) /\ Same(stk[p], g) /\ g.n = stk[p].n + 1
        /\ g.pending = stk[p].pending /\ ~Locks(stk[p])
        /\ (Locks(g) <=> ~g.err) /\ Module(g) = stk[k].mod
    BY <1>1, <2>1, FalCaller
  <2>. QED BY <2>2 DEF g
<1>9. Back(stk, t, k)
  BY <1>6, <1>8 DEF Back
<1>10. Drowsy(stk, t, k, <<>>)
  <2>1. \A x : ~Woken(<<>>, x)
    BY DEF Woken
  <2>. QED BY <1>5, <2>1 DEF Drowsy, Returned
<1>. QED BY <1>7, <1>8, <1>9, <1>10 DEF Answered, t

\* find_and_lock has failed.
LEMMA FalFails ==
  ASSUME NmoesiInv, NEW k \in DOMAIN stk, stk[k].n > 0, stk[k].ev = "FIND_AND_LOCK",
         NEW v, Answers(v, k), v[Front(k)].err
  PROVE  Sound(Return(v, k), lock, acc)
<1>. DEFINE t == Return(v, k)
            p == Front(k)
<1>1. Sound(stk, lock, acc) /\ StackInv(stk, nextId)
  BY Before
<1>2. stk[k].ev \in FalEvs /\ ~Locks(stk[k])
  BY DEF FalEvs, Locks, Lockers, FalCallers
<1>3. Len(k) > 1 /\ p \in DOMAIN stk /\ NoKids(stk, k) /\ \A m : ~Listed(stk, k, m)
  BY <1>2, FalBefore
<1>4. Answered(v, t, k)
  BY <1>2, FalAnswers
<1>. HIDE DEF t
<1>5. StackInv(t, nextId) /\ Quiet(stk, t, k, <<>>) /\ Gone(stk, t, k)
  BY <1>1, <1>3, <1>4, Returns DEF Answered
<1>6. CallerSame(stk, t, k)
  BY <1>4 DEF Answered, CallerSame, SameHeld, HoldsWay
<1>7. SameHeld(stk, t, k) /\ ~Asleep(t, k)
  BY <1>2, <1>4 DEF Answered, Back, SameHeld, HoldsWay, Asleep
<1>8. LockInv(t, lock)
  BY <1>1, <1>5, <1>6, <1>7, KeepsLocks DEF Sound
<1>9. \A x, c : Listed(t, x, c) <=> Listed(stk, x, c)
  BY <1>3, <1>5 DEF Gone
<1>10. ListInv(t, acc)
  BY <1>1, <1>9, ListKeeps DEF Sound
<1>. QED BY <1>5, <1>8, <1>10 DEF Sound, t

\* find_and_lock returns with the way locked for its caller.
LEMMA FalSucceeds ==
  ASSUME NmoesiInv, NEW k \in DOMAIN stk, stk[k].n > 0, stk[k].ev = "FIND_AND_LOCK_FINISH",
         NEW v, Answers(v, k), ~v[Front(k)].err, v[Front(k)].way = stk[k].way
  PROVE  Sound(Return(v, k), lock, acc)
<1>. DEFINE t == Return(v, k)
            p == Front(k)
            m == stk[k].mod
            w == stk[k].way
<1>1. Sound(stk, lock, acc) /\ StackInv(stk, nextId) /\ LockInv(stk, lock)
  BY Before DEF Sound
<1>2. stk[k].ev \in FalEvs /\ Locks(stk[k]) /\ Module(stk[k]) = m
  BY DEF FalEvs, Locks, Lockers, Module
<1>3. m \in Mods /\ w \in Ways(m) /\ HoldsWay(stk, k, m, w)
  BY <1>1, <1>2, LockedWay
<1>4. Len(k) > 1 /\ p \in DOMAIN stk /\ NoKids(stk, k) /\ \A c : ~Listed(stk, k, c)
  BY <1>2, FalBefore
<1>5. Answered(v, t, k)
  BY <1>2, FalAnswers
<1>. HIDE DEF t, m, w
<1>6. StackInv(t, nextId) /\ Quiet(stk, t, k, <<>>) /\ Gone(stk, t, k)
  BY <1>1, <1>4, <1>5, Returns DEF Answered
<1>7. \A a, b : HoldsWay(t, p, a, b) <=> a = m /\ b = w
  BY <1>4, <1>5 DEF Answered, Back, HoldsWay, m, w
<1>8. \A a, b : ~HoldsWay(stk, p, a, b)
  BY <1>5 DEF Answered, HoldsWay
<1>9. k \notin DOMAIN t
  BY <1>5 DEF Answered, Back
<1>10. LockInv(t, lock)
  BY <1>1, <1>3, <1>4, <1>6, <1>7, <1>8, <1>9, PassesLock
<1>11. \A x, c : Listed(t, x, c) <=> Listed(stk, x, c)
  BY <1>4, <1>6 DEF Gone
<1>12. ListInv(t, acc)
  BY <1>1, <1>11, ListKeeps DEF Sound
<1>. QED BY <1>6, <1>10, <1>12 DEF Sound, t

\* find_and_lock could not evict: it gives the way back.
LEMMA FalGivesUp ==
  ASSUME NmoesiInv, NEW k \in DOMAIN stk, stk[k].n > 0, stk[k].ev = "FIND_AND_LOCK_FINISH",
         NEW v, Answers(v, k), v[Front(k)].err
  PROVE  Sound(Wake(Return(v, k), stk[k].mod, stk[k].way),
               Unlocked(stk[k].mod, stk[k].way), acc)
<1>. DEFINE r == Return(v, k)
            p == Front(k)
            m == stk[k].mod
            w == stk[k].way
            q == Queue(lock, m, w)
            t == Awoken(r, q)
<1>1. Sound(stk, lock, acc) /\ StackInv(stk, nextId) /\ LockInv(stk, lock)
  BY Before DEF Sound
<1>2. stk[k].ev \in FalEvs /\ Locks(stk[k]) /\ Module(stk[k]) = m
  BY DEF FalEvs, Locks, Lockers, Module
<1>3. m \in Mods /\ w \in Ways(m) /\ HoldsWay(stk, k, m, w)
  BY <1>1, <1>2, LockedWay
<1>4. Len(k) > 1 /\ p \in DOMAIN stk /\ NoKids(stk, k) /\ (\A c : ~Listed(stk, k, c)) /\ p # k
      /\ Len(k) # 1
  BY <1>2, FalBefore
<1>5. Answered(v, r, k)
  BY <1>2, FalAnswers
<1>6. \A h : Woken(q, h) =>
        h \in DOMAIN stk /\ Asleep(stk, h) /\ Aside(k, h) /\ stk[h].ev = "FIND_AND_LOCK"
  BY <1>1, <1>3, WokenAside
<1>. HIDE DEF r, m, w, q
<1>7. /\ DOMAIN r = DOMAIN stk \ {k}
      /\ \A x \in DOMAIN r : Aside(k, x) => Near(stk[x], r[x]) /\ r[x].way = stk[x].way
      /\ p \in DOMAIN r /\ Typed(r[p])
  BY <1>4, <1>5 DEF Answered, Back, Goes
<1>8. \A x \in DOMAIN r : Typed(r[x])
  <2>1. \A x \in DOMAIN r : Aside(k, x) \/ x = p
    BY <1>7 DEF Aside
  <2>. QED BY <1>7, <2>1 DEF Near
<1>9. /\ DOMAIN t = DOMAIN r
      /\ \A x \in DOMAIN r : ~Woken(q, x) => t[x] = r[x]
      /\ \A x \in DOMAIN r : Woken(q, x) => But(r[x], t[x], {"n", "now"}) /\ t[x].n = 1
  <2>1. q # <<>> => Head(q) \in DOMAIN r
    BY <1>6, <1>7 DEF Woken, Aside
  <2>2. \A x \in DOMAIN r : r[x] = [y \in Fields |-> r[x][y]]
    BY <1>8 DEF Typed
  <2>. QED BY <2>1, <2>2, AwokenIs
<1>. HIDE DEF t
<1>10. ASSUME NEW x \in DOMAIN t, Aside(k, x)
       PROVE  /\ Near(stk[x], t[x]) /\ t[x].way = stk[x].way
              /\ Asleep(stk, x) => (t[x].n = 0 <=> ~Woken(q, x))
  <2>1. x \in DOMAIN r /\ Near(stk[x], r[x]) /\ r[x].way = stk[x].way /\ Typed(r[x])
    BY <1>7, <1>8, <1>9, <1>10
  <2>2. CASE ~Woken(q, x)
    <3>1. Asleep(stk, x) => r[x].n = 0
      <4>1. \A y : ~Woken(<<>>, y)
        BY DEF Woken
      <4>. QED BY <1>5, <1>10, <2>1, <4>1 DEF Answered, Drowsy
    <3>. QED BY <1>9, <2>1, <2>2, <3>1
  <2>3. CASE Woken(q, x)
    <3>1. But(r[x], t[x], {"n", "now"}) /\ t[x].n = 1
      BY <1>9, <2>1, <2>3
    <3>2. r[x].ev = "FIND_AND_LOCK"
      BY <1>6, <2>1, <2>3 DEF Near
    <3>3. r[x].wait = <<>>
      BY <2>1, <3>2 DEF Typed, Sleepers
    <3>4. But(r[x], t[x], Free \cup {"n", "wait"}) /\ t[x].wait = <<>>
      BY <3>1, <3>3 DEF But, Free, Fields
    <3>5. Near(r[x], t[x]) /\ t[x].way = r[x].way
      BY <2>1, <3>1, <3>2, <3>4, NearWoken
    <3>6. Near(stk[x], t[x])
      BY <2>1, <3>5, NearTwice
    <3>. QED BY <2>1, <2>3, <3>1, <3>5, <3>6
  <2>. QED BY <2>2, <2>3
<1>11. t[p] = r[p] /\ p \in DOMAIN t
  <2>1. ~Woken(q, p)
    BY <1>4, <1>6 DEF Aside
  <2>. QED BY <1>7, <1>9, <2>1
<1>12. Back(stk, t, k)
  BY <1>5, <1>7, <1>9, <1>10, <1>11 DEF Answered, Back
<1>13. Drowsy(stk, t, k, q)
  BY <1>10 DEF Drowsy
<1>14. StackInv(t, nextId) /\ Quiet(stk, t, k, q) /\ Gone(stk, t, k)
  BY <1>1, <1>4, <1>12, <1>13, Returns
<1>15. CallerSame(stk, t, k)
  BY <1>5, <1>11 DEF Answered, CallerSame, SameHeld, HoldsWay
<1>16. (\A a, b : ~HoldsWay(t, k, a, b)) /\ ~Asleep(t, k)
  BY <1>12 DEF Back, HoldsWay, Asleep
<1>17. LockInv(t, Released(lock, m, w))
  BY <1>1, <1>3, <1>14, <1>15, <1>16, ReleasesLock DEF q
<1>18. \A x, c : Listed(t, x, c) <=> Listed(stk, x, c)
  BY <1>4, <1>14 DEF Gone
<1>19. ListInv(t, acc)
  BY <1>1, <1>18, ListKeeps DEF Sound
<1>20. Wake(r, m, w) = t /\ Unlocked(m, w) = Released(lock, m, w)
  BY DEF Wake, Awoken, Queue, Unlocked, Released, t, q
<1>. QED BY <1>14, <1>17, <1>19, <1>20 DEF Sound, r, m, w

LEMMA FindAndLockFinishKeeps ==
  ASSUME NmoesiInv, NEW k \in DOMAIN stk, FindAndLockFinish(k)
  PROVE  NmoesiInv'
<1>. DEFINE p == Front(k)
            m == stk[k].mod
            w == stk[k].way
            st == IF stk[k].evict THEN blk[m][w].state ELSE stk[k].state
            here == m = MM /\ st = "I"
<1>1. /\ stk[k].ev = "FIND_AND_LOCK_FINISH" /\ stk[k].n > 0
      /\ UNCHANGED <<dir, acc, nextId, fresh>>
      /\ \/ /\ stk' = Wake(Return([stk EXCEPT ![p].err = TRUE], k), m, w)
            /\ lock' = Unlocked(m, w) /\ UNCHANGED blk
         \/ /\ blk' = IF here THEN SetBlock(blk, m, w, stk[k].addr, "E") ELSE blk
            /\ stk' = Return([stk EXCEPT ![p].err = FALSE, ![p].way = w,
                                ![p].state = IF here THEN "E" ELSE st], k)
            /\ UNCHANGED lock
  BY DEF FindAndLockFinish, At, Parent
<1>2. /\ CacheInv(blk, dir) /\ fresh \in [Blocks -> SUBSET Mods]
      /\ StackInv(stk, nextId) /\ LockInv(stk, lock)
  BY <1>1, Before DEF Sound
<1>3. stk[k].ev \in FalEvs /\ Locks(stk[k]) /\ Module(stk[k]) = m
  BY <1>1 DEF FalEvs, Locks, Lockers, Module
<1>4. /\ p \in DOMAIN stk /\ p # k /\ Typed(stk[p]) /\ Typed(stk[k]) /\ FalOK(stk[k])
  BY <1>1, <1>3, FalBefore
<1>5. m \in Mods /\ w \in Ways(m)
  BY <1>2, <1>3, LockedWay
<1>6. st \in States /\ (m = MM => st \in {"I", "E", "M"})
  BY <1>2, <1>4, <1>5, CacheAt DEF Typed, FalOK
<1>7. stk[p] = [y \in Fields |-> stk[p][y]]
  BY <1>4 DEF Typed
<1>8. CASE /\ stk' = Wake(Return([stk EXCEPT ![p].err = TRUE], k), m, w)
           /\ lock' = Unlocked(m, w) /\ UNCHANGED blk
  <2>. DEFINE v == [stk EXCEPT ![p].err = TRUE]
              f == stk[p]
              g == v[p]
  <2>1. /\ DOMAIN v = DOMAIN stk /\ \A x \in DOMAIN stk : x # p => v[x] = stk[x]
        /\ g = [f EXCEPT !.err = TRUE]
    BY <1>4
  <2>2. f = [y \in Fields |-> f[y]] /\ f.state \in States
    BY <1>4, <1>7 DEF Typed
  <2>. HIDE DEF v, f, g
  <2>3. /\ But(f, g, Free \cup {"err", "way", "state"}) /\ g.state = f.state
    BY <2>1, <2>2 DEF But, Free, Fields
  <2>4. g.err
    BY <2>1, <2>2 DEF Fields
  <2>6. g.err \in BOOLEAN
    <3>1. g.err = TRUE
      BY <2>1, <2>2 DEF Fields
    <3>. QED BY <3>1, Zenon
  <2>5. Answers(v, k) /\ v[p].err
    BY <2>1, <2>2, <2>3, <2>4, <2>6 DEF Answers, f, g
  <2>7. Sound(stk', lock', acc)
    BY <1>1, <1>8, <2>5, FalGivesUp DEF v
  <2>. QED BY <1>1, <1>2, <1>8, <2>7, Resume
<1>9. CASE /\ blk' = IF here THEN SetBlock(blk, m, w, stk[k].addr, "E") ELSE blk
           /\ stk' = Return([stk EXCEPT ![p].err = FALSE, ![p].way = w,
                               ![p].state = IF here THEN "E" ELSE st], k)
           /\ UNCHANGED lock
  <2>. DEFINE e == IF here THEN "E" ELSE st
              v == [stk EXCEPT ![p].err = FALSE, ![p].way = w, ![p].state = e]
              f == stk[p]
              g == v[p]
  <2>1. /\ DOMAIN v = DOMAIN stk /\ \A x \in DOMAIN stk : x # p => v[x] = stk[x]
        /\ g = [f EXCEPT !.err = FALSE, !.way = w, !.state = e]
    BY <1>4
  <2>2. f = [y \in Fields |-> f[y]]
    BY <1>7
  <2>3. e \in States /\ (m = MM => e \in {"E", "M"})
    BY <1>6 DEF States
  <2>8. blk' = (IF here THEN SetBlock(blk, m, w, stk[k].addr, "E") ELSE blk)
        /\ stk' = Return(v, k)
    BY <1>9
  <2>. HIDE DEF v, f, g, e, here, st
  <2>4. /\ But(f, g, Free \cup {"err", "way", "state"}) /\ g.state = e /\ g.way = w
    BY <2>1, <2>2 DEF But, Free, Fields
  <2>5. ~g.err
    BY <2>1, <2>2 DEF Fields
  <2>6. g.err \in BOOLEAN
    <3>1. g.err = FALSE
      BY <2>1, <2>2 DEF Fields
    <3>. QED BY <3>1, Zenon
  <2>7. Answers(v, k) /\ ~v[p].err /\ v[p].way = w
    BY <2>1, <2>3, <2>4, <2>5, <2>6 DEF Answers, f, g
  <2>9. Sound(stk', lock, acc)
    BY <1>1, <2>7, <2>8, FalSucceeds
  <2>10. CacheInv(blk', dir)
    <3>1. "E" \in States /\ "E" \in {"I", "E", "M"} /\ stk[k].addr \in Blocks \cup {None}
      BY <1>4 DEF States, Typed
    <3>2. CacheInv(SetBlock(blk, m, w, stk[k].addr, "E"), dir)
      BY <1>2, <1>5, <3>1, SetBlockKeeps
    <3>. QED BY <1>2, <2>8, <3>2
  <2>. QED BY <1>1, <1>2, <1>9, <2>9, <2>10, Resume
<1>. QED BY <1>1, <1>8, <1>9

\* find_and_lock fails at once.
LEMMA FalFailing ==
  ASSUME NmoesiInv, NEW k \in DOMAIN stk, stk[k].n > 0, stk[k].ev = "FIND_AND_LOCK",
         NEW v, v = [stk EXCEPT ![Front(k)].err = TRUE, ![Front(k)].ported = TRUE]
  PROVE  Sound(Return(v, k), lock, acc)
<1>. DEFINE p == Front(k)
            f == stk[p]
            g == v[p]
<1>1. stk[k].ev \in FalEvs
  BY DEF FalEvs
<1>2. /\ p \in DOMAIN stk /\ p # k /\ Typed(f)
  BY <1>1, FalBefore
<1>3. /\ DOMAIN v = DOMAIN stk /\ \A x \in DOMAIN stk : x # p => v[x] = stk[x]
      /\ g = [f EXCEPT !.err = TRUE, !.ported = TRUE]
  BY <1>2
<1>4. f = [y \in Fields |-> f[y]] /\ f.state \in States
  BY <1>2 DEF Typed
<1>. HIDE DEF f, g
<1>5. But(f, g, Free \cup {"err", "way", "state"}) /\ g.state = f.state
  BY <1>3, <1>4 DEF But, Free, Fields
<1>6. g.err = TRUE
  BY <1>3, <1>4 DEF Fields
<1>7. g.err \in BOOLEAN
  BY <1>6, Zenon
<1>8. Answers(v, k) /\ v[p].err
  BY <1>3, <1>4, <1>5, <1>6, <1>7 DEF Answers, f, g
<1>. QED BY <1>8, FalFails

LEMMA NearTold ==
  ASSUME NEW f, NEW g, Typed(f), But(f, g, Free \cup {"err", "way"}), g.err \in BOOLEAN,
         f.ev \in FalCallers, f.n = 0
  PROVE  Near(f, g)
<1>1. /\ g.ev = f.ev /\ g.mod = f.mod /\ g.tgt = f.tgt /\ g.down = f.down
      /\ g.state = f.state /\ g.pending = f.pending
      /\ g.n = f.n /\ g.addr = f.addr /\ g.wait = f.wait
  BY DEF But, Free, Fields
<1>2. g = [x \in Fields |-> g[x]]
  BY DEF But
<1>. QED BY <1>1, <1>2 DEF Near, Typed

\* From stk to t, find_and_lock k goes on and tells its caller.
FalTells(t, k) ==
  /\ DOMAIN t = DOMAIN stk
  /\ \A x \in DOMAIN stk : x # k /\ x # Front(k) => t[x] = stk[x]
  /\ But(stk[Front(k)], t[Front(k)], Free \cup {"err", "way"})
  /\ t[Front(k)].err \in BOOLEAN
LEMMA FalTellsOnward ==
  ASSUME NmoesiInv, NEW k \in DOMAIN stk, stk[k].n > 0, stk[k].ev = "FIND_AND_LOCK",
         NEW t, FalTells(t, k), Goes(stk, k, t[k]), Counted(t[k], 0)
  PROVE  /\ StackInv(t, nextId) /\ Quiet(stk, t, k, <<>>) /\ CallerSame(stk, t, k)
         /\ ListInv(t, acc)
<1>1. stk[k].ev \in FalEvs
  BY DEF FalEvs
<1>2. /\ Len(k) > 1 /\ Len(k) # 1 /\ Front(k) \in DOMAIN stk /\ Front(k) # k
      /\ stk[Front(k)].ev \in FalCallers /\ stk[Front(k)].n = 0
      /\ Typed(stk[Front(k)]) /\ NoKids(stk, k)
  BY <1>1, FalBefore
<1>3. StackInv(stk, nextId) /\ ListInv(stk, acc)
  BY Before DEF Sound
<1>4. Near(stk[Front(k)], t[Front(k)])
  BY <1>2, NearTold DEF FalTells
<1>5. \A x \in DOMAIN stk : Aside(k, x) => But(stk[x], t[x], Free)
  BY <1>2, <1>3, Caller, ButSelf DEF Aside, FalTells
<1>6. Onward(stk, t, k, {})
  <2>1. Around(stk, t, k)
    BY <1>4, <1>5 DEF Around
  <2>2. Cardinality({} \cap Mods) = 0
    BY FS_EmptySet, {} \cap Mods = {}
  <2>. QED BY <2>1, <2>2 DEF Onward, FalTells
<1>7. {} \in SUBSET Labels
  OBVIOUS
<1>. QED BY <1>2, <1>3, <1>6, <1>7, Advances

\* find_and_lock waits for way w.
LEMMA FalWaits ==
  ASSUME NmoesiInv, NEW k \in DOMAIN stk, stk[k].n > 0, stk[k].ev = "FIND_AND_LOCK",
         NEW w \in Ways(stk[k].mod), NEW t,
         t = [stk EXCEPT ![Front(k)] = [stk[Front(k)] EXCEPT !.err = FALSE, !.ported = TRUE, !.way = w],
                         ![k] = [stk[k] EXCEPT !.n = 0]]
  PROVE  Sound(t, Queued(lock, stk[k].mod, w, k), acc)
<1>. DEFINE p == Front(k)
            f == stk[p]
            g == t[p]
            c == stk[k]
            d == t[k]
            m == stk[k].mod
<1>1. stk[k].ev \in FalEvs
  BY DEF FalEvs
<1>2. /\ Len(k) > 1 /\ p \in DOMAIN stk /\ p # k /\ Typed(f) /\ Typed(c) /\ m \in Mods
      /\ f.ev \in FalCallers /\ f.n = 0
  BY <1>1, FalBefore
<1>3. /\ DOMAIN t = DOMAIN stk /\ \A x \in DOMAIN stk : x # k /\ x # p => t[x] = stk[x]
      /\ g = [f EXCEPT !.err = FALSE, !.ported = TRUE, !.way = w]
      /\ d = [c EXCEPT !.n = 0]
  BY <1>2
<1>4. f = [y \in Fields |-> f[y]] /\ c = [y \in Fields |-> c[y]]
  BY <1>2 DEF Typed
<1>5. StackInv(stk, nextId) /\ LockInv(stk, lock)
  BY Before DEF Sound
<1>. HIDE DEF f, g, c, d, m
<1>6. But(f, g, Free \cup {"err", "way"}) /\ g.way = w
  BY <1>3, <1>4 DEF But, Free, Fields
<1>7. g.err \in BOOLEAN
  <2>1. g.err = FALSE
    BY <1>3, <1>4 DEF Fields
  <2>. QED BY <2>1, Zenon
<1>8. But(c, d, Free \cup {"ev", "n"}) /\ d.n = 0 /\ d.ev = c.ev /\ d.mod = c.mod
  BY <1>3, <1>4 DEF But, Free, Fields
<1>9. Goes(stk, k, d) /\ Counted(d, 0)
  BY <1>1, <1>5, <1>8, FalMoves DEF c
<1>10. FalTells(t, k)
  BY <1>3, <1>6, <1>7 DEF FalTells, f, g
<1>11. /\ StackInv(t, nextId) /\ Quiet(stk, t, k, <<>>) /\ CallerSame(stk, t, k)
       /\ ListInv(t, acc)
  BY <1>9, <1>10, FalTellsOnward DEF d
<1>12. WaitsFor(t, k, m, w)
  BY <1>3, <1>6, <1>8 DEF WaitsFor, Asleep, c, d, m, g
<1>13. SameHeld(stk, t, k)
  BY <1>3, <1>8 DEF SameHeld, HoldsWay, Locks, Lockers, FalCallers, c, d
<1>14. LockInv(t, Queued(lock, m, w, k))
  BY <1>2, <1>5, <1>11, <1>12, <1>13, EnqueuesLock DEF m
<1>. QED BY <1>11, <1>14 DEF Sound, m

\* find_and_lock locks way w.
LEMMA FalTakes ==
  ASSUME NmoesiInv, NEW k \in DOMAIN stk, stk[k].n > 0, stk[k].ev = "FIND_AND_LOCK",
         NEW w \in Ways(stk[k].mod), ~lock[stk[k].mod][w].held, NEW hit, NEW t,
         t = [stk EXCEPT ![Front(k)] = [stk[Front(k)] EXCEPT !.err = FALSE, !.ported = TRUE],
                         ![k] = [stk[k] EXCEPT !.hit = hit, !.way = w,
                                   !.state = blk[stk[k].mod][w].state,
                                   !.ev = "FIND_AND_LOCK_ACTION", !.now = FALSE]]
  PROVE  Sound(t, Seized(lock, stk[k].mod, w), acc)
<1>. DEFINE p == Front(k)
            f == stk[p]
            g == t[p]
            c == stk[k]
            d == t[k]
            m == stk[k].mod
            e == blk[m][w].state
<1>1. stk[k].ev \in FalEvs
  BY DEF FalEvs
<1>2. /\ Len(k) > 1 /\ p \in DOMAIN stk /\ p # k /\ Typed(f) /\ Typed(c) /\ m \in Mods
      /\ f.ev \in FalCallers /\ f.n = 0 /\ c.n = 1
  BY <1>1, FalBefore
<1>3. /\ DOMAIN t = DOMAIN stk /\ \A x \in DOMAIN stk : x # k /\ x # p => t[x] = stk[x]
      /\ g = [f EXCEPT !.err = FALSE, !.ported = TRUE]
      /\ d = [c EXCEPT !.hit = hit, !.way = w, !.state = e,
                       !.ev = "FIND_AND_LOCK_ACTION", !.now = FALSE]
  BY <1>2
<1>4. f = [y \in Fields |-> f[y]] /\ c = [y \in Fields |-> c[y]]
  BY <1>2 DEF Typed
<1>5. StackInv(stk, nextId) /\ LockInv(stk, lock) /\ CacheInv(blk, dir) /\ c.wait = <<>>
  BY Before DEF Sound
<1>15. e \in States /\ (m = MM => e \in {"I", "E", "M"})
  BY <1>2, <1>5, CacheAt
<1>. HIDE DEF f, g, c, d, m, e
<1>6. But(f, g, Free \cup {"err", "way"})
  BY <1>3, <1>4 DEF But, Free, Fields
<1>7. g.err \in BOOLEAN
  <2>1. g.err = FALSE
    BY <1>3, <1>4 DEF Fields
  <2>. QED BY <2>1, Zenon
<1>8. /\ But(c, d, Free \cup {"ev", "state", "way"}) /\ d.ev = "FIND_AND_LOCK_ACTION"
      /\ d.way = w /\ d.state = e
  BY <1>3, <1>4 DEF But, Free, Fields
<1>16. /\ d = [y \in Fields |-> d[y]] /\ d.mod = c.mod /\ d.tgt = c.tgt /\ d.addr = c.addr
       /\ d.n = c.n /\ d.pending = c.pending /\ d.err = c.err /\ d.down = c.down
       /\ d.wait = c.wait
  BY <1>8 DEF But, Free, Fields
<1>17. Typed(d)
  BY <1>2, <1>5, <1>8, <1>15, <1>16 DEF Typed
<1>18. FalOK(d)
  BY <1>8, <1>15, <1>16 DEF FalOK, FalEvs, m, c
<1>9. Goes(stk, k, d) /\ Counted(d, 0)
  <2>1. Goes(stk, k, d)
    BY <1>1, <1>5, <1>16, <1>17, <1>18, FalGoes DEF c
  <2>2. Counted(d, 0)
    BY <1>2, <1>8, <1>16 DEF Counted, Forkers
  <2>. QED BY <2>1, <2>2
<1>10. FalTells(t, k)
  BY <1>3, <1>6, <1>7 DEF FalTells, f, g
<1>11. /\ StackInv(t, nextId) /\ Quiet(stk, t, k, <<>>) /\ CallerSame(stk, t, k)
       /\ ListInv(t, acc)
  BY <1>9, <1>10, FalTellsOnward DEF d
<1>12. ~Locks(stk[k]) /\ ~Asleep(t, k)
  BY <1>8 DEF Locks, Lockers, FalCallers, Asleep, d
<1>13. \A a, b : HoldsWay(t, k, a, b) <=> a = m /\ b = w
  BY <1>3, <1>8, <1>16 DEF HoldsWay, Locks, Lockers, Module, FalEvs, c, d, m
<1>14. LockInv(t, Seized(lock, m, w))
  BY <1>2, <1>5, <1>11, <1>12, <1>13, AcquiresLock DEF m
<1>. QED BY <1>11, <1>14 DEF Sound, m

LEMMA FindAndLockKeeps ==
  ASSUME NmoesiInv, NEW k \in DOMAIN stk, FindAndLock(k)
  PROVE  NmoesiInv'
<1>. DEFINE p == Front(k)
            m == stk[k].mod
            s == [stk EXCEPT ![p].err = FALSE, ![p].ported = TRUE]
            hits == Hits(m, stk[k].addr)
            Fails(w) == /\ stk' = Return([s EXCEPT ![p].err = TRUE], k)
                        /\ UNCHANGED <<blk, lock>>
            Waits(w) == /\ lock' = [lock EXCEPT ![m][w].queue = Enqueue(@, k)]
                        /\ stk' = [s EXCEPT ![p].way = w, ![k].n = 0]
                        /\ UNCHANGED blk
            Takes(w) == /\ ~lock[m][w].held
                        /\ lock' = [lock EXCEPT ![m][w].held = TRUE]
                        /\ blk' = IF stk[k].down THEN [blk EXCEPT ![m][w].transient = stk[k].addr]
                                  ELSE blk
                        /\ stk' = Later([s EXCEPT ![k].hit = hits # {}, ![k].way = w,
                                                  ![k].state = blk[m][w].state],
                                        k, "FIND_AND_LOCK_ACTION")
<1>1. /\ stk[k].ev = "FIND_AND_LOCK" /\ stk[k].n > 0
      /\ UNCHANGED <<dir, acc, nextId, fresh>>
      /\ \E w \in Candidates(m, stk[k].addr, stk[p].way) : Fails(w) \/ Waits(w) \/ Takes(w)
  BY DEF FindAndLock, At, Parent
<1>2. PICK w \in Candidates(m, stk[k].addr, stk[p].way) : Fails(w) \/ Waits(w) \/ Takes(w)
  BY <1>1
<1>3. stk[k].ev \in FalEvs
  BY <1>1 DEF FalEvs
<1>4. p \in DOMAIN stk /\ p # k /\ m \in Mods /\ Typed(stk[p]) /\ Typed(stk[k])
  BY <1>1, <1>3, FalBefore
<1>5. w \in Ways(m)
  BY <1>2, <1>4, CandidatesIn
<1>6. CacheInv(blk, dir) /\ fresh \in [Blocks -> SUBSET Mods]
  BY <1>1, Before
<1>7. CASE Fails(w)
  <2>1. [s EXCEPT ![p].err = TRUE] = [stk EXCEPT ![p].err = TRUE, ![p].ported = TRUE]
    <3>. DEFINE f == stk[p]
    <3>1. f = [y \in Fields |-> f[y]]
      BY <1>4 DEF Typed
    <3>2. [s EXCEPT ![p].err = TRUE] =
            [stk EXCEPT ![p] = [[f EXCEPT !.err = FALSE, !.ported = TRUE] EXCEPT !.err = TRUE]]
      BY <1>4
    <3>3. [stk EXCEPT ![p].err = TRUE, ![p].ported = TRUE] =
            [stk EXCEPT ![p] = [f EXCEPT !.err = TRUE, !.ported = TRUE]]
      BY <1>4
    <3>. HIDE DEF f
    <3>4. [[f EXCEPT !.err = FALSE, !.ported = TRUE] EXCEPT !.err = TRUE]
            = [f EXCEPT !.err = TRUE, !.ported = TRUE]
      BY <3>1
    <3>. QED BY <3>2, <3>3, <3>4
  <2>2. Sound(stk', lock, acc)
    BY <1>1, <1>7, <2>1, FalFailing
  <2>. QED BY <1>1, <1>6, <1>7, <2>2, Resume
<1>8. CASE Waits(w)
  <2>1. stk' = [stk EXCEPT ![p] = [stk[p] EXCEPT !.err = FALSE, !.ported = TRUE, !.way = w],
                           ![k] = [stk[k] EXCEPT !.n = 0]]
    BY <1>4, <1>8
  <2>2. Sound(stk', lock', acc)
    BY <1>1, <1>5, <1>8, <2>1, FalWaits DEF Queued
  <2>. QED BY <1>1, <1>6, <1>8, <2>2, Resume
<1>9. CASE Takes(w)
  <2>1. stk' = [stk EXCEPT ![p] = [stk[p] EXCEPT !.err = FALSE, !.ported = TRUE],
                           ![k] = [stk[k] EXCEPT !.hit = hits # {}, !.way = w,
                                     !.state = blk[m][w].state,
                                     !.ev = "FIND_AND_LOCK_ACTION", !.now = FALSE]]
    BY <1>4, <1>9 DEF Later
  <2>2. Sound(stk', lock', acc)
    <3>. HIDE DEF hits
    <3>. QED BY <1>1, <1>5, <1>9, <2>1, FalTakes DEF Seized
  <2>3. CacheInv(blk', dir)
    BY <1>4, <1>5, <1>6, <1>9, TransientKeeps DEF Typed
  <2>. QED BY <1>1, <1>6, <1>9, <2>2, <2>3, Resume
<1>. QED BY <1>2, <1>7, <1>8, <1>9

-----------------------------------------------------------------------------
(* The handler of evictions *)

\* What an eviction finds when its event is handled.
LEMMA EvictBefore ==
  ASSUME NmoesiInv, NEW k \in DOMAIN stk, stk[k].n > 0, stk[k].ev \in EvictEvs
  PROVE  /\ Len(k) > 1 /\ Len(k) # 1 /\ Front(k) \in DOMAIN stk /\ Front(k) # k
         /\ stk[Front(k)].ev = "FIND_AND_LOCK_FINISH"
         /\ Typed(stk[Front(k)]) /\ Typed(stk[k]) /\ stk[k].mod \in Mods
         /\ EvictOK(stk[k]) /\ stk[k].n = 1 /\ stk[k].ev \notin Forkers
         /\ NoKids(stk, k) /\ \A m : ~Listed(stk, k, m)
         /\ Module(stk[k]) = stk[k].tgt
<1>1. StackInv(stk, nextId) /\ Typed(stk[k])
  BY Before
<1>2. /\ Len(k) > 1 /\ Len(k) # 1 /\ EvictOK(stk[k])
      /\ Front(k) \in DOMAIN stk /\ Front(k) # k
      /\ stk[Front(k)].ev = "FIND_AND_LOCK_FINISH"
  BY <1>1, EvictFacts
<1>3. stk[k].ev \notin Forkers
  BY DEF EvictEvs, Forkers
<1>4. stk[k].n = 1 /\ NoKids(stk, k)
  BY <1>3, Before
<1>5. Typed(stk[Front(k)])
  BY <1>1, <1>2, Caller
<1>6. \A m : ~Listed(stk, k, m)
  BY <1>2 DEF Listed, EvictEvs, ReadEvs
<1>7. Module(stk[k]) = stk[k].tgt
  BY DEF Module, EvictEvs, AccessEvs, FalEvs
<1>. QED BY <1>1, <1>2, <1>3, <1>4, <1>5, <1>6, <1>7 DEF Typed

LEMMA FreshMinus ==
  ASSUME NmoesiInv, NEW b, NEW m
  PROVE  [fresh EXCEPT ![b] = @ \ {m}] \in [Blocks -> SUBSET Mods]
  BY DEF NmoesiInv

\* Block src of a module goes, if there is such a way.
LEMMA BlockGoes ==
  ASSUME NmoesiInv, NEW m \in Mods, NEW w
  PROVE  CacheInv(SetBlock(blk, m, w, None, "I"), dir)
<1>1. CacheInv(blk, dir)
  BY DEF NmoesiInv
<1>2. None \in Blocks \cup {None} /\ "I" \in States /\ "I" \in {"I", "E", "M"}
  BY DEF States
<1>. QED BY <1>1, <1>2, SetBlockKeeps, NoSuchWay

\* A stack tells its caller that it has failed.
LEMMA TellsError ==
  ASSUME NmoesiInv, NEW k \in DOMAIN stk, Len(k) > 1, NEW v,
         v = [stk EXCEPT ![Front(k)].err = TRUE]
  PROVE  Told(v, k, Free)
<1>. DEFINE f == stk[Front(k)]
            g == [f EXCEPT !.err = TRUE]
<1>1. StackInv(stk, nextId)
  BY DEF NmoesiInv
<1>2. Front(k) \in DOMAIN stk /\ f = [y \in Fields |-> f[y]]
  BY <1>1, Caller DEF Typed
<1>3. v = [stk EXCEPT ![Front(k)] = g]
  BY <1>2
<1>4. g = [f EXCEPT !.err = TRUE]
  OBVIOUS
<1>. HIDE DEF f, g
<1>5. But(f, g, Free \cup {"err"})
  BY <1>2, <1>4 DEF But, Free, Fields
<1>6. g.err \in BOOLEAN
  <2>1. g.err = TRUE
    BY <1>2, <1>4 DEF Fields
  <2>. QED BY <2>1, Zenon
<1>. QED BY <1>3, <1>5, <1>6, CallerTold DEF f

LEMMA EvictKeeps ==
  ASSUME NmoesiInv, NEW k \in DOMAIN stk, Evict(k)
  PROVE  NmoesiInv'
<1>. DEFINE p == Front(k)
            m == stk[k].mod
            w == stk[k].way
            tag == blk[m][w].tag
            st == blk[m][w].state
            to == IF m = MM THEN None ELSE Low[m]
            v == [stk EXCEPT ![p].err = FALSE, ![k].addr = tag, ![k].state = st,
                             ![k].src = w, ![k].tgt = to]
            ev == "EVICT_INVALID"
            c == InvalidateStack(m, w, None)
            f == stk[p]
            g == v[p]
            d == stk[k]
            e == v[k]
<1>1. /\ stk[k].ev = "EVICT" /\ stk[k].n > 0
      /\ UNCHANGED <<blk, dir, lock, acc, nextId, fresh>>
      /\ stk' = Call(v, k, ev, "INV", c)
  BY DEF Evict, At, Parent
<1>2. stk[k].ev \in EvictEvs
  BY <1>1 DEF EvictEvs
<1>3. /\ Len(k) > 1 /\ p \in DOMAIN stk /\ p # k /\ Typed(f) /\ Typed(d) /\ m \in Mods
      /\ EvictOK(d) /\ d.n = 1 /\ d.ev \notin Forkers
  BY <1>1, <1>2, EvictBefore
<1>4. w \in Ways(m)
  BY <1>1, <1>3 DEF EvictOK
<1>5. /\ CacheInv(blk, dir) /\ fresh \in [Blocks -> SUBSET Mods] /\ Sound(stk, lock, acc)
      /\ StackInv(stk, nextId) /\ Whole(stk) /\ d.wait = <<>>
  BY <1>1, Before
<1>6. tag \in Blocks \cup {None} /\ st \in States
  BY <1>3, <1>4, <1>5, CacheAt
<1>7. to \in Mods \cup {None} /\ (m # MM => to = Low[m])
  BY <1>3, TreeAssumption
<1>8. /\ DOMAIN v = DOMAIN stk /\ \A x \in DOMAIN stk : x # k /\ x # p => v[x] = stk[x]
      /\ g = [f EXCEPT !.err = FALSE]
      /\ e = [d EXCEPT !.addr = tag, !.state = st, !.src = w, !.tgt = to]
  BY <1>3
<1>9. f = [y \in Fields |-> f[y]] /\ d = [y \in Fields |-> d[y]]
  BY <1>3 DEF Typed
<1>10. ev \notin Forkers /\ "INV" \in {"FAL", "EVICT", "INV", "REQ"}
  BY DEF Forkers
<1>. HIDE DEF f, g, d, e, v, c, to, st, tag, m, w
<1>11. But(f, g, Free \cup {"err"})
  BY <1>8, <1>9 DEF But, Free, Fields
<1>12. g.err \in BOOLEAN
  <2>1. g.err = FALSE
    BY <1>8, <1>9 DEF Fields
  <2>. QED BY <2>1, Zenon
<1>13. But(d, e, Free \cup {"addr", "state", "tgt"}) /\ e.addr = tag /\ e.state = st /\ e.tgt = to
  BY <1>8, <1>9 DEF But, Free, Fields
<1>14. Beside(stk, v, k)
  <2>1. \A x \in DOMAIN stk : x # k /\ x # p => But(stk[x], v[x], Free)
    BY <1>5, <1>8, Caller, ButSelf
  <2>. QED BY <1>3, <1>11, <1>12, <2>1 DEF Beside, f, g
<1>15. Whole(v)
  <2>1. e = [y \in Fields |-> e[y]] /\ g = [y \in Fields |-> g[y]]
    BY <1>11, <1>13 DEF But
  <2>2. ASSUME NEW x \in DOMAIN v
        PROVE  v[x] = [y \in Fields |-> v[x][y]]
    <3>1. CASE x # k /\ x # p
      BY <1>5, <1>8, <2>2, <3>1 DEF Whole
    <3>. QED BY <2>1, <3>1 DEF e, g
  <2>. QED BY <2>2 DEF Whole
<1>16. ASSUME NEW h, But(e, h, {"ev", "n"}), h.ev = ev, h.n = 0
       PROVE  Goes(stk, k, h) /\ Begins(h, "INV", c) /\ KeepsWay(stk[k], h)
  <2>1. /\ h = [y \in Fields |-> h[y]] /\ h.addr = tag /\ h.state = st /\ h.tgt = to
        /\ h.mod = d.mod /\ h.pending = d.pending /\ h.err = d.err /\ h.down = d.down
        /\ h.wait = <<>>
    BY <1>5, <1>13, <1>16 DEF But, Free, Fields
  <2>2. Typed(h)
    BY <1>3, <1>6, <1>7, <1>16, <2>1 DEF Typed
  <2>3. EvictOK(h)
    BY <1>7, <1>16, <2>1 DEF EvictOK, EvictEvs, m, d
  <2>4. Goes(stk, k, h)
    BY <1>2, <1>5, <2>2, <2>3, EvictGoes
  <2>5. h.ev \in InvCallers
    BY <1>16 DEF InvCallers
  <2>6. Begins(h, "INV", c)
    BY <1>3, <1>4, <1>16, <2>5, InvBegins DEF c
  <2>7. KeepsWay(stk[k], h)
    BY <1>1, <1>16 DEF KeepsWay, Locks, Lockers, FalCallers
  <2>. QED BY <2>4, <2>6, <2>7
<1>17. Starting(v, k, ev, "INV", c)
  BY <1>16 DEF Starting, e
<1>18. v[k].n = 1
  BY <1>3, <1>13 DEF But, Free, Fields, e
<1>19. Sound(stk', lock, acc)
  BY <1>1, <1>3, <1>5, <1>8, <1>10, <1>14, <1>15, <1>17, <1>18, CallsOut DEF d
<1>. QED BY <1>1, <1>5, <1>19, Resume

LEMMA EvictInvalidKeeps ==
  ASSUME NmoesiInv, NEW k \in DOMAIN stk, EvictInvalid(k)
  PROVE  NmoesiInv'
<1>1. /\ stk[k].ev = "EVICT_INVALID" /\ stk[k].n > 0
      /\ UNCHANGED <<dir, lock, acc, nextId, fresh>>
      /\ \/ /\ stk[k].mod = MM /\ blk' = SetBlock(blk, MM, stk[k].src, None, "I")
            /\ stk' = Return(stk, k)
         \/ /\ stk[k].mod # MM /\ stk' = Goto(stk, k, "EVICT_ACTION") /\ UNCHANGED blk
  BY DEF EvictInvalid, At
<1>2. stk[k].ev \in EvictEvs \ {"EVICT"} /\ ~Locks(stk[k]) /\ stk[k].ev \notin FalEvs
  BY <1>1 DEF EvictEvs, Locks, Lockers, FalCallers, FalEvs
<1>3. /\ NoKids(stk, k) /\ \A m : ~Listed(stk, k, m)
  BY <1>1, <1>2, EvictBefore
<1>4. CacheInv(blk, dir) /\ fresh \in [Blocks -> SUBSET Mods] /\ Sound(stk, lock, acc)
  BY <1>1, Before
<1>5. Told(stk, k, Free)
  BY FreeSame, FreeTold
<1>6. CASE stk' = Return(stk, k) /\ blk' = SetBlock(blk, MM, stk[k].src, None, "I")
  <2>1. Sound(stk', lock, acc)
    BY <1>1, <1>2, <1>3, <1>4, <1>6, ReturnsOn
  <2>2. CacheInv(blk', dir)
    BY <1>6, BlockGoes, TreeAssumption
  <2>. QED BY <1>1, <1>4, <2>1, <2>2, Resume
<1>7. CASE stk[k].mod # MM /\ stk' = Goto(stk, k, "EVICT_ACTION") /\ UNCHANGED blk
  <2>1. "EVICT_ACTION" \in EvictEvs \ {"EVICT", "EVICT_INVALID", "EVICT_PROCESS"}
    BY DEF EvictEvs
  <2>2. Scheduled(stk', stk, k, "EVICT_ACTION")
    BY <1>7 DEF Scheduled
  <2>3. Sound(stk', lock, acc)
    BY <1>1, <1>2, <1>5, <1>7, <2>1, <2>2, InnerKeeps
  <2>. QED BY <1>1, <1>4, <1>7, <2>3, Resume
<1>. QED BY <1>1, <1>6, <1>7

LEMMA EvictActionKeeps ==
  ASSUME NmoesiInv, NEW k \in DOMAIN stk, EvictAction(k)
  PROVE  NmoesiInv'
<1>. DEFINE r == IF stk[k].state \in Dirty THEN "ACK_DATA" ELSE "ACK"
            q == stk[k].mod \in fresh[stk[k].addr]
            v == [stk EXCEPT ![k].reply = r, ![k].good = q]
            d == stk[k]
            g == [d EXCEPT !.reply = r, !.good = q]
            ev == "EVICT_RECEIVE"
<1>1. /\ stk[k].ev = "EVICT_ACTION" /\ stk[k].n > 0
      /\ UNCHANGED <<blk, dir, lock, acc, nextId, fresh>>
      /\ stk' = Return(stk, k) \/ stk' = Later(v, k, ev)
  BY DEF EvictAction, At
<1>2. /\ stk[k].ev \in EvictEvs \ {"EVICT"} /\ ~Locks(stk[k]) /\ stk[k].ev \notin FalEvs
      /\ ev \in EvictEvs \ {"EVICT", "EVICT_INVALID", "EVICT_PROCESS"}
  BY <1>1 DEF EvictEvs, Locks, Lockers, FalCallers, FalEvs
<1>3. /\ NoKids(stk, k) /\ (\A m : ~Listed(stk, k, m)) /\ Typed(d) /\ EvictOK(d)
  BY <1>1, <1>2, EvictBefore
<1>4. CacheInv(blk, dir) /\ fresh \in [Blocks -> SUBSET Mods] /\ Sound(stk, lock, acc)
  BY <1>1, Before
<1>5. d.mod # MM
  BY <1>1, <1>3 DEF EvictOK
<1>6. Told(v, k, Free)
  <2>1. d = [y \in Fields |-> d[y]]
    BY <1>3 DEF Typed
  <2>2. v = [stk EXCEPT ![k] = g] /\ g = [d EXCEPT !.reply = r, !.good = q]
    OBVIOUS
  <2>. HIDE DEF v, g, r, q, d
  <2>3. But(d, g, Free)
    BY <2>1, <2>2 DEF But, Free, Fields
  <2>. QED BY <2>2, <2>3, FreeAt, FreeTold DEF d
<1>7. Sound(stk', lock, acc)
  <2>1. CASE stk' = Return(stk, k)
    BY <1>1, <1>2, <1>3, <1>4, <2>1, ReturnsOn
  <2>2. CASE stk' = Later(v, k, ev)
    <3>1. Scheduled(stk', v, k, ev)
      BY <2>2 DEF Scheduled
    <3>. HIDE DEF v
    <3>. QED BY <1>1, <1>2, <1>5, <1>6, <3>1, InnerKeeps
  <2>. QED BY <1>1, <2>1, <2>2
<1>. QED BY <1>1, <1>4, <1>7, Resume

LEMMA EvictReceiveKeeps ==
  ASSUME NmoesiInv, NEW k \in DOMAIN stk, EvictReceive(k)
  PROVE  NmoesiInv'
<1>. DEFINE ev == "EVICT_PROCESS"
            m == stk[k].tgt
<1>1. /\ stk[k].ev = "EVICT_RECEIVE" /\ stk[k].n > 0
      /\ UNCHANGED <<blk, dir, lock, acc, nextId, fresh>>
      /\ stk' = Call(stk, k, ev, "FAL", FalStack(m, stk[k].addr, TRUE, FALSE))
  BY DEF EvictReceive, At
<1>2. /\ stk[k].ev \in EvictEvs /\ stk[k].ev # "EVICT" /\ ~Locks(stk[k])
      /\ ev \in EvictEvs \ {"EVICT", "EVICT_INVALID"} /\ ev \in FalCallers
  BY <1>1 DEF EvictEvs, Locks, Lockers, FalCallers
<1>3. /\ Typed(stk[k]) /\ EvictOK(stk[k]) /\ stk[k].ev \notin Forkers
      /\ stk[k].mod \in Mods /\ Module(stk[k]) = m
  BY <1>1, <1>2, EvictBefore
<1>4. /\ CacheInv(blk, dir) /\ fresh \in [Blocks -> SUBSET Mods] /\ Sound(stk, lock, acc)
      /\ StackInv(stk, nextId)
  BY <1>1, Before
<1>5. stk[k].mod # MM /\ m \in Mods
  BY <1>1, <1>3, TreeAssumption DEF EvictOK
<1>6. MayCall(k, ev, m)
  <2>1. ASSUME NEW g, But(stk[k], g, {"ev", "n"}), g.ev = ev, g.n = 0
        PROVE  Goes(stk, k, g) /\ Module(g) = m
    <3>1. But(stk[k], g, Free \cup {"ev", "n"})
      BY <2>1 DEF But
    <3>. QED BY <1>1, <1>2, <1>3, <1>4, <1>5, <2>1, <3>1, EvictMoves
  <2>. QED BY <2>1 DEF MayCall
<1>7. stk[k].addr \in Blocks \cup {None}
  BY <1>3 DEF Typed
<1>8. Sound(stk', lock, acc)
  BY <1>1, <1>2, <1>3, <1>4, <1>5, <1>6, <1>7, CallsFal
<1>. QED BY <1>1, <1>4, <1>8, Resume

LEMMA EvictReplyReceiveKeeps ==
  ASSUME NmoesiInv, NEW k \in DOMAIN stk, EvictReplyReceive(k)
  PROVE  NmoesiInv'
<1>1. /\ stk[k].ev = "EVICT_REPLY_RECEIVE" /\ stk[k].n > 0
      /\ UNCHANGED <<dir, lock, acc, nextId>>
      /\ \/ UNCHANGED <<blk, fresh>>
         \/ /\ blk' = SetBlock(blk, stk[k].mod, stk[k].src, None, "I")
            /\ fresh' = [fresh EXCEPT ![stk[k].addr] = @ \ {stk[k].mod}]
      /\ stk' = Return(stk, k)
  BY DEF EvictReplyReceive, At
<1>2. stk[k].ev \in EvictEvs /\ ~Locks(stk[k]) /\ stk[k].ev \notin FalEvs
  BY <1>1 DEF EvictEvs, Locks, Lockers, FalCallers, FalEvs
<1>3. /\ NoKids(stk, k) /\ (\A m : ~Listed(stk, k, m)) /\ stk[k].mod \in Mods
  BY <1>1, <1>2, EvictBefore
<1>4. CacheInv(blk, dir) /\ fresh \in [Blocks -> SUBSET Mods] /\ Sound(stk, lock, acc)
  BY <1>1, Before
<1>5. Sound(stk', lock, acc)
  BY <1>1, <1>2, <1>3, <1>4, ReturnsOn
<1>6. CacheInv(blk', dir)
  BY <1>1, <1>3, <1>4, BlockGoes
<1>7. fresh' \in [Blocks -> SUBSET Mods]
  BY <1>1, <1>4, FreshMinus
<1>. QED BY <1>1, <1>5, <1>6, <1>7, Resume

LEMMA ClearNodeIs ==
  ASSUME NEW e \in EntryType, NEW m
  PROVE  ClearNode(e, m) \in EntryType
  BY DEF ClearNode, EntryType

LEMMA EvictProcessKeeps ==
  ASSUME NmoesiInv, NEW k \in DOMAIN stk, EvictProcess(k)
  PROVE  NmoesiInv'
<1>. DEFINE p == Front(k)
            ev == "EVICT_REPLY_RECEIVE"
            m == stk[k].tgt
            w == stk[k].way
            next == Later(stk, k, ev)
            v == [stk EXCEPT ![p].err = TRUE]
            Fails == /\ stk[k].err /\ stk' = [next EXCEPT ![p].err = TRUE]
                     /\ UNCHANGED <<blk, dir, lock, fresh>>
            Works == /\ ~stk[k].err
                     /\ \/ /\ blk' = SetBlock(blk, m, w, stk[k].addr, "M")
                           /\ fresh' = Receive(m, stk[k].addr, stk[k].good)
                        \/ UNCHANGED <<blk, fresh>>
                     /\ dir' = [dir EXCEPT ![m][w] = ClearNode(@, stk[k].mod)]
                     /\ lock' = Unlocked(m, w)
                     /\ stk' = Wake(next, m, w)
<1>1. /\ stk[k].ev = "EVICT_PROCESS" /\ stk[k].n > 0 /\ UNCHANGED <<acc, nextId>>
      /\ Fails \/ Works
  BY DEF EvictProcess, At, Parent
<1>2. /\ stk[k].ev \in EvictEvs \ {"EVICT"} /\ stk[k].ev \in FalCallers
      /\ ev \in EvictEvs \ {"EVICT", "EVICT_INVALID", "EVICT_PROCESS"}
      /\ ev \notin Lockers /\ ev \notin FalCallers /\ stk[k].ev \notin Lockers
  BY <1>1 DEF EvictEvs, FalCallers, Lockers
<1>3. /\ Len(k) > 1 /\ Front(k) \in DOMAIN stk /\ Front(k) # k
      /\ Typed(stk[k]) /\ EvictOK(stk[k]) /\ NoKids(stk, k)
      /\ stk[k].mod \in Mods /\ Module(stk[k]) = m
  BY <1>1, <1>2, EvictBefore
<1>4. /\ CacheInv(blk, dir) /\ fresh \in [Blocks -> SUBSET Mods] /\ Sound(stk, lock, acc)
      /\ StackInv(stk, nextId) /\ LockInv(stk, lock)
  BY <1>1, Before DEF Sound
<1>5. stk[k].mod # MM
  BY <1>1, <1>3 DEF EvictOK
<1>6. CASE Fails
  <2>1. stk' = Later(v, k, ev)
    BY <1>3, <1>6 DEF Later
  <2>2. Told(v, k, Free)
    BY <1>3, TellsError
  <2>3. ~Locks(stk[k])
    BY <1>2, <1>6 DEF Locks
  <2>. HIDE DEF v
  <2>4. Sound(stk', lock, acc)
    BY <1>1, <1>2, <1>5, <2>1, <2>2, <2>3, InnerKeeps DEF Scheduled
  <2>. QED BY <1>1, <1>4, <1>6, <2>4, Resume
<1>7. CASE Works
  <2>1. Locks(stk[k])
    BY <1>1, <1>2, <1>7 DEF Locks
  <2>2. m \in Mods /\ w \in Ways(m)
    BY <1>3, <1>4, <2>1, LockedWay
  <2>3. Told(stk, k, Free)
    BY FreeSame, FreeTold
  <2>4. Scheduled(next, stk, k, ev)
    BY DEF Scheduled
  <2>. HIDE DEF next
  <2>5. Alone(stk, next, k) /\ next[k].ev = ev
    BY <1>1, <1>2, <1>5, <2>3, <2>4, InnerGoesOn
  <2>6. ~Locks(next[k]) /\ next[k].ev # "FIND_AND_LOCK"
    BY <1>2, <2>5 DEF Locks
  <2>7. Sound(stk', lock', acc)
    BY <1>1, <1>3, <1>4, <1>7, <2>1, <2>5, <2>6, UnlocksOn
  <2>8. CacheInv(blk', dir)
    <3>1. "M" \in States /\ "M" \in {"I", "E", "M"} /\ stk[k].addr \in Blocks \cup {None}
      BY <1>3 DEF States, Typed
    <3>2. CacheInv(SetBlock(blk, m, w, stk[k].addr, "M"), dir)
      BY <1>4, <2>2, <3>1, SetBlockKeeps
    <3>. QED BY <1>4, <1>7, <3>2
  <2>9. CacheInv(blk', dir')
    <3>. DEFINE e == ClearNode(dir[m][w], stk[k].mod)
    <3>1. dir[m][w] \in EntryType
      BY <1>4, <2>2, CacheAt
    <3>2. e \in EntryType
      BY <3>1, ClearNodeIs
    <3>3. dir' = [dir EXCEPT ![m][w] = e]
      BY <1>7
    <3>. HIDE DEF e
    <3>. QED BY <2>2, <2>8, <3>2, <3>3, EntryKeeps
  <2>10. fresh' \in [Blocks -> SUBSET Mods]
    BY <1>4, <1>7, <2>2, ReceiveKeeps
  <2>. QED BY <1>1, <2>7, <2>9, <2>10, Resume
<1>. QED BY <1>1, <1>6, <1>7

-----------------------------------------------------------------------------
(* The handler of invalidations *)

\* What an invalidation finds when its event is handled.
LEMMA InvBefore ==
  ASSUME NmoesiInv, NEW k \in DOMAIN stk, stk[k].n > 0, stk[k].ev \in InvEvs
  PROVE  /\ Len(k) > 1 /\ Len(k) # 1 /\ Front(k) \in DOMAIN stk /\ Front(k) # k
         /\ Typed(stk[Front(k)]) /\ Typed(stk[k]) /\ stk[k].mod \in Mods
         /\ InvOK(stk[k]) /\ stk[k].way \in Ways(stk[k].mod)
         /\ \A m : ~Listed(stk, k, m)
         /\ ~Locks(stk[k]) /\ stk[k].ev \notin FalEvs
<1>1. StackInv(stk, nextId) /\ Typed(stk[k])
  BY Before
<1>2. /\ Len(k) > 1 /\ Len(k) # 1 /\ InvOK(stk[k])
      /\ Front(k) \in DOMAIN stk /\ Front(k) # k
  BY <1>1, InvFacts
<1>3. Typed(stk[Front(k)])
  BY <1>1, <1>2, Caller
<1>4. \A m : ~Listed(stk, k, m)
  BY <1>2 DEF Listed, InvEvs, ReadEvs
<1>5. ~Locks(stk[k]) /\ stk[k].ev \notin FalEvs
  BY DEF Locks, InvEvs, Lockers, FalCallers, FalEvs
<1>. QED BY <1>1, <1>2, <1>3, <1>4, <1>5 DEF Typed, InvOK

\* One of several replies has come, not the last.
LEMMA CountsDown ==
  ASSUME NmoesiInv, NEW k \in DOMAIN stk, stk[k].n > 0, stk[k].ev \in Forkers,
         ~LastPending(k)
  PROVE  Sound(Countdown(stk, k), lock, acc)
<1>. DEFINE t == Countdown(stk, k)
            f == stk[k]
            g == t[k]
<1>1. /\ StackInv(stk, nextId) /\ LockInv(stk, lock) /\ ListInv(stk, acc) /\ Typed(f)
      /\ f.pending # 1
  BY Before DEF Sound, LastPending
<1>2. /\ DOMAIN t = DOMAIN stk /\ \A x \in DOMAIN stk : x # k => t[x] = stk[x]
      /\ g = [f EXCEPT !.pending = f.pending - 1, !.n = f.n - 1]
  BY DEF Countdown
<1>3. f = [y \in Fields |-> f[y]]
  BY <1>1 DEF Typed
<1>. HIDE DEF t, f, g
<1>4. But(f, g, {"n", "pending"}) /\ g.n = f.n - 1 /\ g.pending = f.pending - 1
  BY <1>2, <1>3 DEF But, Fields
<1>5. g.ev = f.ev /\ g.way = f.way /\ g.tgt = f.tgt /\ g.mod = f.mod /\ g.down = f.down
  BY <1>4 DEF But, Fields
<1>6. \A x \in DOMAIN stk : Near(stk[x], stk[x])
  BY <1>1, Caller, NearSelf
<1>7. Recounts(stk, t, k)
  BY <1>2, <1>4, <1>6 DEF Recounts, f, g
<1>8. StackInv(t, nextId)
  BY <1>1, <1>7, StackRecounts DEF f
<1>9. Quiet(stk, t, k, <<>>)
  <2>1. Len(k) > 1 => Front(k) \in DOMAIN stk /\ Front(k) # k
    BY <1>1, Caller
  <2>2. \A x : ~Woken(<<>>, x)
    BY DEF Woken
  <2>. QED BY <1>2, <1>6, <2>1, <2>2 DEF Quiet, Aside, Same, Asleep
<1>10. CallerSame(stk, t, k)
  <2>1. Len(k) > 1 => Front(k) \in DOMAIN stk /\ Front(k) # k
    BY <1>1, Caller
  <2>. QED BY <1>2, <2>1 DEF CallerSame, SameHeld, HoldsWay
<1>11. SameHeld(stk, t, k) /\ ~Asleep(t, k)
  BY <1>2, <1>5 DEF SameHeld, HoldsWay, Locks, Module, Forkers, FalCallers, Asleep, f, g
<1>12. LockInv(t, lock)
  BY <1>1, <1>9, <1>10, <1>11, KeepsLocks
<1>13. \A x, m : Listed(t, x, m) <=> Listed(stk, x, m)
  BY <1>2, <1>5 DEF Listed, f, g
<1>14. ListInv(t, acc)
  BY <1>1, <1>13, ListKeeps
<1>. QED BY <1>8, <1>12, <1>14 DEF Sound, t

LEMMA InvalidateFinishKeeps ==
  ASSUME NmoesiInv, NEW k \in DOMAIN stk, InvalidateFinish(k)
  PROVE  NmoesiInv'
<1>1. /\ stk[k].ev = "INVALIDATE_FINISH" /\ stk[k].n > 0
      /\ UNCHANGED <<blk, dir, lock, acc, nextId, fresh>>
      /\ stk' = IF LastPending(k) THEN Return(stk, k) ELSE Countdown(stk, k)
  BY DEF InvalidateFinish, At
<1>2. stk[k].ev \in InvEvs /\ stk[k].ev \in Forkers
  BY <1>1 DEF InvEvs, Forkers
<1>3. /\ CacheInv(blk, dir) /\ fresh \in [Blocks -> SUBSET Mods] /\ Sound(stk, lock, acc)
      /\ StackInv(stk, nextId)
  BY <1>1, Before
<1>4. CASE LastPending(k)
  <2>1. NoKids(stk, k)
    BY <1>1, <1>3, <1>4, Childless DEF LastPending
  <2>2. ~Locks(stk[k]) /\ stk[k].ev \notin FalEvs /\ \A m : ~Listed(stk, k, m)
    BY <1>1, <1>2, InvBefore
  <2>3. Sound(stk', lock, acc)
    BY <1>1, <1>3, <1>4, <2>1, <2>2, ReturnsOn
  <2>. QED BY <1>1, <1>3, <2>3, Resume
<1>5. CASE ~LastPending(k)
  <2>1. Sound(stk', lock, acc)
    BY <1>1, <1>2, <1>5, CountsDown
  <2>. QED BY <1>1, <1>3, <2>1, Resume
<1>. QED BY <1>4, <1>5

\* So many sharers are to be invalidated.
LEMMA Outs ==
  ASSUME NEW o \in SUBSET (Mods \ {MM})
  PROVE  /\ IsFiniteSet(o) /\ Cardinality(o) \in Nat
         /\ 1 + Cardinality(o) \in 1..Cardinality(Mods) /\ o \cap Mods = o
<1>1. IsFiniteSet(Mods) /\ MM \in Mods
  BY TreeAssumption
<1>2. /\ IsFiniteSet(Mods \ {MM}) /\ Cardinality(Mods \ {MM}) = Cardinality(Mods) - 1
      /\ Cardinality(Mods) \in Nat /\ Cardinality(Mods \ {MM}) \in Nat
  BY <1>1, FS_RemoveElement, FS_CardinalityType
<1>3. IsFiniteSet(o) /\ Cardinality(o) <= Cardinality(Mods \ {MM})
  BY <1>2, FS_Subset
<1>4. Cardinality(o) \in Nat
  BY <1>3, FS_CardinalityType
<1>. QED BY <1>2, <1>3, <1>4

\* In t, stack k has asked those of o to invalidate block b.
Asked(t, k, o, b) ==
  /\ DOMAIN t = DOMAIN stk \cup {Append(k, l) : l \in o}
  /\ \A x \in DOMAIN stk : x # k => t[x] = stk[x]
  /\ \A l \in o : t[Append(k, l)] = WriteStack(stk[k].mod, l, b, FALSE)
  /\ t[k] = [stk[k] EXCEPT !.ev = "INVALIDATE_FINISH", !.addr = b,
                            !.pending = 1 + Cardinality(o)]

LEMMA InvalidateForks ==
  ASSUME NmoesiInv, NEW k \in DOMAIN stk, stk[k].n > 0, stk[k].ev = "INVALIDATE",
         NEW o \in SUBSET (Mods \ {MM}), NEW b \in Blocks \cup {None}, NEW t,
         Asked(t, k, o, b)
  PROVE  Sound(t, lock, acc)
<1>. DEFINE f == stk[k]
            g == t[k]
            p == Front(k)
            c == Cardinality(o)
<1>1. f.ev \in InvEvs /\ f.ev \notin Forkers
  BY DEF InvEvs, Forkers, f
<1>2. /\ Len(k) > 1 /\ Len(k) # 1 /\ p \in DOMAIN stk /\ p # k
      /\ Typed(f) /\ f.mod \in Mods /\ InvOK(f) /\ ~Locks(f)
  BY <1>1, InvBefore
<1>3. /\ StackInv(stk, nextId) /\ LockInv(stk, lock) /\ ListInv(stk, acc)
      /\ NoKids(stk, k) /\ f.n = 1 /\ f.wait = <<>>
  BY <1>1, Before DEF Sound
<1>4. /\ IsFiniteSet(o) /\ c \in Nat /\ 1 + c \in 1..Cardinality(Mods) /\ o \cap Mods = o
  BY Outs
<1>5. f = [y \in Fields |-> f[y]]
  BY <1>2 DEF Typed
<1>6. g = [f EXCEPT !.ev = "INVALIDATE_FINISH", !.addr = b, !.pending = 1 + c]
  BY DEF Asked
<1>. HIDE DEF f, g, c
<1>7. /\ But(f, g, {"ev", "addr", "pending"}) /\ g.ev = "INVALIDATE_FINISH" /\ g.addr = b
      /\ g.pending = 1 + c
  BY <1>5, <1>6 DEF But, Fields
<1>8. /\ g = [y \in Fields |-> g[y]] /\ g.n = f.n /\ g.mod = f.mod /\ g.tgt = f.tgt
      /\ g.state = f.state /\ g.err = f.err /\ g.down = f.down /\ g.wait = f.wait
      /\ g.way = f.way
  BY <1>7 DEF But, Fields
<1>9. Typed(g)
  BY <1>2, <1>3, <1>4, <1>7, <1>8 DEF Typed
<1>10. InvOK(g) /\ g.ev \in Forkers
  BY <1>2, <1>7, <1>8 DEF InvOK, InvEvs, Forkers
<1>11. Goes(stk, k, g)
  BY <1>1, <1>3, <1>9, <1>10, InvGoes DEF f
<1>12. Counted(g, Cardinality(o \cap Mods))
  BY <1>3, <1>4, <1>7, <1>8, <1>10 DEF Counted, c
<1>13. \A l \in o : Begins(g, l, t[Append(k, l)])
  <2>1. SUFFICES ASSUME NEW l \in o
                 PROVE  Begins(g, l, t[Append(k, l)])
    OBVIOUS
  <2>. DEFINE h == WriteStack(f.mod, l, b, FALSE)
  <2>2. t[Append(k, l)] = h
    BY DEF f, Asked
  <2>3. Made(h, "WRITE_REQUEST_RECEIVE", f.mod, b, l, FALSE, 0)
    BY WriteStackIs
  <2>. HIDE DEF h
  <2>4. l \in Mods /\ l # MM /\ FALSE \in BOOLEAN
    OBVIOUS
  <2>. QED BY <1>2, <1>10, <2>2, <2>3, <2>4, RequestBegins
<1>14. Around(stk, t, k)
  <2>1. \A x \in DOMAIN stk : Aside(k, x) => But(stk[x], t[x], Free)
    BY <1>3, Caller, ButSelf DEF Aside, Asked
  <2>2. Near(stk[p], t[p])
    BY <1>2, <1>3, Caller, NearSelf DEF Asked
  <2>. QED BY <2>1, <2>2 DEF Around
<1>15. Onward(stk, t, k, o)
  BY <1>11, <1>12, <1>13, <1>14 DEF Onward, Asked, g
<1>16. o \in SUBSET Labels
  BY DEF Labels
<1>17. ~Locks(t[k]) /\ t[k].n > 0
  <2>1. g.n > 0
    BY <1>3, <1>8
  <2>2. ~Locks(g)
    BY <1>7 DEF Locks, Lockers, FalCallers
  <2>. QED BY <2>1, <2>2 DEF g
<1>18. StackInv(t, nextId) /\ LockInv(t, lock) /\ ListInv(t, acc)
  BY <1>2, <1>3, <1>15, <1>16, <1>17, StepKeeps DEF f
<1>. QED BY <1>18 DEF Sound

LEMMA InvalidateKeeps ==
  ASSUME NmoesiInv, NEW k \in DOMAIN stk, Invalidate(k)
  PROVE  NmoesiInv'
<1>. DEFINE f == stk[k]
            m == f.mod
            w == f.way
            e == dir[m][w]
            b == blk[m][w].tag
            o == e.sharers \ {f.tgt}
            kids == {Append(k, s) : s \in o}
            self == [f EXCEPT !.ev = "INVALIDATE_FINISH", !.addr = b,
                              !.pending = 1 + Cardinality(o)]
            r == [owner   |-> IF e.owner \in o THEN None ELSE e.owner,
                  sharers |-> e.sharers \ o]
<1>1. /\ f.ev = "INVALIDATE" /\ f.n > 0
      /\ UNCHANGED <<blk, lock, acc, nextId, fresh>>
      /\ dir' = [dir EXCEPT ![m][w] = r]
      /\ stk' = [x \in DOMAIN stk \cup kids |->
                     CASE x = k       -> self
                       [] x \in kids  -> WriteStack(m, Last(x), b, FALSE)
                       [] OTHER       -> stk[x]]
  BY DEF Invalidate, At
<1>2. f.ev \in InvEvs /\ f.ev \notin Forkers
  BY <1>1 DEF InvEvs, Forkers
<1>3. m \in Mods /\ w \in Ways(m)
  BY <1>1, <1>2, InvBefore
<1>4. /\ CacheInv(blk, dir) /\ fresh \in [Blocks -> SUBSET Mods]
      /\ StackInv(stk, nextId) /\ k \in Paths /\ NoKids(stk, k)
  BY <1>1, <1>2, Before
<1>5. e \in EntryType /\ b \in Blocks \cup {None}
  BY <1>3, <1>4, CacheAt
<1>6. o \in SUBSET (Mods \ {MM})
  BY <1>5 DEF EntryType
<1>7. r \in EntryType
  BY <1>5 DEF EntryType
<1>8. \A l \in o : /\ Append(k, l) \notin DOMAIN stk /\ Append(k, l) # k
                   /\ Last(Append(k, l)) = l
  BY <1>1, <1>4, <1>6, Running, PathAppend DEF Labels
<1>. HIDE DEF f, m, w, e, b, o, self, r
<1>9. /\ DOMAIN stk' = DOMAIN stk \cup {Append(k, l) : l \in o}
      /\ \A x \in DOMAIN stk : x # k => stk'[x] = stk[x]
      /\ stk'[k] = self
  BY <1>1, <1>8
<1>10. \A l \in o : stk'[Append(k, l)] = WriteStack(m, l, b, FALSE)
  BY <1>1, <1>8
<1>13. Asked(stk', k, o, b)
  BY <1>9, <1>10 DEF Asked, self, f, m
<1>11. Sound(stk', lock, acc)
  BY <1>1, <1>5, <1>6, <1>13, InvalidateForks DEF f
<1>12. CacheInv(blk, dir')
  BY <1>1, <1>3, <1>4, <1>7, EntryKeeps
<1>. QED BY <1>1, <1>4, <1>11, <1>12, Resume

-----------------------------------------------------------------------------
(* Requests *)

\* What a request finds when its event is handled.
LEMMA RequestBefore ==
  ASSUME NmoesiInv, NEW k \in DOMAIN stk, stk[k].n > 0, stk[k].ev \in WriteEvs \cup ReadEvs
  PROVE  /\ Len(k) > 1 /\ Len(k) # 1 /\ Front(k) \in DOMAIN stk /\ Front(k) # k
         /\ Typed(stk[Front(k)]) /\ Typed(stk[k]) /\ stk[k].mod \in Mods
         /\ stk[k].tgt \in Mods /\ stk[k].addr \in Blocks \cup {None}
         /\ RequestOK(stk[k]) /\ Module(stk[k]) = stk[k].tgt
         /\ stk[k].down => stk[k].mod # MM
         /\ ~stk[k].down => stk[k].tgt # MM
         /\ \A c : Listed(stk, k, c) <=> InList(stk[k]) /\ c = stk[k].tgt
         /\ stk[k].ev \notin FalEvs
<1>1. StackInv(stk, nextId) /\ Typed(stk[k])
  BY Before
<1>2. /\ Len(k) > 1 /\ Len(k) # 1 /\ RequestOK(stk[k]) /\ stk[k].tgt \in Mods
      /\ Front(k) \in DOMAIN stk /\ Front(k) # k
      /\ Downward(stk[Front(k)], Last(k), stk[k]) \/ Upward(stk[Front(k)], Last(k), stk[k])
  BY <1>1, RequestFacts
<1>3. Typed(stk[Front(k)])
  BY <1>1, <1>2, Caller
<1>4. Module(stk[k]) = stk[k].tgt /\ stk[k].ev \notin FalEvs
  BY DEF Module, WriteEvs, ReadEvs, AccessEvs, FalEvs
<1>5. \A c : Listed(stk, k, c) <=> InList(stk[k]) /\ c = stk[k].tgt
  BY <1>2 DEF Listed, InList
<1>. QED BY <1>1, <1>2, <1>3, <1>4, <1>5 DEF Typed, Downward, Upward

\* Event ev suits the request k, scheduled n times.
Fits(k, ev, n) ==
  \A g : /\ Kept(stk[k], g) /\ g.ev = ev /\ g.n = n
         /\ ev = "READ_REQUEST_UPDOWN_MISS" => g.pending = 1
         => RequestOK(g) /\ (InList(g) <=> InList(stk[k]))

\* Nothing that k has called is under way.
Settled(k) == stk[k].ev \notin Forkers \/ LastPending(k)
LEMMA SettledIs ==
  ASSUME NmoesiInv, NEW k \in DOMAIN stk, stk[k].n > 0, Settled(k)
  PROVE  stk[k].n = 1 /\ NoKids(stk, k)
<1>1. StackInv(stk, nextId) /\ Typed(stk[k])
  BY Before
<1>2. NoKids(stk, k)
  BY <1>1, Childless DEF Settled, LastPending
<1>3. CASE stk[k].ev \notin Forkers
  BY <1>3, <1>2, Before
<1>4. CASE stk[k].ev \in Forkers
  <2>. DEFINE c == Cardinality(Kids(stk, k))
  <2>1. Counted(stk[k], c) /\ c \in Nat
    BY <1>1, KidsFinite DEF StackInv, Counts
  <2>. HIDE DEF c
  <2>2. stk[k].n + c = 1 /\ stk[k].n \in Nat
    BY <1>1, <1>4, <2>1 DEF Counted, Settled, LastPending, Typed
  <2>. QED BY <1>2, <2>1, <2>2
<1>. QED BY <1>3, <1>4

\* A request goes on in event ev, with v for the stacks.
Resumes(k, v, ev, u) ==
  /\ Told(v, k, Free \cup {"pending"}) /\ v[k].pending \in Nat
  /\ ev # "READ_REQUEST_UPDOWN_MISS" /\ Scheduled(u, v, k, ev) /\ Fits(k, ev, 1)
  /\ ev \in Forkers => v[k].pending = 1
LEMMA RequestGoesOn ==
  ASSUME NmoesiInv, NEW k \in DOMAIN stk, stk[k].n > 0, stk[k].ev \in WriteEvs \cup ReadEvs,
         Settled(k), NEW v, NEW ev, NEW u, Resumes(k, v, ev, u)
  PROVE  /\ Alone(stk, u, k) /\ u[k].ev = ev /\ Kept(stk[k], u[k]) /\ u[k].n = 1
         /\ Module(u[k]) = Module(stk[k])
<1>1. StackInv(stk, nextId) /\ Typed(stk[k]) /\ stk[k].wait = <<>>
  BY Before
<1>2. stk[k].n = 1
  BY SettledIs
<1>3. /\ DOMAIN u = DOMAIN stk /\ Beside(stk, u, k) /\ u[k].ev = ev
      /\ But(stk[k], u[k], Free \cup {"ev", "n", "pending"})
      /\ u[k].n = 1 /\ u[k].pending = v[k].pending
  BY <1>2, MovesOn DEF Resumes
<1>8. u[k].n \in Nat /\ u[k].pending \in Nat
  BY <1>3 DEF Resumes
<1>4. Kept(stk[k], u[k])
  BY <1>1, <1>3, <1>8, MovedFields
<1>5. RequestOK(u[k]) /\ (InList(u[k]) <=> InList(stk[k]))
  BY <1>3, <1>4 DEF Fits, Resumes
<1>6. Goes(stk, k, u[k]) /\ Module(u[k]) = Module(stk[k])
  BY <1>1, <1>3, <1>5, <1>8, RequestMoves
<1>7. Counted(u[k], 0)
  <2>1. Cardinality(Mods) \in Nat /\ Cardinality(Mods) >= 1
    <3>1. {} \in SUBSET (Mods \ {MM})
      OBVIOUS
    <3>2. 1 + Cardinality({}) \in 1..Cardinality(Mods) /\ Cardinality({}) = 0
      BY <3>1, Outs, FS_EmptySet
    <3>3. Cardinality(Mods) \in Nat
      BY FS_CardinalityType, TreeAssumption
    <3>. QED BY <3>2, <3>3
  <2>. QED BY <1>3, <2>1 DEF Counted, Resumes
<1>. QED BY <1>3, <1>4, <1>6, <1>7 DEF Alone

\* A request goes on, and keeps the way it has locked.
LEMMA RequestKeeps ==
  ASSUME NmoesiInv, NEW k \in DOMAIN stk, stk[k].n > 0, stk[k].ev \in WriteEvs \cup ReadEvs,
         Settled(k), NEW v, Told(v, k, Free \cup {"pending"}), v[k].pending \in Nat,
         NEW ev, ev # "READ_REQUEST_UPDOWN_MISS", NEW u, Scheduled(u, v, k, ev), Fits(k, ev, 1),
         ev \in Forkers => v[k].pending = 1,
         Locks(stk[k]) <=> ev \in Lockers, ev \notin FalCallers, ev # "FIND_AND_LOCK"
  PROVE  Sound(u, lock, acc)
<1>4. Resumes(k, v, ev, u)
  BY DEF Resumes
<1>1. /\ Alone(stk, u, k) /\ u[k].ev = ev /\ Kept(stk[k], u[k])
      /\ Module(u[k]) = Module(stk[k])
  BY <1>4, RequestGoesOn
<1>2. Sound(stk, lock, acc) /\ NoKids(stk, k)
  BY Before, SettledIs
<1>3. KeepsWay(stk[k], u[k])
  BY <1>1 DEF KeepsWay, Kept, Locks
<1>. QED BY <1>1, <1>2, <1>3, GoesOn

\* A request goes on and unlocks its way.
LEMMA RequestUnlocks ==
  ASSUME NmoesiInv, NEW k \in DOMAIN stk, stk[k].n > 0, stk[k].ev \in WriteEvs \cup ReadEvs,
         Settled(k), NEW v, Told(v, k, Free \cup {"pending"}), v[k].pending \in Nat,
         NEW ev, ev # "READ_REQUEST_UPDOWN_MISS", NEW u, Scheduled(u, v, k, ev), Fits(k, ev, 1),
         Locks(stk[k]), ev \notin Lockers, ev \notin FalCallers, ev \notin Forkers,
         ev # "FIND_AND_LOCK"
  PROVE  Sound(Wake(u, stk[k].tgt, stk[k].way), Unlocked(stk[k].tgt, stk[k].way), acc)
<1>5. Resumes(k, v, ev, u)
  BY DEF Resumes
<1>1. /\ Alone(stk, u, k) /\ u[k].ev = ev
  BY <1>5, RequestGoesOn
<1>2. Sound(stk, lock, acc) /\ NoKids(stk, k) /\ Module(stk[k]) = stk[k].tgt
  BY Before, SettledIs, RequestBefore
<1>3. ~Locks(u[k]) /\ u[k].ev # "FIND_AND_LOCK"
  BY <1>1 DEF Locks
<1>4. Sound(Wake(u, Module(stk[k]), stk[k].way), Unlocked(Module(stk[k]), stk[k].way), acc)
  BY <1>1, <1>2, <1>3, UnlocksOn
<1>. QED BY <1>2, <1>4

\* A request calls, and keeps the way it has locked.
BeginsAt(ev, c, f) == \A g : g.ev = ev /\ g.n = 0 => Begins(g, c, f)
LEMMA RequestCalls ==
  ASSUME NmoesiInv, NEW k \in DOMAIN stk, stk[k].n > 0, stk[k].ev \in WriteEvs \cup ReadEvs,
         stk[k].ev \notin Forkers, NEW v, Told(v, k, Free \cup {"pending"}),
         v[k].pending \in Nat, NEW ev, ev = "READ_REQUEST_UPDOWN_MISS" => v[k].pending = 1,
         Fits(k, ev, 0), ev \notin Forkers,
         Locks(stk[k]), ev \in Lockers, ev # "FIND_AND_LOCK",
         NEW c \in {"FAL", "EVICT", "INV", "REQ"}, NEW f, BeginsAt(ev, c, f)
  PROVE  Sound(Call(v, k, ev, c, f), lock, acc)
<1>1. /\ StackInv(stk, nextId) /\ Typed(stk[k]) /\ stk[k].wait = <<>> /\ stk[k].n = 1
      /\ Sound(stk, lock, acc)
  BY Before
<1>2. v[k].n = 1
  BY <1>1 DEF Told, But, Free, Fields
<1>3. ASSUME NEW g, But(v[k], g, {"ev", "n"}), g.ev = ev, g.n = 0
      PROVE  Goes(stk, k, g) /\ Begins(g, c, f) /\ KeepsWay(stk[k], g)
  <2>1. But(stk[k], g, Free \cup {"ev", "n", "pending"})
    BY <1>3 DEF But, Told
  <2>2. g.n \in Nat /\ g.pending \in Nat
    BY <1>3 DEF But, Fields
  <2>3. Kept(stk[k], g)
    BY <1>1, <2>1, <2>2, MovedFields
  <2>8. g.pending = v[k].pending
    BY <1>3 DEF But, Fields
  <2>4. RequestOK(g) /\ (InList(g) <=> InList(stk[k]))
    BY <1>3, <2>3, <2>8 DEF Fits
  <2>5. Goes(stk, k, g) /\ Module(g) = Module(stk[k])
    BY <1>1, <2>1, <2>2, <2>4, RequestMoves
  <2>6. KeepsWay(stk[k], g)
    BY <1>3, <2>3, <2>5 DEF KeepsWay, Kept, Locks
  <2>7. Begins(g, c, f)
    BY <1>3 DEF BeginsAt
  <2>. QED BY <2>5, <2>6, <2>7
<1>4. Starting(v, k, ev, c, f)
  BY <1>3 DEF Starting
<1>. QED BY <1>1, <1>2, <1>4, CallsOut DEF Told

\* A request calls find_and_lock in its target.
LEMMA RequestCallsFal ==
  ASSUME NmoesiInv, NEW k \in DOMAIN stk, stk[k].n > 0, stk[k].ev \in WriteEvs \cup ReadEvs,
         stk[k].ev \notin Forkers, ~Locks(stk[k]), NEW ev \in FalCallers, Fits(k, ev, 0),
         NEW down \in BOOLEAN, NEW blocking
  PROVE  Sound(Call(stk, k, ev, "FAL", FalStack(stk[k].tgt, stk[k].addr, down, blocking)),
               lock, acc)
<1>1. /\ StackInv(stk, nextId) /\ Typed(stk[k]) /\ stk[k].wait = <<>>
      /\ Sound(stk, lock, acc)
  BY Before
<1>2. /\ Module(stk[k]) = stk[k].tgt /\ stk[k].tgt \in Mods
      /\ stk[k].addr \in Blocks \cup {None}
  BY RequestBefore
<1>3. MayCall(k, ev, stk[k].tgt)
  <2>1. ASSUME NEW g, But(stk[k], g, {"ev", "n"}), g.ev = ev, g.n = 0
        PROVE  Goes(stk, k, g) /\ Module(g) = stk[k].tgt
    <3>1. But(stk[k], g, Free \cup {"ev", "n", "pending"})
      BY <2>1 DEF But
    <3>2. g.n \in Nat /\ g.pending \in Nat
      <4>1. g.pending = stk[k].pending
        BY <2>1 DEF But, Fields
      <4>. QED BY <1>1, <2>1, <4>1 DEF Typed
    <3>3. Kept(stk[k], g)
      BY <1>1, <3>1, <3>2, MovedFields
    <3>4. RequestOK(g) /\ (InList(g) <=> InList(stk[k]))
      BY <2>1, <3>3 DEF Fits, FalCallers
    <3>. QED BY <1>1, <1>2, <3>1, <3>2, <3>4, RequestMoves
  <2>. QED BY <2>1 DEF MayCall
<1>. QED BY <1>1, <1>2, <1>3, CallsFal

LEMMA PlainTold ==
  ASSUME NmoesiInv, NEW k \in DOMAIN stk, stk[k].n > 0, NEW v, Told(v, k, Free)
  PROVE  Told(v, k, Free \cup {"pending"}) /\ v[k].pending \in Nat
<1>1. Told(v, k, Free \cup {"pending"})
  BY ToldMore
<1>2. v[k].pending = stk[k].pending /\ Typed(stk[k])
  BY FreeNumber, Before DEF Told
<1>. QED BY <1>1, <1>2 DEF Typed

LEMMA NothingTold ==
  ASSUME NmoesiInv, NEW k \in DOMAIN stk, stk[k].n > 0
  PROVE  Told(stk, k, Free \cup {"pending"}) /\ stk[k].pending \in Nat
  BY FreeSame, FreeTold, PlainTold

\* A stack tells its caller something that no invariant is about.
LEMMA TellsFree ==
  ASSUME NmoesiInv, NEW k \in DOMAIN stk, stk[k].n > 0, Len(k) > 1, NEW g,
         But(stk[Front(k)], g, Free), NEW v, v = [stk EXCEPT ![Front(k)] = g]
  PROVE  Told(v, k, Free \cup {"pending"}) /\ v[k].pending \in Nat
<1>1. Front(k) \in DOMAIN stk
  BY Before, Caller
<1>2. FreeIn(v)
  BY <1>1, FreeAt
<1>. QED BY <1>2, FreeTold, PlainTold

LEMMA WriteRequestReceiveKeeps ==
  ASSUME NmoesiInv, NEW k \in DOMAIN stk, WriteRequestReceive(k)
  PROVE  NmoesiInv'
<1>. DEFINE ev == "WRITE_REQUEST_ACTION"
<1>1. /\ stk[k].ev = "WRITE_REQUEST_RECEIVE" /\ stk[k].n > 0
      /\ UNCHANGED <<blk, dir, lock, acc, nextId, fresh>>
      /\ stk' = Call(stk, k, ev, "FAL",
                     FalStack(stk[k].tgt, stk[k].addr, stk[k].down, ~stk[k].down))
  BY DEF WriteRequestReceive, At
<1>2. /\ stk[k].ev \in WriteEvs \cup ReadEvs /\ stk[k].ev \notin Forkers /\ ~Locks(stk[k])
      /\ ev \in FalCallers
  BY <1>1 DEF WriteEvs, Forkers, Locks, Lockers, FalCallers
<1>3. CacheInv(blk, dir) /\ fresh \in [Blocks -> SUBSET Mods] /\ stk[k].down \in BOOLEAN
  BY <1>1, Before DEF Typed
<1>4. Fits(k, ev, 0)
  BY <1>1 DEF Fits, Kept, RequestOK, InList, WriteEvs, ReadEvs, FalCallers
<1>5. Sound(stk', lock, acc)
  BY <1>1, <1>2, <1>3, <1>4, RequestCallsFal
<1>. QED BY <1>1, <1>3, <1>5, Resume

LEMMA WriteRequestActionKeeps ==
  ASSUME NmoesiInv, NEW k \in DOMAIN stk, WriteRequestAction(k)
  PROVE  NmoesiInv'
<1>. DEFINE v == [stk EXCEPT ![Front(k)].err = TRUE]
            c == InvalidateStack(stk[k].tgt, stk[k].way, stk[k].mod)
<1>1. /\ stk[k].ev = "WRITE_REQUEST_ACTION" /\ stk[k].n > 0
      /\ UNCHANGED <<blk, dir, lock, acc, nextId, fresh>>
      /\ \/ stk[k].err /\ stk' = Later(v, k, "WRITE_REQUEST_FINISH")
         \/ ~stk[k].err /\ stk' = Call(stk, k, "WRITE_REQUEST_EXCLUSIVE", "INV", c)
  BY DEF WriteRequestAction, At, Parent
<1>2. stk[k].ev \in WriteEvs \cup ReadEvs /\ stk[k].ev \notin Forkers /\ Settled(k)
  BY <1>1 DEF WriteEvs, Forkers, Settled
<1>3. /\ CacheInv(blk, dir) /\ fresh \in [Blocks -> SUBSET Mods]
      /\ StackInv(stk, nextId) /\ LockInv(stk, lock)
  BY <1>1, Before DEF Sound
<1>4. /\ Len(k) > 1 /\ Typed(stk[k]) /\ RequestOK(stk[k]) /\ stk[k].tgt \in Mods
      /\ stk[k].mod \in Mods /\ Module(stk[k]) = stk[k].tgt
  BY <1>1, <1>2, RequestBefore
<1>5. CASE stk[k].err /\ stk' = Later(v, k, "WRITE_REQUEST_FINISH")
  <2>. DEFINE ev == "WRITE_REQUEST_FINISH"
  <2>1. Told(v, k, Free \cup {"pending"}) /\ v[k].pending \in Nat
    BY <1>1, <1>4, TellsError, PlainTold
  <2>2. Fits(k, ev, 1)
    BY <1>1 DEF Fits, Kept, RequestOK, InList, WriteEvs, ReadEvs, FalCallers
  <2>3. /\ ~Locks(stk[k]) /\ ev \notin Lockers /\ ev \notin FalCallers /\ ev \notin Forkers
        /\ ev # "FIND_AND_LOCK"
    BY <1>1, <1>5 DEF Locks, Lockers, FalCallers, Forkers
  <2>4. Scheduled(stk', v, k, ev)
    BY <1>5 DEF Scheduled
  <2>. HIDE DEF v
  <2>5. Sound(stk', lock, acc)
    BY <1>1, <1>2, <2>1, <2>2, <2>3, <2>4, RequestKeeps
  <2>. QED BY <1>1, <1>3, <2>5, Resume
<1>6. CASE ~stk[k].err /\ stk' = Call(stk, k, "WRITE_REQUEST_EXCLUSIVE", "INV", c)
  <2>. DEFINE ev == "WRITE_REQUEST_EXCLUSIVE"
  <2>1. Fits(k, ev, 0)
    BY <1>1, <1>4, <1>6 DEF Fits, Kept, RequestOK, InList, WriteEvs, ReadEvs, FalCallers
  <2>2. /\ Locks(stk[k]) /\ ev \in Lockers /\ ev \notin Forkers /\ ev # "FIND_AND_LOCK"
        /\ "INV" \in {"FAL", "EVICT", "INV", "REQ"} /\ ev \in InvCallers
    BY <1>1, <1>6 DEF Locks, Lockers, FalCallers, Forkers, InvCallers
  <2>3. stk[k].way \in Ways(stk[k].tgt)
    BY <1>3, <1>4, <2>2, LockedWay
  <2>4. BeginsAt(ev, "INV", c)
    BY <1>4, <2>2, <2>3, InvBegins DEF BeginsAt
  <2>. HIDE DEF c
  <2>5. Sound(stk', lock, acc)
    BY <1>1, <1>2, <1>6, <2>1, <2>2, <2>4, NothingTold, RequestCalls
  <2>. QED BY <1>1, <1>3, <2>5, Resume
<1>. QED BY <1>1, <1>5, <1>6

LEMMA WriteRequestUpdownKeeps ==
  ASSUME NmoesiInv, NEW k \in DOMAIN stk, WriteRequestUpdown(k)
  PROVE  NmoesiInv'
<1>. DEFINE m == stk[k].tgt
            c == WriteStack(m, Low[m], stk[k].addr, TRUE)
            ev == "WRITE_REQUEST_UPDOWN_FINISH"
<1>1. /\ stk[k].ev = "WRITE_REQUEST_EXCLUSIVE" /\ stk[k].n > 0 /\ stk[k].down
      /\ UNCHANGED <<blk, dir, lock, acc, nextId, fresh>>
      /\ \/ stk' = Goto(stk, k, ev)
         \/ stk[k].state \notin {"M", "E"} /\ stk' = Call(stk, k, ev, "REQ", c)
  BY DEF WriteRequestUpdown, At
<1>2. stk[k].ev \in WriteEvs \cup ReadEvs /\ stk[k].ev \notin Forkers /\ Settled(k)
  BY <1>1 DEF WriteEvs, Forkers, Settled
<1>3. CacheInv(blk, dir) /\ fresh \in [Blocks -> SUBSET Mods]
  BY <1>1, Before
<1>4. /\ Typed(stk[k]) /\ RequestOK(stk[k]) /\ m \in Mods
      /\ stk[k].addr \in Blocks \cup {None}
  BY <1>1, <1>2, RequestBefore
<1>5. /\ Locks(stk[k]) /\ ev \in Lockers /\ ev \notin FalCallers /\ ev \notin Forkers
      /\ ev # "FIND_AND_LOCK" /\ ev \in ReqCallers
      /\ "REQ" \in {"FAL", "EVICT", "INV", "REQ"}
  BY <1>1 DEF Locks, Lockers, FalCallers, Forkers, ReqCallers
<1>6. Fits(k, ev, 1) /\ Fits(k, ev, 0)
  BY <1>1, <1>4 DEF Fits, Kept, RequestOK, InList, WriteEvs, ReadEvs, FalCallers
<1>7. CASE stk' = Goto(stk, k, ev)
  <2>1. Scheduled(stk', stk, k, ev)
    BY <1>7 DEF Scheduled
  <2>2. Sound(stk', lock, acc)
    BY <1>1, <1>2, <1>5, <1>6, <2>1, NothingTold, RequestKeeps
  <2>. QED BY <1>1, <1>3, <2>2, Resume
<1>8. CASE stk[k].state \notin {"M", "E"} /\ stk' = Call(stk, k, ev, "REQ", c)
  <2>1. m # MM
    BY <1>1, <1>4, <1>8 DEF RequestOK, FalCallers
  <2>2. Low[m] \in Mods /\ TRUE \in BOOLEAN
    BY <1>4, <2>1, TreeAssumption
  <2>3. Made(c, "WRITE_REQUEST_RECEIVE", m, stk[k].addr, Low[m], TRUE, 0)
    BY WriteStackIs
  <2>. HIDE DEF c
  <2>4. BeginsAt(ev, "REQ", c)
    <3>1. ASSUME NEW g, g.ev = ev, g.n = 0
          PROVE  Begins(g, "REQ", c)
      <4>1. g.ev \in ReqCallers
        BY <1>5, <3>1
      <4>. QED BY <1>4, <2>1, <2>2, <2>3, <3>1, <4>1, RequestBegins
    <3>. QED BY <3>1 DEF BeginsAt
  <2>5. Sound(stk', lock, acc)
    BY <1>1, <1>2, <1>5, <1>6, <1>8, <2>4, NothingTold, RequestCalls
  <2>. QED BY <1>1, <1>3, <2>5, Resume
<1>. QED BY <1>1, <1>7, <1>8

\* A module is recorded as the owner.
LEMMA OwnerKeeps ==
  ASSUME NEW e \in EntryType, NEW m \in Mods \ {MM}
  PROVE  [owner |-> m, sharers |-> e.sharers \cup {m}] \in EntryType
  BY DEF EntryType

LEMMA WriteRequestUpdownFinishKeeps ==
  ASSUME NmoesiInv, NEW k \in DOMAIN stk, WriteRequestUpdownFinish(k)
  PROVE  NmoesiInv'
<1>. DEFINE p == Front(k)
            m == stk[k].tgt
            w == stk[k].way
            ev == "WRITE_REQUEST_FINISH"
            next == Later(stk, k, ev)
            e == [owner |-> stk[k].mod, sharers |-> dir[m][w].sharers \cup {stk[k].mod}]
            q == Supplied(stk[k])
            Fails == /\ stk' = Wake([next EXCEPT ![p].err = TRUE], m, w)
                     /\ UNCHANGED <<blk, dir, fresh>>
            Works == /\ dir' = [dir EXCEPT ![m][w] = e]
                     /\ blk' = SetBlock(blk, m, w, stk[k].addr, "E")
                     /\ fresh' = Receive(m, stk[k].addr, q)
                     /\ stk' = Wake([next EXCEPT ![p].good = q], m, w)
<1>1. /\ stk[k].ev = "WRITE_REQUEST_UPDOWN_FINISH" /\ stk[k].n > 0
      /\ UNCHANGED <<acc, nextId>> /\ lock' = Unlocked(m, w)
      /\ Fails \/ Works
  BY DEF WriteRequestUpdownFinish, At, Parent
<1>2. stk[k].ev \in WriteEvs \cup ReadEvs /\ stk[k].ev \notin Forkers /\ Settled(k)
  BY <1>1 DEF WriteEvs, Forkers, Settled
<1>3. /\ CacheInv(blk, dir) /\ fresh \in [Blocks -> SUBSET Mods]
      /\ StackInv(stk, nextId) /\ LockInv(stk, lock)
  BY <1>1, Before DEF Sound
<1>4. /\ Len(k) > 1 /\ p \in DOMAIN stk /\ p # k /\ Typed(stk[p]) /\ Typed(stk[k])
      /\ RequestOK(stk[k]) /\ m \in Mods /\ stk[k].mod \in Mods
      /\ stk[k].addr \in Blocks \cup {None} /\ Module(stk[k]) = m
      /\ stk[k].down => stk[k].mod # MM
  BY <1>1, <1>2, RequestBefore
<1>5. /\ Locks(stk[k]) /\ ev \notin Lockers /\ ev \notin FalCallers /\ ev \notin Forkers
      /\ ev # "FIND_AND_LOCK"
  BY <1>1 DEF Locks, Lockers, FalCallers, Forkers
<1>6. Fits(k, ev, 1)
  BY <1>1 DEF Fits, Kept, RequestOK, InList, WriteEvs, ReadEvs, FalCallers
<1>7. w \in Ways(m)
  BY <1>3, <1>4, <1>5, LockedWay
<1>8. CASE Fails
  <2>. DEFINE v == [stk EXCEPT ![p].err = TRUE]
  <2>1. [next EXCEPT ![p].err = TRUE] = Later(v, k, ev)
    BY <1>4 DEF Later
  <2>2. Told(v, k, Free \cup {"pending"}) /\ v[k].pending \in Nat
    BY <1>1, <1>4, TellsError, PlainTold
  <2>. DEFINE u == Later(v, k, ev)
  <2>3. Scheduled(u, v, k, ev) /\ stk' = Wake(u, m, w)
    BY <1>8, <2>1 DEF Scheduled
  <2>. HIDE DEF v, u, next
  <2>4. Sound(stk', lock', acc)
    <3>1. stk' = Wake(u, m, w) /\ lock' = Unlocked(m, w) /\ stk[k].n > 0
      BY <1>1, <2>3
    <3>2. Sound(Wake(u, m, w), Unlocked(m, w), acc)
      BY <1>2, <1>5, <1>6, <2>2, <2>3, <3>1, RequestUnlocks
    <3>. QED BY <3>1, <3>2
  <2>. QED BY <1>1, <1>3, <1>8, <2>4, Resume
<1>9. CASE Works
  <2>. DEFINE f == stk[p]
              g == [f EXCEPT !.good = q]
              v == [stk EXCEPT ![p] = g]
              u == Later(v, k, ev)
  <2>1. [next EXCEPT ![p].good = q] = u
    BY <1>4 DEF Later
  <2>2. f = [y \in Fields |-> f[y]] /\ g = [f EXCEPT !.good = q]
    BY <1>4 DEF Typed
  <2>3. Scheduled(u, v, k, ev) /\ stk' = Wake(u, m, w)
    BY <1>9, <2>1 DEF Scheduled
  <2>7. blk' = SetBlock(blk, m, w, stk[k].addr, "E") /\ dir' = [dir EXCEPT ![m][w] = e]
        /\ fresh' = Receive(m, stk[k].addr, q)
    BY <1>9
  <2>4. But(f, g, Free)
    <3>. HIDE DEF f, g, q
    <3>. QED BY <2>2 DEF But, Free, Fields
  <2>. HIDE DEF g, u, next, q
  <2>5. Told(v, k, Free \cup {"pending"}) /\ v[k].pending \in Nat
    BY <1>1, <1>4, <2>4, TellsFree
  <2>. HIDE DEF v
  <2>6. Sound(stk', lock', acc)
    <3>1. stk' = Wake(u, m, w) /\ lock' = Unlocked(m, w) /\ stk[k].n > 0
      BY <1>1, <2>3
    <3>2. Sound(Wake(u, m, w), Unlocked(m, w), acc)
      BY <1>2, <1>5, <1>6, <2>3, <2>5, <3>1, RequestUnlocks
    <3>. QED BY <3>1, <3>2
  <2>8. CacheInv(blk', dir)
    <3>1. "E" \in States /\ "E" \in {"I", "E", "M"}
      BY DEF States
    <3>. QED BY <1>3, <1>4, <1>7, <2>7, <3>1, SetBlockKeeps
  <2>9. e \in EntryType
    <3>1. dir[m][w] \in EntryType
      BY <1>3, <1>4, <1>7, CacheAt
    <3>2. stk[k].mod \in Mods \ {MM}
      BY <1>1, <1>4 DEF RequestOK
    <3>. QED BY <3>1, <3>2, OwnerKeeps
  <2>. HIDE DEF e
  <2>10. CacheInv(blk', dir')
    BY <1>4, <1>7, <2>7, <2>8, <2>9, EntryKeeps
  <2>11. fresh' \in [Blocks -> SUBSET Mods]
    BY <1>4, <2>7, ReceiveKeeps
  <2>. QED BY <1>1, <2>6, <2>10, <2>11, Resume
<1>. QED BY <1>1, <1>8, <1>9

LEMMA WriteRequestDownupKeeps ==
  ASSUME NmoesiInv, NEW k \in DOMAIN stk, WriteRequestDownup(k)
  PROVE  NmoesiInv'
<1>. DEFINE m == stk[k].tgt
            w == stk[k].way
            b == stk[k].addr
            ev == "WRITE_REQUEST_FINISH"
            u == Later(stk, k, ev)
            h == IF stk[k].state \in Dirty /\ m \in fresh[b]
                 THEN (fresh[b] \cup {stk[k].mod}) \ {m} ELSE fresh[b] \ {m}
<1>1. /\ stk[k].ev = "WRITE_REQUEST_EXCLUSIVE" /\ stk[k].n > 0
      /\ UNCHANGED <<dir, acc, nextId>> /\ lock' = Unlocked(m, w)
      /\ blk' = SetBlock(blk, m, w, None, "I")
      /\ fresh' = [fresh EXCEPT ![b] = h]
      /\ stk' = Wake(u, m, w)
  BY DEF WriteRequestDownup, At
<1>2. stk[k].ev \in WriteEvs \cup ReadEvs /\ stk[k].ev \notin Forkers /\ Settled(k)
  BY <1>1 DEF WriteEvs, Forkers, Settled
<1>3. fresh \in [Blocks -> SUBSET Mods]
  BY <1>1, Before
<1>4. m \in Mods /\ stk[k].mod \in Mods
  BY <1>1, <1>2, RequestBefore
<1>5. /\ Locks(stk[k]) /\ ev \notin Lockers /\ ev \notin FalCallers /\ ev \notin Forkers
      /\ ev # "FIND_AND_LOCK"
  BY <1>1 DEF Locks, Lockers, FalCallers, Forkers
<1>6. Fits(k, ev, 1)
  BY <1>1 DEF Fits, Kept, RequestOK, InList, WriteEvs, ReadEvs, FalCallers
<1>7. Scheduled(u, stk, k, ev)
  BY DEF Scheduled
<1>8. fresh' \in [Blocks -> SUBSET Mods]
  <2>1. CASE b \in Blocks
    <3>1. h \in SUBSET Mods
      BY <1>3, <1>4, <2>1
    <3>. HIDE DEF h
    <3>. QED BY <1>1, <3>1, FreshKeeps
  <2>2. CASE b \notin Blocks
    <3>. HIDE DEF h
    <3>. QED BY <1>1, <1>3, <2>2
  <2>. QED BY <2>1, <2>2
<1>. HIDE DEF u
<1>9. Sound(stk', lock', acc)
  <2>1. stk' = Wake(u, m, w) /\ lock' = Unlocked(m, w) /\ stk[k].n > 0
    BY <1>1
  <2>2. Sound(Wake(u, m, w), Unlocked(m, w), acc)
    BY <1>2, <1>5, <1>6, <1>7, <2>1, NothingTold, RequestUnlocks
  <2>. QED BY <2>1, <2>2
<1>10. CacheInv(blk', dir)
  BY <1>1, <1>4, BlockGoes
<1>. QED BY <1>1, <1>8, <1>9, <1>10, Resume

LEMMA WriteRequestFinishKeeps ==
  ASSUME NmoesiInv, NEW k \in DOMAIN stk, WriteRequestFinish(k)
  PROVE  NmoesiInv'
<1>1. /\ stk[k].ev = "WRITE_REQUEST_FINISH" /\ stk[k].n > 0
      /\ UNCHANGED <<blk, dir, lock, acc, nextId, fresh>>
      /\ stk' = Return(stk, k)
  BY DEF WriteRequestFinish, At
<1>2. /\ stk[k].ev \in WriteEvs \cup ReadEvs /\ stk[k].ev \notin Forkers
      /\ ~Locks(stk[k]) /\ ~InList(stk[k])
  BY <1>1 DEF WriteEvs, Forkers, Locks, Lockers, FalCallers, InList, ReadEvs
<1>3. /\ CacheInv(blk, dir) /\ fresh \in [Blocks -> SUBSET Mods]
      /\ Sound(stk, lock, acc) /\ NoKids(stk, k)
  BY <1>1, <1>2, Before
<1>4. stk[k].ev \notin FalEvs /\ \A c : ~Listed(stk, k, c)
  BY <1>1, <1>2, RequestBefore
<1>5. Sound(stk', lock, acc)
  BY <1>1, <1>2, <1>3, <1>4, ReturnsOn
<1>. QED BY <1>1, <1>3, <1>5, Resume

\* Changes of k itself before it goes on.
LEMMA ToldAt ==
  ASSUME NmoesiInv, NEW k \in DOMAIN stk, NEW g, But(stk[k], g, Free \cup {"pending"}), NEW v,
         v = [stk EXCEPT ![k] = g]
  PROVE  Told(v, k, Free \cup {"pending"}) /\ v[k] = g
<1>1. FreeIn(stk)
  BY FreeSame
<1>2. DOMAIN v = DOMAIN stk /\ v[k] = g /\ \A x \in DOMAIN stk : x # k => v[x] = stk[x]
  OBVIOUS
<1>3. g = [y \in Fields |-> g[y]]
  BY DEF But
<1>4. Whole(v)
  BY <1>1, <1>2, <1>3 DEF FreeIn, Whole
<1>5. Beside(stk, v, k)
  BY <1>1, <1>2 DEF FreeIn, Beside
<1>. QED BY <1>2, <1>4, <1>5 DEF Told

\* A read request from above enters the access list of its target.
LEMMA ReadEnters ==
  ASSUME NmoesiInv, NEW k \in DOMAIN stk, stk[k].n > 0, stk[k].ev = "READ_REQUEST_RECEIVE",
         stk[k].down, NEW t, t = Goto(stk, k, "READ_REQUEST_LOCK")
  PROVE  Sound(t, lock, [acc EXCEPT ![stk[k].tgt] = Append(@, k)])
<1>. DEFINE f == stk[k]
            g == t[k]
            p == Front(k)
<1>1. f.ev \in WriteEvs \cup ReadEvs /\ f.ev \notin Forkers
  BY DEF ReadEvs, Forkers
<1>2. /\ Len(k) > 1 /\ Len(k) # 1 /\ p \in DOMAIN stk /\ p # k /\ Typed(f)
      /\ RequestOK(f) /\ f.tgt \in Mods
      /\ \A c : Listed(stk, k, c) <=> InList(f) /\ c = f.tgt
  BY <1>1, RequestBefore
<1>3. /\ StackInv(stk, nextId) /\ LockInv(stk, lock) /\ ListInv(stk, acc) /\ Whole(stk)
      /\ NoKids(stk, k) /\ f.wait = <<>> /\ k \in Paths
  BY <1>1, Before DEF Sound
<1>4. Changed(stk, t, k, {"ev", "now"}) /\ g.ev = "READ_REQUEST_LOCK"
  BY <1>3, GotoIs
<1>. HIDE DEF f, g
<1>5. /\ g = [y \in Fields |-> g[y]] /\ g.n = f.n /\ g.mod = f.mod /\ g.tgt = f.tgt
      /\ g.state = f.state /\ g.err = f.err /\ g.down = f.down /\ g.wait = f.wait
      /\ g.way = f.way /\ g.addr = f.addr /\ g.pending = f.pending
  BY <1>4 DEF Changed, But, Fields, f, g
<1>6. DOMAIN t = DOMAIN stk /\ \A x \in DOMAIN stk : x # k => t[x] = stk[x]
  BY <1>4 DEF Changed
<1>7. Typed(g)
  BY <1>2, <1>3, <1>5 DEF Typed
<1>8. RequestOK(g)
  BY <1>2, <1>4, <1>5 DEF RequestOK, ReadEvs, FalCallers
<1>9. Called(stk[p], Last(k), g)
  <2>1. Called(stk[p], Last(k), f)
    BY <1>2, <1>3, Caller DEF f
  <2>. QED BY <1>5, <1>8, <2>1 DEF Called, FalOK, EvictOK, InvOK, FalEvs, EvictEvs, InvEvs, f
<1>10. Calls(t, nextId)
  <2>1. ASSUME NEW x \in DOMAIN t
        PROVE  /\ x \in Paths /\ x[1] < nextId /\ Typed(t[x])
               /\ Len(x) = 1 => AccessOK(t[x])
               /\ Len(x) > 1 => Front(x) \in DOMAIN t /\ Called(t[Front(x)], Last(x), t[x])
    <3>1. /\ x \in Paths /\ x[1] < nextId /\ Typed(stk[x])
          /\ Len(x) = 1 => AccessOK(stk[x])
          /\ Len(x) > 1 => Front(x) \in DOMAIN stk /\ Called(stk[Front(x)], Last(x), stk[x])
      BY <1>3, <1>6, <2>1 DEF StackInv, Calls
    <3>2. Len(x) > 1 => Front(x) # k
      BY <1>3, <1>6, <2>1 DEF NoKids
    <3>3. CASE x = k
      BY <1>2, <1>6, <1>7, <1>9, <3>1, <3>3 DEF g
    <3>4. CASE x # k
      BY <1>6, <2>1, <3>1, <3>2, <3>4
    <3>. QED BY <3>3, <3>4
  <2>. QED BY <2>1 DEF Calls
<1>11. Counts(t)
  <2>1. \A x : Kids(t, x) = Kids(stk, x)
    BY <1>6 DEF Kids
  <2>2. Counts(stk)
    BY <1>3 DEF StackInv
  <2>3. ASSUME NEW x \in DOMAIN t
        PROVE  Counted(t[x], Cardinality(Kids(t, x)))
    <3>. DEFINE c == Cardinality(Kids(stk, x))
    <3>1. Counted(stk[x], c) /\ c = Cardinality(Kids(t, x))
      BY <1>6, <2>1, <2>2 DEF Counts
    <3>. HIDE DEF c
    <3>2. Counted(t[x], c)
      <4>1. CASE x # k
        BY <1>6, <3>1, <4>1
      <4>2. CASE x = k
        <5>1. Counted(f, c) /\ f.ev \notin Forkers /\ g.ev \notin Forkers
          BY <1>1, <1>4, <3>1, <4>2 DEF Forkers, f
        <5>2. Counted(g, c)
          BY <1>5, <5>1 DEF Counted
        <5>. QED BY <4>2, <5>2 DEF g
      <4>. QED BY <4>1, <4>2
    <3>. QED BY <3>1, <3>2
  <2>. QED BY <2>3 DEF Counts
<1>12. \A x \in DOMAIN stk : Near(stk[x], stk[x])
  BY <1>3, Caller, NearSelf
<1>13. Quiet(stk, t, k, <<>>)
  <2>1. \A x : ~Woken(<<>>, x)
    BY DEF Woken
  <2>. QED BY <1>2, <1>6, <1>12, <2>1 DEF Quiet, Aside, Same, Asleep
<1>14. CallerSame(stk, t, k)
  BY <1>2, <1>6 DEF CallerSame, SameHeld, HoldsWay
<1>15. SameHeld(stk, t, k) /\ ~Asleep(t, k)
  BY <1>4, <1>6 DEF SameHeld, HoldsWay, Locks, Lockers, FalCallers, Asleep, f, g
<1>16. LockInv(t, lock)
  BY <1>3, <1>13, <1>14, <1>15, KeepsLocks DEF f
<1>17. ~Listed(stk, k, f.tgt)
  BY <1>2 DEF InList, f
<1>18. \A x, c : Listed(t, x, c) <=> Listed(stk, x, c) \/ (x = k /\ c = f.tgt)
  <2>1. \A c : Listed(t, k, c) <=> c = f.tgt
    BY <1>2, <1>4, <1>5, <1>6 DEF Listed, ReadEvs, g, f
  <2>2. \A c : ~Listed(stk, k, c)
    BY <1>2 DEF InList, f
  <2>3. \A x, c : x # k => (Listed(t, x, c) <=> Listed(stk, x, c))
    BY <1>6 DEF Listed
  <2>. QED BY <2>1, <2>2, <2>3
<1>19. ListInv(t, [acc EXCEPT ![f.tgt] = Append(@, k)])
  BY <1>2, <1>3, <1>17, <1>18, ListAppends
<1>. QED BY <1>10, <1>11, <1>16, <1>19 DEF Sound, StackInv, f

LEMMA ReadRequestReceiveKeeps ==
  ASSUME NmoesiInv, NEW k \in DOMAIN stk, ReadRequestReceive(k)
  PROVE  NmoesiInv'
<1>. DEFINE ev == "READ_REQUEST_LOCK"
<1>1. /\ stk[k].ev = "READ_REQUEST_RECEIVE" /\ stk[k].n > 0
      /\ UNCHANGED <<blk, dir, lock, nextId, fresh>>
      /\ stk' = Goto(stk, k, ev)
      /\ acc' = IF stk[k].down THEN [acc EXCEPT ![stk[k].tgt] = Append(@, k)] ELSE acc
  BY DEF ReadRequestReceive, At
<1>2. CacheInv(blk, dir) /\ fresh \in [Blocks -> SUBSET Mods]
  BY <1>1, Before
<1>3. CASE stk[k].down
  <2>1. Sound(stk', lock, acc')
    BY <1>1, <1>3, ReadEnters
  <2>. QED BY <1>1, <1>2, <2>1, Resume
<1>4. CASE ~stk[k].down
  <2>1. stk[k].ev \in WriteEvs \cup ReadEvs /\ Settled(k)
    BY <1>1 DEF ReadEvs, Forkers, Settled
  <2>2. Fits(k, ev, 1)
    BY <1>1, <1>4 DEF Fits, Kept, RequestOK, InList, ReadEvs, FalCallers
  <2>3. /\ ~Locks(stk[k]) /\ ev \notin Lockers /\ ev \notin FalCallers /\ ev \notin Forkers
        /\ ev # "FIND_AND_LOCK"
    BY <1>1 DEF Locks, Lockers, FalCallers, Forkers
  <2>4. Scheduled(stk', stk, k, ev)
    BY <1>1 DEF Scheduled
  <2>5. Sound(stk', lock, acc)
    BY <1>1, <2>1, <2>2, <2>3, <2>4, NothingTold, RequestKeeps
  <2>. QED BY <1>1, <1>2, <1>4, <2>5, Resume
<1>. QED BY <1>3, <1>4

LEMMA ReadRequestLockKeeps ==
  ASSUME NmoesiInv, NEW k \in DOMAIN stk, ReadRequestLock(k)
  PROVE  NmoesiInv'
<1>. DEFINE ev == "READ_REQUEST_ACTION"
            write == InFlightWrite(stk[k].tgt, k)
            older == IF write # <<>> THEN write
                     ELSE InFlightAddress(stk[k].tgt, stk[k].addr, k)
<1>1. /\ stk[k].ev = "READ_REQUEST_LOCK" /\ stk[k].n > 0
      /\ UNCHANGED <<blk, dir, lock, acc, nextId, fresh>>
      /\ \/ stk' = WaitInStack(stk, k, older, stk[k].ev)
         \/ stk' = Call(stk, k, ev, "FAL",
                        FalStack(stk[k].tgt, stk[k].addr, stk[k].down, ~stk[k].down))
  BY DEF ReadRequestLock, At
<1>2. /\ stk[k].ev \in WriteEvs \cup ReadEvs /\ stk[k].ev \notin Forkers /\ ~Locks(stk[k])
      /\ ev \in FalCallers
  BY <1>1 DEF ReadEvs, Forkers, Locks, Lockers, FalCallers
<1>3. /\ CacheInv(blk, dir) /\ fresh \in [Blocks -> SUBSET Mods] /\ stk[k].down \in BOOLEAN
      /\ Sound(stk, lock, acc)
  BY <1>1, Before DEF Typed
<1>4. Fits(k, ev, 0)
  BY <1>1 DEF Fits, Kept, RequestOK, InList, WriteEvs, ReadEvs, FalCallers
<1>5. Sound(stk', lock, acc)
  <2>. HIDE DEF older
  <2>1. CASE stk' = WaitInStack(stk, k, older, stk[k].ev)
    BY <1>1, <1>3, <2>1, WaitsOn
  <2>2. CASE stk' = Call(stk, k, ev, "FAL",
                        FalStack(stk[k].tgt, stk[k].addr, stk[k].down, ~stk[k].down))
    BY <1>1, <1>2, <1>3, <1>4, <2>2, RequestCallsFal
  <2>. QED BY <1>1, <2>1, <2>2
<1>. QED BY <1>1, <1>3, <1>5, Resume

LEMMA ReadRequestErrorKeeps ==
  ASSUME NmoesiInv, NEW k \in DOMAIN stk, ReadRequestError(k)
  PROVE  NmoesiInv'
<1>. DEFINE v == [stk EXCEPT ![Front(k)].err = TRUE]
            ev == "READ_REQUEST_FINISH"
<1>1. /\ stk[k].ev = "READ_REQUEST_ACTION" /\ stk[k].n > 0 /\ stk[k].err
      /\ UNCHANGED <<blk, dir, lock, acc, nextId, fresh>>
      /\ stk' = Later(v, k, ev)
  BY DEF ReadRequestError, At, Parent
<1>2. stk[k].ev \in WriteEvs \cup ReadEvs /\ Settled(k)
  BY <1>1 DEF ReadEvs, Forkers, Settled
<1>3. CacheInv(blk, dir) /\ fresh \in [Blocks -> SUBSET Mods]
  BY <1>1, Before
<1>4. Len(k) > 1
  BY <1>1, <1>2, RequestBefore
<1>5. Told(v, k, Free \cup {"pending"}) /\ v[k].pending \in Nat
  BY <1>1, <1>4, TellsError, PlainTold
<1>6. Fits(k, ev, 1)
  BY <1>1 DEF Fits, Kept, RequestOK, InList, WriteEvs, ReadEvs, FalCallers
<1>7. /\ ~Locks(stk[k]) /\ ev \notin Lockers /\ ev \notin FalCallers /\ ev \notin Forkers
      /\ ev # "FIND_AND_LOCK"
  BY <1>1 DEF Locks, Lockers, FalCallers, Forkers
<1>8. Scheduled(stk', v, k, ev)
  BY <1>1 DEF Scheduled
<1>. HIDE DEF v
<1>9. Sound(stk', lock, acc)
  BY <1>1, <1>2, <1>5, <1>6, <1>7, <1>8, RequestKeeps
<1>. QED BY <1>1, <1>3, <1>9, Resume

\* A read request asks the owner of the block above its target.
LEMMA RequestForks ==
  ASSUME NmoesiInv, NEW k \in DOMAIN stk, stk[k].n > 0, stk[k].ev = "READ_REQUEST_ACTION",
         Locks(stk[k]),
         NEW ev \in {"READ_REQUEST_UPDOWN_FINISH", "READ_REQUEST_DOWNUP_WAIT_FOR_REQS"},
         Fits(k, ev, 1), NEW l \in Mods \ {MM}, NEW c, c.tgt = l,
         Made(c, "READ_REQUEST_RECEIVE", stk[k].tgt, stk[k].addr, l, FALSE, 0)
  PROVE  Sound(Ask(stk, k, ev, c), lock, acc)
<1>. DEFINE f == stk[k]
            h == [f EXCEPT !.pending = 2]
            v == [stk EXCEPT ![k].pending = 2]
            w == Goto(v, k, ev)
            a == Append(k, l)
            u == Put(w, a, c)
            g == u[k]
<1>1. f.ev \in WriteEvs \cup ReadEvs /\ f.ev \notin Forkers /\ ev \in Forkers /\ ev \in Lockers
  BY DEF ReadEvs, Forkers, Lockers
<1>2. /\ Len(k) > 1 /\ Typed(f) /\ f.mod \in Mods /\ f.tgt \in Mods
      /\ f.addr \in Blocks \cup {None}
  BY <1>1, RequestBefore
<1>3. /\ StackInv(stk, nextId) /\ LockInv(stk, lock) /\ ListInv(stk, acc) /\ k \in Paths
      /\ NoKids(stk, k) /\ f.n = 1 /\ f.wait = <<>>
  BY <1>1, Before DEF Sound
<1>4. l \in Labels
  BY DEF Labels
<1>5. a \notin DOMAIN stk
  BY <1>3, <1>4, Running
<1>6. f = [y \in Fields |-> f[y]] /\ h = [f EXCEPT !.pending = 2] /\ v = [stk EXCEPT ![k] = h]
  BY <1>2 DEF Typed
<1>7. Ask(stk, k, ev, c) = u
  BY DEF Ask
<1>8. Scheduled(w, v, k, ev)
  BY DEF Scheduled
<1>. HIDE DEF v, w, h, f
<1>9. But(f, h, Free \cup {"pending"}) /\ h.pending = 2
  BY <1>6 DEF But, Fields, Free
<1>10. Told(v, k, Free \cup {"pending"}) /\ v[k].pending = 2
  BY <1>6, <1>9, ToldAt DEF f
<1>11. /\ DOMAIN w = DOMAIN stk /\ Beside(stk, w, k) /\ w[k].ev = ev
       /\ But(f, w[k], Free \cup {"ev", "n", "pending"})
       /\ w[k].n = 1 /\ w[k].pending = 2
  <2>1. /\ DOMAIN w = DOMAIN stk /\ Beside(stk, w, k) /\ w[k].ev = ev
        /\ But(stk[k], w[k], Free \cup {"ev", "n", "pending"})
        /\ w[k].n = stk[k].n /\ w[k].pending = v[k].pending
    BY <1>8, <1>10, MovesOn
  <2>2. stk[k].n = 1
    BY <1>3 DEF f
  <2>. QED BY <1>10, <2>1, <2>2 DEF f
<1>12. /\ DOMAIN u = DOMAIN stk \cup {a} /\ u[a] = c
       /\ \A x \in DOMAIN stk : u[x] = w[x]
  BY <1>5, <1>11 DEF Put
<1>13. g.ev = ev /\ g.n = 1 /\ g.pending = 2 /\ But(f, g, Free \cup {"ev", "n", "pending"})
  BY <1>11, <1>12
<1>. HIDE DEF u, g
<1>30. g.n \in Nat /\ g.pending \in Nat
  BY <1>13
<1>14. Kept(f, g)
  BY <1>2, <1>3, <1>13, <1>30, MovedFields
<1>15. RequestOK(g) /\ (InList(g) <=> InList(f))
  BY <1>13, <1>14 DEF Fits, f
<1>16. Goes(stk, k, g) /\ Module(g) = Module(f)
  <2>1. /\ stk[k].ev \in WriteEvs \cup ReadEvs /\ (InList(g) <=> InList(stk[k]))
        /\ But(stk[k], g, Free \cup {"ev", "n", "pending"})
    BY <1>1, <1>13, <1>15 DEF f
  <2>2. Goes(stk, k, g) /\ Module(g) = Module(stk[k])
    BY <1>3, <1>15, <1>30, <2>1, RequestMoves
  <2>. QED BY <2>2 DEF f
<1>17. Beside(stk, u, k)
  BY <1>11, <1>12 DEF Beside
<1>18. Around(stk, u, k)
  BY <1>3, <1>17, BesideAround
<1>19. Begins(g, l, c)
  <2>1. FALSE \in BOOLEAN /\ "READ_REQUEST_RECEIVE" \in {"READ_REQUEST_RECEIVE", "WRITE_REQUEST_RECEIVE"}
    OBVIOUS
  <2>2. l \in Mods /\ l # MM /\ g.ev \in Forkers
    BY <1>1, <1>13
  <2>3. Made(c, "READ_REQUEST_RECEIVE", f.tgt, f.addr, l, FALSE, 0)
    BY DEF f
  <2>. QED BY <1>2, <2>1, <2>2, <2>3, RequestBegins
<1>20. Counted(g, Cardinality({l} \cap Mods))
  <2>1. Cardinality({l}) = 1
    BY FS_Singleton
  <2>2. 1 + Cardinality({l}) \in 1..Cardinality(Mods) /\ {l} \cap Mods = {l}
    BY Outs, {l} \in SUBSET (Mods \ {MM})
  <2>3. 2 \in 1..Cardinality(Mods) /\ Cardinality({l} \cap Mods) = 1
    BY <2>1, <2>2
  <2>. QED BY <1>1, <1>13, <2>3 DEF Counted
<1>21. Onward(stk, u, k, {l})
  BY <1>12, <1>16, <1>18, <1>19, <1>20 DEF Onward, g, a
<1>22. {l} \in SUBSET Labels
  BY <1>4
<1>23. /\ Locks(u[k]) <=> Locks(stk[k])
       /\ Module(u[k]) = Module(stk[k]) /\ u[k].way = stk[k].way /\ u[k].n > 0
  <2>1. Locks(g)
    BY <1>1, <1>13 DEF Locks
  <2>2. g.way = f.way /\ g.n > 0
    BY <1>13, <1>14 DEF Kept
  <2>. QED BY <1>16, <2>1, <2>2 DEF g, f
<1>24. StackInv(u, nextId) /\ LockInv(u, lock) /\ ListInv(u, acc)
  BY <1>3, <1>21, <1>22, <1>23, StepKeeps DEF f
<1>. QED BY <1>7, <1>24 DEF Sound

\* A read request that asks nobody goes on at once.
LEMMA RequestNoAsk ==
  ASSUME NmoesiInv, NEW k \in DOMAIN stk, stk[k].n > 0, stk[k].ev = "READ_REQUEST_ACTION",
         Locks(stk[k]),
         NEW ev \in {"READ_REQUEST_UPDOWN_FINISH", "READ_REQUEST_DOWNUP_WAIT_FOR_REQS"},
         Fits(k, ev, 1), NEW s, FreeIn(s), \A x \in DOMAIN stk : x # k => s[x] = stk[x]
  PROVE  Sound(NoAsk(s, k, ev), lock, acc)
<1>. DEFINE f == s[k]
            h == [f EXCEPT !.pending = 1]
            v == [s EXCEPT ![k].pending = 1]
            u == Goto(v, k, ev)
<1>1. /\ stk[k].ev \in WriteEvs \cup ReadEvs /\ ev \in Lockers /\ ev \notin FalCallers
      /\ ev # "FIND_AND_LOCK" /\ ev # "READ_REQUEST_UPDOWN_MISS" /\ Settled(k)
  BY DEF ReadEvs, Forkers, Lockers, FalCallers, Settled
<1>2. /\ f = [y \in Fields |-> f[y]] /\ h = [f EXCEPT !.pending = 1]
      /\ But(stk[k], f, Free) /\ DOMAIN s = DOMAIN stk
  BY DEF FreeIn, Whole
<1>3. v = [stk EXCEPT ![k] = h]
  <2>1. v = [s EXCEPT ![k] = h]
    BY <1>2
  <2>2. /\ DOMAIN v = DOMAIN stk /\ DOMAIN [stk EXCEPT ![k] = h] = DOMAIN stk
        /\ \A x \in DOMAIN stk : v[x] = [stk EXCEPT ![k] = h][x]
    BY <1>2, <2>1
  <2>3. /\ v = [x \in DOMAIN stk |-> v[x]]
        /\ [stk EXCEPT ![k] = h] = [x \in DOMAIN stk |-> [stk EXCEPT ![k] = h][x]]
    BY <1>2, <2>1
  <2>. QED BY <2>2, <2>3
<1>4. NoAsk(s, k, ev) = u /\ Scheduled(u, v, k, ev)
  BY DEF NoAsk, Scheduled
<1>. HIDE DEF u, v, h, f
<1>5. But(f, h, Free \cup {"pending"}) /\ h.pending = 1
  BY <1>2 DEF But, Fields, Free
<1>6. But(stk[k], h, Free \cup {"pending"})
  BY <1>2, <1>5 DEF But
<1>7. Told(v, k, Free \cup {"pending"}) /\ v[k].pending = 1 /\ v[k].pending \in Nat
  <2>1. Told(v, k, Free \cup {"pending"}) /\ v[k] = h
    BY <1>3, <1>6, ToldAt
  <2>. QED BY <1>5, <2>1
<1>. QED BY <1>1, <1>4, <1>7, RequestKeeps

LEMMA ReadRequestUpdownKeeps ==
  ASSUME NmoesiInv, NEW k \in DOMAIN stk, ReadRequestUpdown(k)
  PROVE  NmoesiInv'
<1>. DEFINE m == stk[k].tgt
            w == stk[k].way
            b == stk[k].addr
            o == dir[m][w].owner
            q == m \in fresh[b]
            s == [stk EXCEPT ![k].good = q]
            r == [stk EXCEPT ![k].pending = 1]
            c == ReadStack(m, b, FALSE)
            d == OwnerRead(m, w, b, TRUE)
            miss == "READ_REQUEST_UPDOWN_MISS"
            ev == "READ_REQUEST_UPDOWN_FINISH"
<1>1. /\ stk[k].ev = "READ_REQUEST_ACTION" /\ stk[k].n > 0 /\ ~stk[k].err /\ stk[k].down
      /\ UNCHANGED <<blk, dir, lock, acc, nextId, fresh>>
      /\ \/ stk[k].state = "I" /\ stk' = Call(r, k, miss, "REQ", c)
         \/ stk' = NoAsk(s, k, ev)
         \/ o # None /\ stk' = Ask(stk, k, ev, d)
  BY DEF ReadRequestUpdown, At
<1>2. stk[k].ev \in WriteEvs \cup ReadEvs /\ stk[k].ev \notin Forkers
  BY <1>1 DEF ReadEvs, Forkers
<1>3. /\ CacheInv(blk, dir) /\ fresh \in [Blocks -> SUBSET Mods] /\ Whole(stk)
      /\ StackInv(stk, nextId) /\ LockInv(stk, lock)
  BY <1>1, Before DEF Sound
<1>4. /\ Typed(stk[k]) /\ RequestOK(stk[k]) /\ m \in Mods /\ b \in Blocks \cup {None}
      /\ Module(stk[k]) = m
  BY <1>1, <1>2, RequestBefore
<1>5. Locks(stk[k]) /\ ev \in {"READ_REQUEST_UPDOWN_FINISH", "READ_REQUEST_DOWNUP_WAIT_FOR_REQS"}
  BY <1>1 DEF Locks, Lockers, FalCallers
<1>6. w \in Ways(m)
  BY <1>3, <1>4, <1>5, LockedWay
<1>7. Fits(k, ev, 1)
  BY <1>1, <1>4 DEF Fits, Kept, RequestOK, InList, WriteEvs, ReadEvs, FalCallers
<1>8. CASE stk[k].state = "I" /\ stk' = Call(r, k, miss, "REQ", c)
  <2>1. m # MM
    BY <1>1, <1>4, <1>8 DEF RequestOK, FalCallers, WriteEvs
  <2>2. Low[m] \in Mods /\ TRUE \in BOOLEAN
    BY <1>4, <2>1, TreeAssumption
  <2>3. Made(c, "READ_REQUEST_RECEIVE", m, b, Low[m], TRUE, 0)
    BY ReadStackIs
  <2>. HIDE DEF c
  <2>4. /\ miss \in Lockers /\ miss \notin Forkers /\ miss # "FIND_AND_LOCK" /\ miss \in ReqCallers
        /\ "REQ" \in {"FAL", "EVICT", "INV", "REQ"}
    BY DEF Lockers, Forkers, ReqCallers
  <2>5. BeginsAt(miss, "REQ", c)
    <3>1. ASSUME NEW g, g.ev = miss, g.n = 0
          PROVE  Begins(g, "REQ", c)
      <4>1. g.ev \in ReqCallers
        BY <2>4, <3>1
      <4>. QED BY <1>4, <2>1, <2>2, <2>3, <3>1, <4>1, RequestBegins
    <3>. QED BY <3>1 DEF BeginsAt
  <2>6. Fits(k, miss, 0)
    BY <1>1, <1>4, <2>1 DEF Fits, Kept, RequestOK, InList, WriteEvs, ReadEvs, FalCallers
  <2>7. Told(r, k, Free \cup {"pending"}) /\ r[k].pending = 1
    <3>. DEFINE f == stk[k]
                h == [f EXCEPT !.pending = 1]
    <3>1. f = [y \in Fields |-> f[y]] /\ h = [f EXCEPT !.pending = 1] /\ r = [stk EXCEPT ![k] = h]
      BY <1>4 DEF Typed
    <3>. HIDE DEF f, h, r
    <3>2. But(f, h, Free \cup {"pending"}) /\ h.pending = 1
      BY <3>1 DEF But, Fields, Free
    <3>3. Told(r, k, Free \cup {"pending"}) /\ r[k] = h
      BY <3>1, <3>2, ToldAt DEF f
    <3>. QED BY <3>2, <3>3
  <2>8. r[k].pending \in Nat
    BY <2>7
  <2>. HIDE DEF r
  <2>9. Sound(stk', lock, acc)
    BY <1>1, <1>2, <1>5, <1>8, <2>4, <2>5, <2>6, <2>7, <2>8, RequestCalls
  <2>. QED BY <1>1, <1>3, <2>9, Resume
<1>9. CASE stk' = NoAsk(s, k, ev)
  <2>. DEFINE f == stk[k]
              h == [f EXCEPT !.good = q]
  <2>1. f = [y \in Fields |-> f[y]] /\ h = [f EXCEPT !.good = q] /\ s = [stk EXCEPT ![k] = h]
    BY <1>4 DEF Typed
  <2>. HIDE DEF f, h, s, q
  <2>2. But(f, h, Free)
    BY <2>1 DEF But, Fields, Free
  <2>3. FreeIn(s)
    BY <2>1, <2>2, FreeAt DEF f
  <2>4. \A x \in DOMAIN stk : x # k => s[x] = stk[x]
    BY <2>1
  <2>5. Sound(stk', lock, acc)
    BY <1>1, <1>5, <1>7, <1>9, <2>3, <2>4, RequestNoAsk
  <2>. QED BY <1>1, <1>3, <2>5, Resume
<1>10. CASE o # None /\ stk' = Ask(stk, k, ev, d)
  <2>1. o \in Mods \ {MM}
    <3>1. dir[m][w] \in EntryType
      BY <1>3, <1>4, <1>6, CacheAt
    <3>. QED BY <1>10, <3>1 DEF EntryType
  <2>2. Made(d, "READ_REQUEST_RECEIVE", m, b, o, FALSE, 0)
    BY OwnerReadIs
  <2>. HIDE DEF d
  <2>3. d.tgt = o
    BY <2>2 DEF Made
  <2>. HIDE DEF o
  <2>4. Sound(stk', lock, acc)
    BY <1>1, <1>5, <1>7, <1>10, <2>1, <2>2, <2>3, RequestForks
  <2>. QED BY <1>1, <1>3, <2>4, Resume
<1>. QED BY <1>1, <1>8, <1>9, <1>10

LEMMA ReadRequestDownupKeeps ==
  ASSUME NmoesiInv, NEW k \in DOMAIN stk, ReadRequestDownup(k)
  PROVE  NmoesiInv'
<1>. DEFINE m == stk[k].tgt
            w == stk[k].way
            b == stk[k].addr
            o == dir[m][w].owner
            d == OwnerRead(m, w, b, FALSE)
            ev == "READ_REQUEST_DOWNUP_WAIT_FOR_REQS"
<1>1. /\ stk[k].ev = "READ_REQUEST_ACTION" /\ stk[k].n > 0 /\ ~stk[k].err /\ ~stk[k].down
      /\ UNCHANGED <<blk, dir, lock, acc, nextId, fresh>>
      /\ \/ stk' = NoAsk(stk, k, ev)
         \/ o # None /\ stk' = Ask(stk, k, ev, d)
  BY DEF ReadRequestDownup, At
<1>2. stk[k].ev \in WriteEvs \cup ReadEvs
  BY <1>1 DEF ReadEvs
<1>3. /\ CacheInv(blk, dir) /\ fresh \in [Blocks -> SUBSET Mods]
      /\ StackInv(stk, nextId) /\ LockInv(stk, lock)
  BY <1>1, Before DEF Sound
<1>4. /\ Typed(stk[k]) /\ RequestOK(stk[k]) /\ m \in Mods /\ b \in Blocks \cup {None}
      /\ Module(stk[k]) = m
  BY <1>1, <1>2, RequestBefore
<1>5. Locks(stk[k]) /\ ev \in {"READ_REQUEST_UPDOWN_FINISH", "READ_REQUEST_DOWNUP_WAIT_FOR_REQS"}
  BY <1>1 DEF Locks, Lockers, FalCallers
<1>6. w \in Ways(m)
  BY <1>3, <1>4, <1>5, LockedWay
<1>7. Fits(k, ev, 1)
  BY <1>1, <1>4 DEF Fits, Kept, RequestOK, InList, WriteEvs, ReadEvs, FalCallers
<1>8. CASE stk' = NoAsk(stk, k, ev)
  <2>1. FreeIn(stk)
    BY FreeSame
  <2>2. Sound(stk', lock, acc)
    BY <1>1, <1>5, <1>7, <1>8, <2>1, RequestNoAsk
  <2>. QED BY <1>1, <1>3, <2>2, Resume
<1>9. CASE o # None /\ stk' = Ask(stk, k, ev, d)
  <2>1. o \in Mods \ {MM}
    <3>1. dir[m][w] \in EntryType
      BY <1>3, <1>4, <1>6, CacheAt
    <3>. QED BY <1>9, <3>1 DEF EntryType
  <2>2. Made(d, "READ_REQUEST_RECEIVE", m, b, o, FALSE, 0)
    BY OwnerReadIs
  <2>. HIDE DEF d
  <2>3. d.tgt = o
    BY <2>2 DEF Made
  <2>. HIDE DEF o
  <2>4. Sound(stk', lock, acc)
    BY <1>1, <1>5, <1>7, <1>9, <2>1, <2>2, <2>3, RequestForks
  <2>. QED BY <1>1, <1>3, <2>4, Resume
<1>. QED BY <1>1, <1>8, <1>9

LEMMA ReadRequestDownupWaitForReqsKeeps ==
  ASSUME NmoesiInv, NEW k \in DOMAIN stk, ReadRequestDownupWaitForReqs(k)
  PROVE  NmoesiInv'
<1>. DEFINE ev == "READ_REQUEST_DOWNUP_FINISH"
<1>1. /\ stk[k].ev = "READ_REQUEST_DOWNUP_WAIT_FOR_REQS" /\ stk[k].n > 0
      /\ UNCHANGED <<blk, dir, lock, acc, nextId, fresh>>
      /\ \/ ~LastPending(k) /\ stk' = Countdown(stk, k)
         \/ LastPending(k) /\ Scheduled(stk', stk, k, ev)
  <2>1. stk[k].peer \/ ~stk[k].peer
    OBVIOUS
  <2>. QED BY <2>1 DEF ReadRequestDownupWaitForReqs, At, ToPeer, Scheduled
<1>2. /\ stk[k].ev \in WriteEvs \cup ReadEvs /\ stk[k].ev \in Forkers /\ Locks(stk[k])
  BY <1>1 DEF ReadEvs, Forkers, Locks, Lockers
<1>3. /\ CacheInv(blk, dir) /\ fresh \in [Blocks -> SUBSET Mods]
  BY <1>1, Before
<1>4. CASE ~LastPending(k) /\ stk' = Countdown(stk, k)
  <2>1. Sound(stk', lock, acc)
    BY <1>1, <1>2, <1>4, CountsDown
  <2>. QED BY <1>1, <1>3, <2>1, Resume
<1>5. CASE LastPending(k) /\ Scheduled(stk', stk, k, ev)
  <2>1. Settled(k)
    BY <1>5 DEF Settled
  <2>2. RequestOK(stk[k])
    BY <1>1, <1>2, RequestBefore
  <2>3. Fits(k, ev, 1)
    BY <1>1, <2>2 DEF Fits, Kept, RequestOK, InList, WriteEvs, ReadEvs, FalCallers
  <2>4. ev \in Lockers /\ ev \notin FalCallers /\ ev \notin Forkers /\ ev # "FIND_AND_LOCK"
    BY DEF Lockers, FalCallers, Forkers
  <2>5. Sound(stk', lock, acc)
    BY <1>1, <1>2, <1>5, <2>1, <2>3, <2>4, NothingTold, RequestKeeps
  <2>. QED BY <1>1, <1>3, <2>5, Resume
<1>. QED BY <1>1, <1>4, <1>5

LEMMA ReadRequestFinishKeeps ==
  ASSUME NmoesiInv, NEW k \in DOMAIN stk, ReadRequestFinish(k)
  PROVE  NmoesiInv'
<1>1. /\ stk[k].ev = "READ_REQUEST_FINISH" /\ stk[k].n > 0
      /\ UNCHANGED <<blk, dir, lock, nextId, fresh>>
      /\ stk' = Return(stk, k)
      /\ acc' = IF stk[k].down THEN [acc EXCEPT ![stk[k].tgt] = Unlinked(@, k)] ELSE acc
  BY DEF ReadRequestFinish, At
<1>2. /\ stk[k].ev \in WriteEvs \cup ReadEvs /\ stk[k].ev \notin Forkers
      /\ ~Locks(stk[k]) /\ (InList(stk[k]) <=> stk[k].down)
  BY <1>1 DEF WriteEvs, Forkers, Locks, Lockers, FalCallers, InList, ReadEvs
<1>3. /\ CacheInv(blk, dir) /\ fresh \in [Blocks -> SUBSET Mods]
      /\ Sound(stk, lock, acc) /\ NoKids(stk, k)
  BY <1>1, <1>2, Before
<1>4. /\ stk[k].ev \notin FalEvs /\ stk[k].tgt \in Mods
      /\ \A c : Listed(stk, k, c) <=> InList(stk[k]) /\ c = stk[k].tgt
  BY <1>1, <1>2, RequestBefore
<1>5. Sound(stk', lock, acc')
  <2>1. CASE stk[k].down
    <3>1. \A c : Listed(stk, k, c) <=> c = stk[k].tgt
      BY <1>2, <1>4, <2>1
    <3>2. Sound(Return(stk, k), lock, [acc EXCEPT ![stk[k].tgt] = Unlinked(@, k)])
      BY <1>1, <1>2, <1>3, <1>4, <3>1, ReturnsUnlinked
    <3>. QED BY <1>1, <2>1, <3>2
  <2>2. CASE ~stk[k].down
    <3>1. \A c : ~Listed(stk, k, c)
      BY <1>2, <1>4, <2>2
    <3>2. Sound(Return(stk, k), lock, acc)
      BY <1>1, <1>2, <1>3, <1>4, <3>1, ReturnsOn
    <3>. QED BY <1>1, <2>2, <3>2
  <2>. QED BY <2>1, <2>2
<1>. QED BY <1>1, <1>3, <1>5, Resume

LEMMA ReadRequestUpdownMissKeeps ==
  ASSUME NmoesiInv, NEW k \in DOMAIN stk, ReadRequestUpdownMiss(k)
  PROVE  NmoesiInv'
<1>. DEFINE m == stk[k].tgt
            w == stk[k].way
            b == stk[k].addr
            st == IF stk[k].shared THEN "S" ELSE "E"
            v == [stk EXCEPT ![Front(k)].err = TRUE]
            fin == "READ_REQUEST_FINISH"
            ev == "READ_REQUEST_UPDOWN_FINISH"
            Fails == /\ lock' = Unlocked(m, w)
                     /\ stk' = Wake(Later(v, k, fin), m, w)
                     /\ UNCHANGED <<blk, fresh>>
            Works == /\ blk' = SetBlock(blk, m, w, b, st)
                     /\ fresh' = Receive(m, b, stk[k].good)
                     /\ stk' = Goto(stk, k, ev)
                     /\ UNCHANGED lock
<1>1. /\ stk[k].ev = "READ_REQUEST_UPDOWN_MISS" /\ stk[k].n > 0
      /\ UNCHANGED <<dir, acc, nextId>>
      /\ Fails \/ Works
  BY DEF ReadRequestUpdownMiss, At, Parent
<1>2. stk[k].ev \in WriteEvs \cup ReadEvs /\ stk[k].ev \notin Forkers /\ Settled(k)
  BY <1>1 DEF ReadEvs, Forkers, Settled
<1>3. /\ CacheInv(blk, dir) /\ fresh \in [Blocks -> SUBSET Mods]
      /\ StackInv(stk, nextId) /\ LockInv(stk, lock)
  BY <1>1, Before DEF Sound
<1>4. /\ Len(k) > 1 /\ RequestOK(stk[k]) /\ m \in Mods /\ b \in Blocks \cup {None}
      /\ Module(stk[k]) = m
  BY <1>1, <1>2, RequestBefore
<1>5. Locks(stk[k])
  BY <1>1 DEF Locks, Lockers
<1>6. w \in Ways(m) /\ m # MM /\ stk[k].pending = 1 /\ stk[k].down
  BY <1>1, <1>3, <1>4, <1>5, LockedWay DEF RequestOK
<1>7. CASE Fails
  <2>. DEFINE u == Later(v, k, fin)
  <2>1. Told(v, k, Free \cup {"pending"}) /\ v[k].pending \in Nat
    BY <1>1, <1>4, TellsError, PlainTold
  <2>2. Fits(k, fin, 1)
    BY <1>1 DEF Fits, Kept, RequestOK, InList, WriteEvs, ReadEvs, FalCallers
  <2>3. /\ fin \notin Lockers /\ fin \notin FalCallers /\ fin \notin Forkers
        /\ fin # "FIND_AND_LOCK"
    BY DEF Lockers, FalCallers, Forkers
  <2>4. Scheduled(u, v, k, fin) /\ stk' = Wake(u, m, w)
    BY <1>7 DEF Scheduled
  <2>. HIDE DEF v, u
  <2>5. Sound(stk', lock', acc)
    <3>1. stk' = Wake(u, m, w) /\ lock' = Unlocked(m, w) /\ stk[k].n > 0
      BY <1>1, <1>7, <2>4
    <3>2. Sound(Wake(u, m, w), Unlocked(m, w), acc)
      BY <1>2, <1>5, <2>1, <2>2, <2>3, <2>4, <3>1, RequestUnlocks
    <3>. QED BY <3>1, <3>2
  <2>. QED BY <1>1, <1>3, <1>7, <2>5, Resume
<1>8. CASE Works
  <2>1. Fits(k, ev, 1)
    BY <1>1, <1>4, <1>6 DEF Fits, Kept, RequestOK, InList, WriteEvs, ReadEvs, FalCallers
  <2>2. ev \in Lockers /\ ev \notin FalCallers /\ ev # "FIND_AND_LOCK" /\ ev # stk[k].ev
    BY <1>1 DEF Lockers, FalCallers
  <2>3. Scheduled(stk', stk, k, ev)
    BY <1>8 DEF Scheduled
  <2>4. Sound(stk', lock, acc)
    BY <1>1, <1>2, <1>5, <1>6, <2>1, <2>2, <2>3, NothingTold, RequestKeeps
  <2>5. CacheInv(blk', dir)
    <3>1. st \in States
      BY DEF States
    <3>. HIDE DEF st
    <3>. QED BY <1>3, <1>4, <1>6, <1>8, <3>1, SetBlockKeeps
  <2>6. fresh' \in [Blocks -> SUBSET Mods]
    BY <1>4, <1>8, ReceiveKeeps
  <2>. QED BY <1>1, <1>8, <2>4, <2>5, <2>6, Resume
<1>. QED BY <1>1, <1>7, <1>8

\* The entry that a read leaves has its type.
LEMMA GrantedKeeps ==
  ASSUME NEW f, f.mod \in Mods \ {MM}, NEW e \in EntryType
  PROVE  Granted(f, e).entry \in EntryType
<1>. DEFINE sharers == e.sharers \cup {f.mod}
            shared == Cardinality(sharers) > 1 \/ f.shared
            o == CASE ~shared -> f.mod
                   [] shared /\ (f.retain \/ e.owner = f.mod) -> e.owner
                   [] OTHER -> None
<1>1. Granted(f, e).entry = [sharers |-> sharers, owner |-> o]
  BY DEF Granted
<1>2. /\ e.owner \in (Mods \ {MM}) \cup {None}
      /\ sharers \in SUBSET (Mods \ {MM})
  BY DEF EntryType
<1>3. o \in (Mods \ {MM}) \cup {None}
  <2>. HIDE DEF shared
  <2>1. CASE ~shared
    BY <2>1
  <2>2. CASE shared
    BY <1>2, <2>2
  <2>. QED BY <2>1, <2>2
<1>. HIDE DEF o, sharers
<1>. QED BY <1>1, <1>2, <1>3 DEF EntryType

LEMMA ReadRequestUpdownFinishKeeps ==
  ASSUME NmoesiInv, NEW k \in DOMAIN stk, ReadRequestUpdownFinish(k)
  PROVE  NmoesiInv'
<1>. DEFINE p == Front(k)
            m == stk[k].tgt
            w == stk[k].way
            z == Granted(stk[k], dir[m][w])
            e == z.entry
            sh == z.shared
            gd == stk[k].good
            ev == "READ_REQUEST_FINISH"
            s == [stk EXCEPT ![p].shared = sh, ![p].good = gd]
            Ends == /\ dir' = [dir EXCEPT ![m][w] = e]
                    /\ lock' = Unlocked(m, w)
                    /\ stk' = Wake(Later(s, k, ev), m, w)
<1>1. /\ stk[k].ev = "READ_REQUEST_UPDOWN_FINISH" /\ stk[k].n > 0
      /\ UNCHANGED <<blk, acc, nextId, fresh>>
      /\ \/ ~LastPending(k) /\ stk' = Countdown(stk, k) /\ UNCHANGED <<dir, lock>>
         \/ LastPending(k) /\ Ends
  BY DEF ReadRequestUpdownFinish, At, Parent
<1>2. stk[k].ev \in WriteEvs \cup ReadEvs /\ stk[k].ev \in Forkers /\ Locks(stk[k])
  BY <1>1 DEF ReadEvs, Forkers, Locks, Lockers
<1>3. /\ CacheInv(blk, dir) /\ fresh \in [Blocks -> SUBSET Mods]
      /\ StackInv(stk, nextId) /\ LockInv(stk, lock)
  BY <1>1, Before DEF Sound
<1>4. /\ Len(k) > 1 /\ p \in DOMAIN stk /\ p # k /\ Typed(stk[p])
      /\ RequestOK(stk[k]) /\ m \in Mods /\ stk[k].mod \in Mods
      /\ Module(stk[k]) = m
      /\ stk[k].down => stk[k].mod # MM
  BY <1>1, <1>2, RequestBefore
<1>5. CASE ~LastPending(k) /\ stk' = Countdown(stk, k) /\ UNCHANGED <<dir, lock>>
  <2>1. Sound(stk', lock, acc)
    BY <1>1, <1>2, <1>5, CountsDown
  <2>. QED BY <1>1, <1>3, <1>5, <2>1, Resume
<1>6. CASE LastPending(k) /\ Ends
  <2>. DEFINE f == stk[p]
              g == [f EXCEPT !.shared = sh, !.good = gd]
              v == [stk EXCEPT ![p] = g]
              u == Later(v, k, ev)
  <2>1. Settled(k)
    BY <1>6 DEF Settled
  <2>2. Fits(k, ev, 1)
    BY <1>1, <1>4 DEF Fits, Kept, RequestOK, InList, WriteEvs, ReadEvs, FalCallers
  <2>3. /\ ev \notin Lockers /\ ev \notin FalCallers /\ ev \notin Forkers
        /\ ev # "FIND_AND_LOCK"
    BY DEF Lockers, FalCallers, Forkers
  <2>4. w \in Ways(m)
    BY <1>2, <1>3, <1>4, LockedWay
  <2>. HIDE DEF sh, gd
  <2>5. s = v
    BY <1>4
  <2>6. f = [y \in Fields |-> f[y]] /\ g = [f EXCEPT !.shared = sh, !.good = gd]
    BY <1>4 DEF Typed
  <2>7. But(f, g, Free)
    <3>. HIDE DEF f, g
    <3>. QED BY <2>6 DEF But, Free, Fields
  <2>8. Scheduled(u, v, k, ev) /\ stk' = Wake(u, m, w)
    BY <1>6, <2>5 DEF Scheduled
  <2>. HIDE DEF g, u, s
  <2>9. Told(v, k, Free \cup {"pending"}) /\ v[k].pending \in Nat
    BY <1>1, <1>4, <2>7, TellsFree
  <2>. HIDE DEF v
  <2>10. Sound(stk', lock', acc)
    <3>1. stk' = Wake(u, m, w) /\ lock' = Unlocked(m, w) /\ stk[k].n > 0
      BY <1>1, <1>6, <2>8
    <3>2. Sound(Wake(u, m, w), Unlocked(m, w), acc)
      BY <1>2, <2>1, <2>2, <2>3, <2>8, <2>9, <3>1, RequestUnlocks
    <3>. QED BY <3>1, <3>2
  <2>11. e \in EntryType
    <3>1. dir[m][w] \in EntryType
      BY <1>3, <1>4, <2>4, CacheAt
    <3>2. stk[k].mod \in Mods \ {MM}
      BY <1>1, <1>4 DEF RequestOK
    <3>. QED BY <3>1, <3>2, GrantedKeeps
  <2>. HIDE DEF e
  <2>12. CacheInv(blk, dir')
    BY <1>3, <1>4, <1>6, <2>4, <2>11, EntryKeeps
  <2>. QED BY <1>1, <1>3, <2>10, <2>12, Resume
<1>. QED BY <1>1, <1>5, <1>6

LEMMA ReadRequestDownupFinishKeeps ==
  ASSUME NmoesiInv, NEW k \in DOMAIN stk, ReadRequestDownupFinish(k)
  PROVE  NmoesiInv'
<1>. DEFINE p == Front(k)
            m == stk[k].tgt
            w == stk[k].way
            b == stk[k].addr
            st == DownupState(stk[k])
            rp == DownupReply(stk[k])
            gd == m \in fresh[b]
            rt == stk[p].retain \/ st = "O"
            ev == "READ_REQUEST_FINISH"
            s == IF stk[k].peer
                 THEN [stk EXCEPT ![p].retain = @ \/ st = "O", ![p].good = gd]
                 ELSE [stk EXCEPT ![p].reply = rp]
<1>1. /\ stk[k].ev = "READ_REQUEST_DOWNUP_FINISH" /\ stk[k].n > 0
      /\ UNCHANGED <<acc, nextId>>
      /\ blk' = SetBlock(blk, m, w, b, st)
      /\ dir' = dir \/ dir' = [dir EXCEPT ![m][w].owner = None]
      /\ fresh' = fresh \/ fresh' = Receive(stk[k].mod, b, gd)
      /\ lock' = Unlocked(m, w)
      /\ stk' = Wake(Later(s, k, ev), m, w)
  BY DEF ReadRequestDownupFinish, At, Parent
<1>2. stk[k].ev \in WriteEvs \cup ReadEvs /\ stk[k].ev \notin Forkers /\ Settled(k) /\ Locks(stk[k])
  BY <1>1 DEF ReadEvs, Forkers, Settled, Locks, Lockers
<1>3. /\ CacheInv(blk, dir) /\ fresh \in [Blocks -> SUBSET Mods]
      /\ StackInv(stk, nextId) /\ LockInv(stk, lock)
  BY <1>1, Before DEF Sound
<1>4. /\ Len(k) > 1 /\ p \in DOMAIN stk /\ p # k /\ Typed(stk[p])
      /\ RequestOK(stk[k]) /\ m \in Mods /\ stk[k].mod \in Mods /\ b \in Blocks \cup {None}
      /\ Module(stk[k]) = m
      /\ ~stk[k].down => m # MM
  BY <1>1, <1>2, RequestBefore
<1>5. w \in Ways(m) /\ m # MM
  BY <1>1, <1>2, <1>3, <1>4, LockedWay DEF RequestOK
<1>6. Fits(k, ev, 1)
  BY <1>1, <1>4 DEF Fits, Kept, RequestOK, InList, WriteEvs, ReadEvs, FalCallers
<1>7. /\ ev \notin Lockers /\ ev \notin FalCallers /\ ev \notin Forkers
      /\ ev # "FIND_AND_LOCK"
  BY DEF Lockers, FalCallers, Forkers
<1>8. Told(s, k, Free \cup {"pending"}) /\ s[k].pending \in Nat
  <2>. DEFINE f == stk[p]
              g == IF stk[k].peer THEN [f EXCEPT !.retain = rt, !.good = gd]
                   ELSE [f EXCEPT !.reply = rp]
  <2>. HIDE DEF st, rp, gd
  <2>1. s = [stk EXCEPT ![p] = g]
    BY <1>4
  <2>. HIDE DEF rt
  <2>2. /\ f = [y \in Fields |-> f[y]]
        /\ \/ g = [f EXCEPT !.retain = rt, !.good = gd]
           \/ g = [f EXCEPT !.reply = rp]
    BY <1>4 DEF Typed
  <2>3. But(f, g, Free)
    <3>. HIDE DEF f, g
    <3>1. CASE g = [f EXCEPT !.retain = rt, !.good = gd]
      BY <2>2, <3>1 DEF But, Free, Fields
    <3>2. CASE g = [f EXCEPT !.reply = rp]
      BY <2>2, <3>2 DEF But, Free, Fields
    <3>. QED BY <2>2, <3>1, <3>2
  <2>. HIDE DEF g, s
  <2>. QED BY <1>1, <1>4, <2>1, <2>3, TellsFree
<1>9. Sound(stk', lock', acc)
  <2>. DEFINE u == Later(s, k, ev)
  <2>1. /\ Scheduled(u, s, k, ev) /\ stk' = Wake(u, m, w) /\ stk[k].n > 0
        /\ lock' = Unlocked(m, w)
    BY <1>1 DEF Scheduled
  <2>. HIDE DEF u, s
  <2>2. Sound(Wake(u, m, w), Unlocked(m, w), acc)
    BY <1>2, <1>6, <1>7, <1>8, <2>1, RequestUnlocks
  <2>. QED BY <2>1, <2>2
<1>10. CacheInv(blk', dir)
  <2>1. st \in States
    BY DEF DownupState, States
  <2>. HIDE DEF st
  <2>. QED BY <1>1, <1>3, <1>4, <1>5, <2>1, SetBlockKeeps
<1>11. CacheInv(blk', dir')
  <2>. DEFINE e == [dir[m][w] EXCEPT !.owner = None]
  <2>1. CASE dir' = dir
    BY <1>10, <2>1
  <2>2. CASE dir' = [dir EXCEPT ![m][w].owner = None]
    <3>1. dir' = [dir EXCEPT ![m][w] = e]
      BY <2>2
    <3>2. dir[m][w] \in EntryType
      BY <1>3, <1>4, <1>5, CacheAt
    <3>3. e \in EntryType
      BY <3>2 DEF EntryType
    <3>. HIDE DEF e
    <3>. QED BY <1>4, <1>5, <1>10, <3>1, <3>3, EntryKeeps
  <2>. QED BY <1>1, <2>1, <2>2
<1>12. fresh' \in [Blocks -> SUBSET Mods]
  <2>. HIDE DEF gd
  <2>. QED BY <1>1, <1>3, <1>4, ReceiveKeeps
<1>. QED BY <1>1, <1>9, <1>11, <1>12, Resume

-----------------------------------------------------------------------------
(* New accesses *)

\* The name of an access.
LEMMA AccessPath ==
  ASSUME NEW i \in 1..MaxAccesses
  PROVE  <<i>> \in Paths /\ Len(<<i>>) = 1 /\ <<i>>[1] = i
<1>. DEFINE S == (1..MaxAccesses) \cup Labels
<1>1. /\ <<i>> \in Seq(S) /\ <<i>> # <<>> /\ <<i>>[1] = i /\ Len(<<i>>) = 1
  <2>1. i \in S
    OBVIOUS
  <2>. HIDE DEF S
  <2>. QED BY <2>1
<1>2. 2..Len(<<i>>) = {}
  BY <1>1
<1>. QED BY <1>1, <1>2 DEF Paths

\* The calls, the locks and the lists with one more access.
LEMMA AccessBegins ==
  ASSUME NmoesiInv, nextId \in 1..MaxAccesses, NEW f, Typed(f), AccessOK(f), f.ev \in Sleepers,
         f.n \in {0, 1}, NEW t, t = Put(stk, <<nextId>>, f)
  PROVE  /\ StackInv(t, nextId + 1) /\ LockInv(t, lock)
         /\ ListInv(t, [acc EXCEPT ![f.mod] = Append(@, <<nextId>>)])
<1>. DEFINE k == <<nextId>>
<1>1. StackInv(stk, nextId) /\ LockInv(stk, lock) /\ ListInv(stk, acc)
  BY DEF NmoesiInv
<1>2. k \in Paths /\ Len(k) = 1 /\ k[1] = nextId /\ nextId \in Nat
  BY AccessPath
<1>. HIDE DEF k
<1>3. \A x \in DOMAIN stk : x \in Paths /\ x[1] < nextId /\ x[1] \in Nat
  BY <1>1 DEF StackInv, Calls, Paths
<1>4. k \notin DOMAIN stk
  BY <1>2, <1>3
<1>5. /\ DOMAIN t = DOMAIN stk \cup {k} /\ t[k] = f
      /\ \A x \in DOMAIN stk : t[x] = stk[x]
  BY <1>4 DEF Put, k
<1>6. f.ev \notin Forkers /\ f.ev # "FIND_AND_LOCK" /\ ~Locks(f) /\ f.mod \in Mods
  <2>1. f.ev \notin Forkers /\ f.ev # "FIND_AND_LOCK" /\ ~Locks(f)
    BY DEF Sleepers, Forkers, Locks, Lockers, FalCallers
  <2>. QED BY <2>1 DEF Typed
<1>7. Calls(t, nextId + 1)
  <2>1. ASSUME NEW x \in DOMAIN t
        PROVE  /\ x \in Paths /\ x[1] < nextId + 1 /\ Typed(t[x])
               /\ Len(x) = 1 => AccessOK(t[x])
               /\ Len(x) > 1 => Front(x) \in DOMAIN t /\ Called(t[Front(x)], Last(x), t[x])
    <3>1. CASE x = k
      <4>1. k[1] < nextId + 1 /\ ~(Len(k) > 1)
        BY <1>2
      <4>2. t[x] = f
        BY <1>5, <3>1
      <4>. QED BY <1>2, <3>1, <4>1, <4>2
    <3>2. CASE x \in DOMAIN stk
      <4>1. /\ x \in Paths /\ Typed(stk[x])
            /\ Len(x) = 1 => AccessOK(stk[x])
            /\ Len(x) > 1 => Front(x) \in DOMAIN stk /\ Called(stk[Front(x)], Last(x), stk[x])
        BY <1>1, <3>2 DEF StackInv, Calls
      <4>2. x[1] < nextId + 1
        BY <1>2, <1>3, <3>2
      <4>. QED BY <1>5, <3>2, <4>1, <4>2
    <3>. QED BY <1>5, <2>1, <3>1, <3>2
  <2>. QED BY <2>1 DEF Calls
<1>8. Counts(t)
  <2>1. ASSUME NEW x \in DOMAIN t
        PROVE  Counted(t[x], Cardinality(Kids(t, x)))
    <3>1. CASE x = k
      BY <1>5, <1>6, <3>1 DEF Counted
    <3>2. CASE x \in DOMAIN stk
      <4>1. ASSUME NEW l \in Mods
            PROVE  Append(x, l) # k
        <5>1. l \in Labels /\ x \in Paths
          BY <1>3, <3>2 DEF Labels
        <5>. QED BY <1>2, <5>1, PathAppend
      <4>2. Kids(t, x) = Kids(stk, x)
        BY <1>5, <4>1 DEF Kids
      <4>3. Counted(stk[x], Cardinality(Kids(stk, x)))
        BY <1>1, <3>2 DEF StackInv, Counts
      <4>. QED BY <1>5, <3>2, <4>2, <4>3
    <3>. QED BY <1>5, <2>1, <3>1, <3>2
  <2>. QED BY <2>1 DEF Counts
<1>9. LockInv(t, lock)
  <2>1. \A x, m, w : HoldsWay(t, x, m, w) <=> HoldsWay(stk, x, m, w)
    BY <1>4, <1>5, <1>6 DEF HoldsWay
  <2>2. \A x : Asleep(t, x) <=> Asleep(stk, x)
    BY <1>4, <1>5, <1>6 DEF Asleep
  <2>3. ASSUME NEW x, NEW m, NEW w, WaitsFor(stk, x, m, w)
        PROVE  WaitsFor(t, x, m, w)
    <3>1. Asleep(stk, x) /\ x \in DOMAIN stk
      BY <2>3 DEF WaitsFor, Asleep
    <3>2. Front(x) \in DOMAIN stk
      BY <1>1, <3>1, AsleepCalled
    <3>. QED BY <1>5, <2>2, <2>3, <3>1, <3>2 DEF WaitsFor
  <2>. QED BY <1>1, <2>1, <2>2, <2>3, LockKeeps
<1>10. ListInv(t, [acc EXCEPT ![f.mod] = Append(@, k)])
  <2>1. ~Listed(stk, k, f.mod)
    BY <1>4 DEF Listed
  <2>2. \A x, c : Listed(t, x, c) <=> Listed(stk, x, c) \/ (x = k /\ c = f.mod)
    <3>1. \A c : Listed(t, k, c) <=> c = f.mod
      <4>1. f.ev \notin ReadEvs
        BY DEF AccessOK, AccessEvs, ReadEvs
      <4>. QED BY <1>2, <1>5, <4>1 DEF Listed
    <3>2. \A c : ~Listed(stk, k, c)
      BY <1>4 DEF Listed
    <3>3. \A x, c : x # k => (Listed(t, x, c) <=> Listed(stk, x, c))
      BY <1>5 DEF Listed
    <3>. QED BY <3>1, <3>2, <3>3
  <2>. QED BY <1>1, <1>2, <1>6, <2>1, <2>2, ListAppends
<1>. QED BY <1>7, <1>8, <1>9, <1>10 DEF StackInv, k

\* A core issues an access, which may wait in an older one from the start.
LEMMA NewAccessKeeps ==
  ASSUME NmoesiInv, nextId <= MaxAccesses, NEW c \in Cores, NEW b \in Blocks, NEW kind,
         NEW lockEv \in {"LOAD_LOCK", "STORE_LOCK"}, NEW finishEv \in {"LOAD_FINISH", "STORE_FINISH"},
         Access(c, kind, b, lockEv, finishEv)
  PROVE  NmoesiInv'
<1>. DEFINE k == <<nextId>>
            master == CanCoalesce(c, kind, b, k, c)
            h == NewStack(lockEv, c, b)
            f == [h EXCEPT !.kind = kind, !.master = master]
            s == Put(stk, k, f)
            g == [f EXCEPT !.ev = finishEv, !.n = 0, !.wait = master]
<1>1. /\ stk' = IF master = <<>> THEN s ELSE WaitInStack(s, k, master, finishEv)
      /\ acc' = [acc EXCEPT ![c] = Append(@, k)] /\ nextId' = nextId + 1
      /\ UNCHANGED <<blk, dir, lock, fresh>>
  BY DEF Access
<1>2. nextId \in 1..MaxAccesses /\ MaxAccesses \in Nat /\ c \in Mods
  BY TreeAssumption DEF NmoesiInv
<1>3. Made(h, lockEv, c, b, None, TRUE, 0)
  BY NewStackIs
<1>. HIDE DEF master, h
<1>4. f = [h EXCEPT !.kind = kind, !.master = master] /\ h = [y \in Fields |-> h[y]]
  BY <1>3 DEF Made
<1>5. g = [f EXCEPT !.ev = finishEv, !.n = 0, !.wait = master]
  OBVIOUS
<1>6. WaitInStack(s, k, master, finishEv) = Put(stk, k, g)
  <2>. DEFINE r == [s EXCEPT ![k] = g]
              q == Put(stk, k, g)
  <2>. HIDE DEF f
  <2>1. s[k] = f /\ WaitInStack(s, k, master, finishEv) = r
    BY DEF WaitInStack, Put
  <2>. HIDE DEF g
  <2>2. r = q
    BY DEF Put
  <2>. QED BY <2>1, <2>2
<1>. HIDE DEF f, g
<1>7. But(h, f, Free)
  BY <1>4 DEF But, Fields, Free
<1>8. /\ f = [y \in Fields |-> f[y]] /\ f.ev = lockEv /\ f.n = 1 /\ f.wait = <<>>
      /\ f.mod = c /\ f.tgt = None /\ f.addr = b /\ f.state = "I" /\ f.pending = 0
      /\ f.err = FALSE /\ f.down = TRUE
  <2>1. f = [y \in Fields |-> f[y]]
    BY <1>7 DEF But
  <2>2. /\ f.ev = h.ev /\ f.n = h.n /\ f.wait = h.wait /\ f.mod = h.mod /\ f.tgt = h.tgt
        /\ f.addr = h.addr /\ f.state = h.state /\ f.pending = h.pending /\ f.err = h.err
        /\ f.down = h.down
    BY <1>7 DEF But, Fields, Free
  <2>. QED BY <1>3, <2>1, <2>2 DEF Made
<1>9. But(f, g, {"ev", "n", "wait"}) /\ g.ev = finishEv /\ g.n = 0 /\ g.wait = master
  BY <1>5, <1>8 DEF But, Fields
<1>10. /\ g = [y \in Fields |-> g[y]] /\ g.mod = c /\ g.tgt = None /\ g.addr = b
       /\ g.state = "I" /\ g.pending = 0 /\ g.err = FALSE /\ g.down = TRUE
  <2>1. g = [y \in Fields |-> g[y]]
    BY <1>9 DEF But
  <2>2. /\ g.mod = f.mod /\ g.tgt = f.tgt /\ g.addr = f.addr /\ g.state = f.state
        /\ g.pending = f.pending /\ g.err = f.err /\ g.down = f.down
    BY <1>9 DEF But, Fields
  <2>. QED BY <1>8, <2>1, <2>2
<1>11. Typed(f) /\ AccessOK(f) /\ f.ev \in Sleepers /\ f.n \in {0, 1}
  <2>1. f.err \in BOOLEAN /\ f.down \in BOOLEAN
    BY <1>8, Zenon
  <2>2. "I" \in States /\ f.ev \in Sleepers /\ f.ev \in AccessEvs
    BY <1>8 DEF States, Sleepers, AccessEvs
  <2>3. Typed(f)
    BY <1>2, <1>8, <2>1, <2>2 DEF Typed
  <2>. QED BY <1>8, <2>2, <2>3 DEF AccessOK
<1>12. Typed(g) /\ AccessOK(g) /\ g.ev \in Sleepers /\ g.n \in {0, 1}
  <2>1. g.err \in BOOLEAN /\ g.down \in BOOLEAN
    BY <1>10, Zenon
  <2>2. "I" \in States /\ g.ev \in Sleepers /\ g.ev \in AccessEvs
    BY <1>9 DEF States, Sleepers, AccessEvs
  <2>3. Typed(g)
    BY <1>2, <1>9, <1>10, <2>1, <2>2 DEF Typed
  <2>. QED BY <1>9, <1>10, <2>2, <2>3 DEF AccessOK
<1>13. /\ StackInv(stk', nextId + 1) /\ LockInv(stk', lock)
       /\ ListInv(stk', [acc EXCEPT ![c] = Append(@, <<nextId>>)])
  <2>1. CASE stk' = Put(stk, <<nextId>>, f)
    BY <1>2, <1>8, <1>11, <2>1, AccessBegins
  <2>2. CASE stk' = Put(stk, <<nextId>>, g)
    BY <1>2, <1>10, <1>12, <2>2, AccessBegins
  <2>. QED BY <1>1, <1>6, <2>1, <2>2
<1>14. nextId + 1 \in 1..MaxAccesses + 1
  BY <1>2
<1>. QED BY <1>1, <1>13, <1>14 DEF NmoesiInv

-----------------------------------------------------------------------------
(* The specification *)

LEMMA InitHolds == Init => NmoesiInv
<1>. SUFFICES ASSUME Init PROVE NmoesiInv
  OBVIOUS
<1>1. DOMAIN stk = {}
  BY DEF Init
<1>2. StackInv(stk, nextId)
  BY <1>1 DEF StackInv, Calls, Counts
<1>3. LockInv(stk, lock)
  <2>1. /\ DOMAIN lock = Mods
        /\ \A m \in Mods : /\ DOMAIN lock[m] = Ways(m)
                           /\ \A w \in Ways(m) : lock[m][w] = [held |-> FALSE, queue |-> <<>>]
    BY DEF Init
  <2>2. [held |-> FALSE, queue |-> <<>>] \in [held : BOOLEAN, queue : Seq(Paths)]
    OBVIOUS
  <2>3. LockShape(lock)
    BY <2>1, <2>2 DEF LockShape
  <2>4. \A m \in Mods : \A w \in Ways(m) :
          lock[m][w].held = FALSE /\ 1..Len(lock[m][w].queue) = {}
    BY <2>1
  <2>. QED BY <1>1, <2>3, <2>4 DEF LockInv
<1>4. ListInv(stk, acc)
  <2>1. DOMAIN acc = Mods /\ \A m \in Mods : acc[m] = <<>>
    BY DEF Init
  <2>2. <<>> \in Seq(Paths) /\ Len(<<>>) = 0 /\ 1..0 = {}
    OBVIOUS
  <2>3. ASSUME NEW m \in Mods
        PROVE  /\ acc[m] \in Seq(Paths) /\ 1..Len(acc[m]) = {}
    <3>1. acc[m] = <<>>
      BY <2>1
    <3>2. acc[m] \in Seq(Paths)
      BY <2>2, <3>1
    <3>3. Len(acc[m]) = 0
      BY <2>2, <3>1
    <3>. QED BY <2>2, <3>2, <3>3
  <2>. QED BY <1>1, <2>1, <2>3 DEF ListInv
<1>5. CacheInv(blk, dir)
  <2>1. /\ DOMAIN blk = Mods /\ DOMAIN dir = Mods
        /\ \A m \in Mods :
             /\ DOMAIN blk[m] = Ways(m) /\ DOMAIN dir[m] = Ways(m)
             /\ \A w \in Ways(m) : /\ blk[m][w] = [tag |-> None, state |-> "I", transient |-> None]
                                   /\ dir[m][w] = [owner |-> None, sharers |-> {}]
    BY DEF Init, EmptyEntry
  <2>2. /\ [tag |-> None, state |-> "I", transient |-> None] \in BlockType
        /\ [owner |-> None, sharers |-> {}] \in EntryType
    BY DEF BlockType, EntryType, States
  <2>3. MM \in Mods
    BY TreeAssumption
  <2>. QED BY <2>1, <2>2, <2>3 DEF CacheInv
<1>6. nextId \in 1..MaxAccesses + 1 /\ fresh \in [Blocks -> SUBSET Mods]
  BY TreeAssumption DEF Init
<1>. QED BY <1>2, <1>3, <1>4, <1>5, <1>6 DEF NmoesiInv

LEMMA HandlerKeeps ==
  ASSUME NmoesiInv, NEW k \in DOMAIN stk, Handler(k)
  PROVE  NmoesiInv'
<1>1. CASE \/ LoadLock(k) \/ LoadAction(k) \/ LoadMiss(k) \/ LoadUnlock(k) \/ LoadFinish(k)
           \/ StoreLock(k) \/ StoreAction(k) \/ StoreUnlock(k) \/ StoreFinish(k)
  BY <1>1, LoadLockKeeps, LoadActionKeeps, LoadMissKeeps, LoadUnlockKeeps, FinishKeeps,
     StoreLockKeeps, StoreActionKeeps, StoreUnlockKeeps
<1>2. CASE \/ FindAndLock(k) \/ FindAndLockAction(k) \/ FindAndLockFinish(k)
           \/ Evict(k) \/ EvictInvalid(k) \/ EvictAction(k) \/ EvictReceive(k)
           \/ EvictProcess(k) \/ EvictReplyReceive(k)
  BY <1>2, FindAndLockKeeps, FindAndLockActionKeeps, FindAndLockFinishKeeps, EvictKeeps,
     EvictInvalidKeeps, EvictActionKeeps, EvictReceiveKeeps, EvictProcessKeeps,
     EvictReplyReceiveKeeps
<1>3. CASE \/ Invalidate(k) \/ InvalidateFinish(k)
           \/ WriteRequestReceive(k) \/ WriteRequestAction(k) \/ WriteRequestUpdown(k)
           \/ WriteRequestUpdownFinish(k) \/ WriteRequestDownup(k) \/ WriteRequestFinish(k)
  BY <1>3, InvalidateKeeps, InvalidateFinishKeeps, WriteRequestReceiveKeeps,
     WriteRequestActionKeeps, WriteRequestUpdownKeeps, WriteRequestUpdownFinishKeeps,
     WriteRequestDownupKeeps, WriteRequestFinishKeeps
<1>4. CASE \/ ReadRequestReceive(k) \/ ReadRequestLock(k) \/ ReadRequestError(k)
           \/ ReadRequestUpdown(k) \/ ReadRequestUpdownMiss(k) \/ ReadRequestUpdownFinish(k)
           \/ ReadRequestDownup(k) \/ ReadRequestDownupWaitForReqs(k)
           \/ ReadRequestDownupFinish(k) \/ ReadRequestFinish(k)
  BY <1>4, ReadRequestReceiveKeeps, ReadRequestLockKeeps, ReadRequestErrorKeeps,
     ReadRequestUpdownKeeps, ReadRequestUpdownMissKeeps, ReadRequestUpdownFinishKeeps,
     ReadRequestDownupKeeps, ReadRequestDownupWaitForReqsKeeps, ReadRequestDownupFinishKeeps,
     ReadRequestFinishKeeps
<1>. QED BY <1>1, <1>2, <1>3, <1>4 DEF Handler

LEMMA NextKeeps == NmoesiInv /\ [Next]_vars => NmoesiInv'
<1>. SUFFICES ASSUME NmoesiInv, [Next]_vars PROVE NmoesiInv'
  OBVIOUS
<1>1. CASE Issue
  <2>1. PICK c \in Cores, b \in Blocks : Load(c, b) \/ Store(c, b)
    BY <1>1 DEF Issue
  <2>2. nextId <= MaxAccesses
    BY <1>1 DEF Issue
  <2>3. CASE Load(c, b)
    BY <2>2, <2>3, NewAccessKeeps DEF Load
  <2>4. CASE Store(c, b)
    BY <2>2, <2>4, NewAccessKeeps DEF Store
  <2>. QED BY <2>1, <2>3, <2>4
<1>2. CASE Event
  <2>1. PICK k \in DOMAIN stk : Handler(k)
    BY <1>2 DEF Event, StepOf
  <2>. QED BY <2>1, HandlerKeeps
<1>3. CASE UNCHANGED vars
  BY <1>3 DEF vars, NmoesiInv
<1>. QED BY <1>1, <1>2, <1>3 DEF Next, Done

\* The inductive invariant: each stack is an access or was called by a stack
\* that waits for it, each locked way has the stack that locked it, each
\* sleeping stack is queued, and each access is listed.
THEOREM NmoesiInductive == Spec => []NmoesiInv
  BY InitHolds, NextKeeps, PTL DEF Spec

-----------------------------------------------------------------------------
(* What follows *)

LEMMA TypeFollows == NmoesiInv => TypeOK
<1>. SUFFICES ASSUME NmoesiInv PROVE TypeOK
  OBVIOUS
<1>1. /\ StackInv(stk, nextId) /\ LockInv(stk, lock) /\ ListInv(stk, acc)
      /\ CacheInv(blk, dir)
  BY DEF NmoesiInv
<1>2. Cardinality(Mods) \in Nat /\ Cardinality(Mods) >= 1
  <2>1. {} \in SUBSET (Mods \ {MM})
    OBVIOUS
  <2>2. 1 + Cardinality({}) \in 1..Cardinality(Mods) /\ Cardinality({}) = 0
    BY <2>1, Outs, FS_EmptySet
  <2>3. Cardinality(Mods) \in Nat
    BY FS_CardinalityType, TreeAssumption
  <2>. QED BY <2>2, <2>3
<1>3. ASSUME NEW k \in DOMAIN stk
      PROVE  /\ k[1] \in 1..MaxAccesses
             /\ \A i \in 2..Len(k) : k[i] \in Labels
             /\ Len(k) > 1 => Parent(k) \in DOMAIN stk
             /\ stk[k].n \in 0..Cardinality(Mods) /\ stk[k].state \in States
  <2>. DEFINE c == Cardinality(Kids(stk, k))
  <2>1. /\ k \in Paths /\ Typed(stk[k])
        /\ Len(k) > 1 => Front(k) \in DOMAIN stk
        /\ Counted(stk[k], c) /\ c \in Nat
    BY <1>1, <1>3, KidsFinite DEF StackInv, Calls, Counts
  <2>2. k[1] \in 1..MaxAccesses /\ \A i \in 2..Len(k) : k[i] \in Labels
    BY <2>1 DEF Paths
  <2>. HIDE DEF c
  <2>3. stk[k].n \in Nat /\ stk[k].state \in States
    BY <2>1 DEF Typed
  <2>4. stk[k].n \in 0..Cardinality(Mods)
    BY <1>2, <2>1, <2>3 DEF Counted
  <2>. QED BY <2>1, <2>2, <2>3, <2>4 DEF Parent
<1>4. ASSUME NEW m \in Mods, NEW w \in Ways(m)
      PROVE  /\ blk[m][w] \in BlockType
             /\ dir[m][w] \in [owner : Mods \cup {None}, sharers : SUBSET Mods]
             /\ \A i \in DOMAIN lock[m][w].queue : lock[m][w].queue[i] \in DOMAIN stk
  <2>1. blk[m][w] \in BlockType /\ dir[m][w] \in EntryType
    BY <1>1, CacheAt
  <2>2. dir[m][w] \in [owner : Mods \cup {None}, sharers : SUBSET Mods]
    BY <2>1 DEF EntryType
  <2>3. /\ lock[m][w].queue \in Seq(Paths)
        /\ \A i \in 1..Len(lock[m][w].queue) : WaitsFor(stk, lock[m][w].queue[i], m, w)
    BY <1>1 DEF LockInv, LockShape
  <2>. QED BY <2>1, <2>2, <2>3 DEF WaitsFor, Asleep
<1>5. ASSUME NEW m \in Mods, NEW i \in DOMAIN acc[m]
      PROVE  acc[m][i] \in DOMAIN stk
  <2>1. acc[m] \in Seq(Paths) /\ \A j \in 1..Len(acc[m]) : Listed(stk, acc[m][j], m)
    BY <1>1 DEF ListInv
  <2>. QED BY <2>1 DEF Listed
<1>6. nextId \in 1..MaxAccesses + 1 /\ fresh \in [Blocks -> SUBSET Mods]
  BY DEF NmoesiInv
<1>. QED BY <1>3, <1>4, <1>5, <1>6 DEF TypeOK, BlockType

\* For every tree of modules, the stacks, blocks, directory entries, queues and
\* access lists of the protocol have their types: a stack returns to one that
\* exists, and no queue or list names a stack that has been freed
\* (mod_stack_return, dir_entry_lock, mod_access_start).
THEOREM NmoesiTypeCorrect == Spec => []TypeOK
<1>1. NmoesiInv => TypeOK
  BY TypeFollows
<1>. QED BY <1>1, NmoesiInductive, PTL

\* For every tree of modules, no handler forgets to unlock a way, to wake its
\* queue or to unlink an access: when no stack is left, every way is unlocked
\* with nobody queued and every access list is empty.
THEOREM NmoesiCleanWhenIdle == Spec => []CleanWhenIdle
<1>1. NmoesiInv => CleanWhenIdle
  <2>. SUFFICES ASSUME NmoesiInv, stk = <<>>, NEW m \in Mods
                PROVE  /\ acc[m] = <<>>
                       /\ \A w \in Ways(m) : ~lock[m][w].held /\ lock[m][w].queue = <<>>
    BY DEF CleanWhenIdle
  <2>1. DOMAIN stk = {}
    OBVIOUS
  <2>2. acc[m] = <<>>
    <3>1. acc[m] \in Seq(Paths) /\ \A j \in 1..Len(acc[m]) : Listed(stk, acc[m][j], m)
      BY DEF NmoesiInv, ListInv
    <3>2. \A j \in 1..Len(acc[m]) : FALSE
      BY <2>1, <3>1 DEF Listed
    <3>. QED BY <3>1, <3>2
  <2>3. ASSUME NEW w \in Ways(m)
        PROVE  ~lock[m][w].held /\ lock[m][w].queue = <<>>
    <3>1. /\ lock[m][w].queue \in Seq(Paths)
          /\ \A i \in 1..Len(lock[m][w].queue) : WaitsFor(stk, lock[m][w].queue[i], m, w)
          /\ lock[m][w].held <=> \E x \in DOMAIN stk : HoldsWay(stk, x, m, w)
      BY DEF NmoesiInv, LockInv, LockShape
    <3>2. \A i \in 1..Len(lock[m][w].queue) : FALSE
      BY <2>1, <3>1 DEF WaitsFor, Asleep
    <3>3. lock[m][w].queue = <<>>
      BY <3>1, <3>2
    <3>. QED BY <2>1, <3>1, <3>3
  <2>. QED BY <2>2, <2>3
<1>. QED BY <1>1, NmoesiInductive, PTL

\* A way is locked exactly while one stack is at work on it, and never two.
LockedByOne ==
  \A m \in Mods : \A w \in Ways(m) :
    /\ lock[m][w].held <=> \E x \in DOMAIN stk : HoldsWay(stk, x, m, w)
    /\ \A x, y \in DOMAIN stk :
         HoldsWay(stk, x, m, w) /\ HoldsWay(stk, y, m, w) => x = y

\* For every tree of modules, the directory locks of dir_entry_lock exclude
\* each other: of all events in which a handler relies on the way that it or
\* its find_and_lock has locked, at most one is under way for each way, and
\* a locked way always has a stack that is going to unlock it.
THEOREM NmoesiLocksExclude == Spec => []LockedByOne
<1>1. NmoesiInv => LockedByOne
  BY DEF NmoesiInv, LockInv, LockedByOne
<1>. QED BY <1>1, NmoesiInductive, PTL

\* A find_and_lock that sleeps is in the queue of a way of its module.
SleepersQueued ==
  \A k \in DOMAIN stk :
    stk[k].ev = "FIND_AND_LOCK" /\ stk[k].n = 0 =>
      \E w \in Ways(stk[k].mod) : k \in ToSet(lock[stk[k].mod][w].queue)

\* For every tree of modules, a stack that dir_entry_lock has put to sleep is
\* in the queue of a way, where dir_entry_unlock finds it: the first half of
\* NoStrandedWaiter.
THEOREM NmoesiSleepersQueued == Spec => []SleepersQueued
<1>1. NmoesiInv => SleepersQueued
  <2>. SUFFICES ASSUME NmoesiInv, NEW k \in DOMAIN stk, stk[k].ev = "FIND_AND_LOCK", stk[k].n = 0
                PROVE  \E w \in Ways(stk[k].mod) : k \in ToSet(lock[stk[k].mod][w].queue)
    BY DEF SleepersQueued
  <2>1. Asleep(stk, k) /\ LockInv(stk, lock)
    BY DEF Asleep, NmoesiInv
  <2>2. PICK m \in Mods : \E w \in Ways(m) :
               \E i \in 1..Len(lock[m][w].queue) : lock[m][w].queue[i] = k
    BY <2>1 DEF LockInv
  <2>3. PICK w \in Ways(m) : \E i \in 1..Len(lock[m][w].queue) : lock[m][w].queue[i] = k
    BY <2>2
  <2>4. PICK i \in 1..Len(lock[m][w].queue) : lock[m][w].queue[i] = k
    BY <2>3
  <2>5. WaitsFor(stk, lock[m][w].queue[i], m, w) /\ lock[m][w].queue \in Seq(Paths)
    BY <2>1, <2>4 DEF LockInv, LockShape
  <2>6. stk[k].mod = m
    BY <2>4, <2>5 DEF WaitsFor
  <2>7. k \in ToSet(lock[m][w].queue)
    BY <2>4, <2>5 DEF ToSet
  <2>. QED BY <2>6, <2>7
<1>. QED BY <1>1, NmoesiInductive, PTL
=============================================================================
