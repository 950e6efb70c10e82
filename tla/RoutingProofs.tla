---------------------------- MODULE RoutingProofs ----------------------------
(***************************************************************************)
(* What the routing code computes, for any number of nodes, any links and  *)
(* any configured routes.                                                  *)
(***************************************************************************)
EXTENDS Routing, WellFoundedInduction, FiniteSetTheorems, SequenceTheorems, TLAPS

(* Induction and recursion over numbers *)

LEMMA Least ==
    ASSUME NEW T \in SUBSET Nat, T # {}
    PROVE  \E x \in T : \A y \in T : x <= y
<1>1. \E x \in T : \A y \in T : ~ (y < x)
  <2>1. PICK x \in T : \A y \in T : ~ (<<y, x>> \in OpToRel(<, Nat))
    BY NatLessThanWellFounded, WFMin
  <2>. QED
    BY <2>1 DEF OpToRel
<1>2. PICK x \in T : \A y \in T : ~ (y < x)
  BY <1>1
<1>3. x \in Nat /\ \A y \in T : y \in Nat
  BY <1>2
<1>. QED
  BY <1>2, <1>3

\* A set of numbers up to n that has 0 and, with each, the next one.
LEMMA Upwards ==
    ASSUME NEW n \in Nat, NEW T, 0 \in T, \A h \in 1..n : h - 1 \in T => h \in T
    PROVE  0..n \subseteq T
<1>. DEFINE B == (0..n) \ T
<1>1. SUFFICES ASSUME B # {}  PROVE FALSE
  OBVIOUS
<1>2. B \in SUBSET Nat
  OBVIOUS
<1>3. PICK x \in B : \A y \in B : x <= y
  BY <1>1, <1>2, Least
<1>4. x \in 1..n
  BY <1>3
<1>5. x - 1 \in 0..n /\ x - 1 \notin B
  BY <1>3, <1>4
<1>. QED
  BY <1>3, <1>4, <1>5

\* g[h] is step applied h times to v.
Iterates(V, v, n, step, g) ==
    g \in [0..n -> V] /\ g[0] = v /\ \A h \in 1..n : g[h] = step[g[h-1]]

LEMMA IterationExists ==
    ASSUME NEW V, NEW v \in V, NEW n \in Nat, NEW step \in [V -> V]
    PROVE  \E g : Iterates(V, v, n, step, g)
<1>. DEFINE Upto(m, g) == /\ g \in [0..m -> V] /\ g[0] = v
                          /\ \A h \in 1..m : g[h] = step[g[h-1]]
            T == {m \in 0..n : \E g : Upto(m, g)}
<1>1. 0 \in T
  <2>. DEFINE f == [h \in 0..0 |-> v]
  <2>1. Upto(0, f)
    OBVIOUS
  <2>. HIDE DEF f
  <2>2. \E g : Upto(0, g)
    BY <2>1
  <2>. QED
    BY <2>2
<1>2. ASSUME NEW m \in 1..n, m - 1 \in T  PROVE m \in T
  <2>1. PICK f : Upto(m - 1, f)
    BY <1>2
  <2>. DEFINE g == [h \in 0..m |-> IF h = m THEN step[f[m-1]] ELSE f[h]]
  <2>2. f[m-1] \in V /\ step[f[m-1]] \in V
    BY <2>1
  <2>3. g \in [0..m -> V] /\ g[0] = v
    BY <2>1, <2>2
  <2>4. ASSUME NEW h \in 1..m  PROVE g[h] = step[g[h-1]]
    <3>0. h - 1 \in 0..(m - 1) /\ h - 1 # m /\ h - 1 \in 0..m /\ h \in 0..m
      OBVIOUS
    <3>1. g[h-1] = f[h-1]
      BY <3>0
    <3>2. CASE h = m
      BY <3>0, <3>1, <3>2
    <3>3. CASE h # m
      <4>1. h \in 1..(m - 1) /\ g[h] = f[h]
        BY <3>0, <3>3
      <4>. QED
        BY <2>1, <3>1, <4>1
    <3>. QED
      BY <3>2, <3>3
  <2>5. Upto(m, g)
    BY <2>3, <2>4
  <2>. HIDE DEF g
  <2>. QED
    BY <2>5
<1>. HIDE DEF T
<1>3. n \in T
  BY <1>1, <1>2, Upwards
<1>4. PICK g : Upto(n, g)
  BY <1>3 DEF T
<1>. QED
  BY <1>4 DEF Iterates

-----------------------------------------------------------------------------
(* Cycles: some output buffers that wait for each other *)

Closed(t, ls, S) ==
    /\ S \in SUBSET ls /\ S # {}
    /\ \A b \in S : \E c \in S : WaitsFor(t, b, c)

LEMMA PeelSteps ==
    ASSUME NEW t, NEW ls, IsFiniteSet(ls)
    PROVE  /\ Cardinality(ls) \in Nat
           /\ Peel(t, ls) \in [0..Cardinality(ls) -> SUBSET ls]
           /\ Peel(t, ls)[0] = ls
           /\ \A h \in 1..Cardinality(ls) :
                 Peel(t, ls)[h] = {b \in Peel(t, ls)[h-1] :
                                      \E c \in Peel(t, ls)[h-1] : WaitsFor(t, b, c)}
<1>. DEFINE N == Cardinality(ls)
            Rest(S) == {b \in S : \E c \in S : WaitsFor(t, b, c)}
            step == [S \in SUBSET ls |-> Rest(S)]
            Eq(f) == f = [h \in 0..N |-> IF h = 0 THEN ls
                                         ELSE {b \in f[h-1] : \E c \in f[h-1] : WaitsFor(t, b, c)}]
<1>1. N \in Nat
  BY FS_CardinalityType
<1>2. step \in [SUBSET ls -> SUBSET ls]
  OBVIOUS
<1>. HIDE DEF N
<1>3. PICK g \in [0..N -> SUBSET ls] : g[0] = ls /\ \A h \in 1..N : g[h] = step[g[h-1]]
  <2>. DEFINE V == SUBSET ls
  <2>1. ls \in V /\ step \in [V -> V]
    BY <1>2
  <2>. HIDE DEF step, V
  <2>2. PICK g : Iterates(V, ls, N, step, g)
    BY <1>1, <2>1, IterationExists
  <2>. QED
    BY <2>2 DEF V, Iterates
<1>4. ASSUME NEW h \in 1..N  PROVE h - 1 \in 0..N /\ g[h] = Rest(g[h-1])
  <2>1. h - 1 \in 0..N
    BY <1>1
  <2>. QED
    BY <1>3, <2>1
<1>5. Eq(g)
  <2>. HIDE DEF step
  <2>. QED
    BY <1>1, <1>3, <1>4
<1>6. Eq(Peel(t, ls))
  BY <1>5 DEF Peel, N
<1>. DEFINE peel == Peel(t, ls)
<1>. HIDE DEF peel, step
<1>7. /\ peel[0] = ls
      /\ \A h \in 1..N : peel[h] = Rest(peel[h-1])
  <2>1. 0 \in 0..N /\ \A h \in 1..N : h \in 0..N /\ h # 0
    BY <1>1
  <2>. QED
    BY <1>6, <2>1 DEF peel
<1>8. 0..N \subseteq {h \in 0..N : peel[h] \in SUBSET ls}
  <2>. DEFINE T == {h \in 0..N : peel[h] \in SUBSET ls}
  <2>1. 0 \in T
    BY <1>1, <1>7
  <2>2. ASSUME NEW h \in 1..N, h - 1 \in T  PROVE h \in T
    BY <1>1, <1>7, <2>2
  <2>. HIDE DEF T
  <2>3. 0..N \subseteq T
    BY <1>1, <2>1, <2>2, Upwards
  <2>. QED
    BY <2>3 DEF T
<1>9. peel \in [0..N -> SUBSET ls]
  BY <1>6, <1>8 DEF peel
<1>. QED
  BY <1>1, <1>7, <1>9 DEF peel, N

\* The reference for cycles says what it is meant to say.
LEMMA CyclicClosed ==
    ASSUME NEW t, NEW ls, IsFiniteSet(ls)
    PROVE  Cyclic(t, ls) <=> \E S : Closed(t, ls, S)
<1>. DEFINE peel == Peel(t, ls)
            N == Cardinality(ls)
            Rest(S) == {b \in S : \E c \in S : WaitsFor(t, b, c)}
<1>1. /\ N \in Nat /\ peel \in [0..N -> SUBSET ls] /\ peel[0] = ls
      /\ \A h \in 1..N : peel[h] = Rest(peel[h-1])
  BY PeelSteps
<1>2. Cyclic(t, ls) <=> peel[N] # {}
  BY DEF Cyclic
<1>. HIDE DEF peel
<1>3. ASSUME NEW S, Closed(t, ls, S)  PROVE peel[N] # {}
  <2>. DEFINE T == {h \in 0..N : S \subseteq peel[h]}
  <2>1. 0 \in T
    BY <1>1, <1>3 DEF Closed
  <2>2. ASSUME NEW h \in 1..N, h - 1 \in T  PROVE h \in T
    <3>1. S \subseteq peel[h-1]
      BY <2>2
    <3>2. S \subseteq Rest(peel[h-1])
      BY <1>3, <3>1 DEF Closed
    <3>. QED
      BY <1>1, <3>2
  <2>. HIDE DEF T, N
  <2>3. N \in T
    BY <1>1, <2>1, <2>2, Upwards
  <2>. QED
    BY <1>3, <2>3 DEF T, Closed
<1>4. ASSUME peel[N] # {}  PROVE \E S : Closed(t, ls, S)
  <2>1. CASE \E h \in 1..N : peel[h] = peel[h-1]
    <3>1. PICK h \in 1..N : peel[h] = peel[h-1]
      BY <2>1
    <3>2. peel[h-1] = Rest(peel[h-1]) /\ peel[h-1] \in SUBSET ls
      BY <1>1, <3>1
    <3>3. peel[h-1] # {}
      <4>. DEFINE T == {g \in 0..N : peel[g] = {} => peel[N] = {}}
      <4>1. CASE peel[h] = {}
        <5>. DEFINE E == {g \in 0..N : g >= h => peel[g] = {}}
        <5>1. 0 \in E
          BY <1>1
        <5>2. ASSUME NEW g \in 1..N, g - 1 \in E  PROVE g \in E
          BY <1>1, <4>1, <5>2
        <5>. HIDE DEF E, N
        <5>3. N \in E
          BY <1>1, <5>1, <5>2, Upwards
        <5>. QED
          BY <1>1, <1>4, <5>3 DEF E
      <4>. QED
        BY <3>1, <4>1
    <3>. QED
      BY <3>2, <3>3 DEF Closed
  <2>2. CASE \A h \in 1..N : peel[h] # peel[h-1]
    <3>. DEFINE T == {h \in 0..N : Cardinality(peel[h]) <= N - h}
    <3>1. 0 \in T
      BY <1>1
    <3>2. ASSUME NEW h \in 1..N, h - 1 \in T  PROVE h \in T
      <4>1. peel[h] \in SUBSET peel[h-1] /\ peel[h-1] \in SUBSET ls
        BY <1>1
      <4>2. IsFiniteSet(peel[h-1])
        BY <4>1, FS_Subset
      <4>3. Cardinality(peel[h]) <= Cardinality(peel[h-1])
            /\ Cardinality(peel[h]) # Cardinality(peel[h-1])
            /\ IsFiniteSet(peel[h])
        BY <2>2, <4>1, <4>2, FS_Subset
      <4>4. Cardinality(peel[h]) \in Nat /\ Cardinality(peel[h-1]) \in Nat
        BY <4>2, <4>3, FS_CardinalityType
      <4>5. Cardinality(peel[h-1]) <= N - (h - 1) /\ h \in 0..N
        BY <3>2
      <4>. QED
        BY <1>1, <4>3, <4>4, <4>5
    <3>. HIDE DEF T, N
    <3>3. N \in T
      BY <1>1, <3>1, <3>2, Upwards
    <3>4. peel[N] \in SUBSET ls
      BY <1>1
    <3>5. IsFiniteSet(peel[N])
      BY <3>4, FS_Subset
    <3>6. Cardinality(peel[N]) \in Nat /\ Cardinality(peel[N]) <= N - N
      BY <3>3, <3>5, FS_CardinalityType DEF T
    <3>7. Cardinality(peel[N]) = 0
      BY <1>1, <3>6
    <3>. QED
      BY <1>4, <3>5, <3>7, FS_EmptySet
  <2>. QED
    BY <2>1, <2>2
<1>. QED
  BY <1>2, <1>3, <1>4

-----------------------------------------------------------------------------
(* The depth-first search *)

Colors == {"white", "gray", "black"}
Pending(ls) == Seq([buffer : ls, j : Nat \ {0}])

\* A route leaves over a link of its own node, to the other end of it.
OnLinks(t, ls) ==
    \A p \in NodeSet \X NodeSet :
        t[p].out # Nil => /\ t[p].out \in ls
                          /\ t[p].out[1] = p[1] /\ t[p].out[2] = t[p].next

Links == NodeSet \X NodeSet

\* NeedsNext, as a function of the table.
Needs(t, b, x) == IF t[<<b[1], Nodes[x]>>].out = b THEN Successor(t, b, Nodes[x]) ELSE Nil

LEMMA NodesExact ==
    /\ Dim \in Nat \ {0} /\ Nil \notin NodeSet /\ Nil \notin NodeSet \X NodeSet
    /\ \A x \in 1..Dim : Nodes[x] \in NodeSet
    /\ \A n \in NodeSet : \E x \in 1..Dim : Nodes[x] = n
  BY RoutingAssumption DEF NodeSet, Dim, ToSet

LEMMA NeedsExact ==
    ASSUME NEW t, NEW ls \in SUBSET Links, OnLinks(t, ls)
    PROVE  /\ \A b \in ls, x \in 1..Dim : Needs(t, b, x) \in ls \cup {Nil}
           /\ \A b, c \in ls :
                 WaitsFor(t, b, c) <=> c # b /\ \E x \in 1..Dim : Needs(t, b, x) = c
           /\ \A b \in ls, x \in 1..Dim : Needs(t, b, x) = b => b[1] = b[2]
           /\ Nil \notin ls
<1>0. Nil \notin ls
  BY NodesExact DEF Links
<1>1. ASSUME NEW b \in ls, NEW n \in NodeSet, t[<<b[1], n>>].out = b
      PROVE  /\ <<b[1], n>> \in NodeSet \X NodeSet
             /\ t[<<b[1], n>>].next = b[2] /\ b[2] \in NodeSet
             /\ <<b[2], n>> \in NodeSet \X NodeSet
             /\ Successor(t, b, n) = t[<<b[2], n>>].out
             /\ Successor(t, b, n) \in ls \cup {Nil}
             /\ Successor(t, b, n) = b => b[1] = b[2]
  <2>1. b \in NodeSet \X NodeSet
    BY DEF Links
  <2>2. b[1] \in NodeSet /\ b[2] \in NodeSet /\ b # Nil
    BY <1>0, <2>1
  <2>3. <<b[1], n>> \in NodeSet \X NodeSet /\ <<b[2], n>> \in NodeSet \X NodeSet
    BY <2>2
  <2>4. t[<<b[1], n>>].next = b[2]
    BY <1>1, <2>2, <2>3 DEF OnLinks
  <2>5. Successor(t, b, n) = t[<<b[2], n>>].out
    BY <2>4 DEF Successor
  <2>6. t[<<b[2], n>>].out # Nil => t[<<b[2], n>>].out \in ls /\ t[<<b[2], n>>].out[1] = b[2]
    BY <2>3 DEF OnLinks
  <2>. QED
    BY <2>1, <2>2, <2>3, <2>4, <2>5, <2>6
<1>2. \A b \in ls, x \in 1..Dim : Needs(t, b, x) \in ls \cup {Nil}
  BY <1>1, NodesExact DEF Needs
<1>3. ASSUME NEW b \in ls, NEW c \in ls
      PROVE  WaitsFor(t, b, c) <=> c # b /\ \E x \in 1..Dim : Needs(t, b, x) = c
  <2>1. ASSUME WaitsFor(t, b, c)  PROVE c # b /\ \E x \in 1..Dim : Needs(t, b, x) = c
    <3>1. PICK n \in NodeSet : t[<<b[1], n>>].out = b /\ Successor(t, b, n) = c
      BY <2>1 DEF WaitsFor
    <3>2. PICK x \in 1..Dim : Nodes[x] = n
      BY NodesExact
    <3>. QED
      BY <2>1, <3>1, <3>2 DEF Needs, WaitsFor
  <2>2. ASSUME c # b, NEW x \in 1..Dim, Needs(t, b, x) = c  PROVE WaitsFor(t, b, c)
    <3>1. Nodes[x] \in NodeSet /\ c # Nil
      BY <1>0, NodesExact
    <3>. QED
      BY <2>2, <3>1 DEF Needs, WaitsFor
  <2>. QED
    BY <2>1, <2>2
<1>4. ASSUME NEW b \in ls, NEW x \in 1..Dim, Needs(t, b, x) = b  PROVE b[1] = b[2]
  <2>1. Nodes[x] \in NodeSet /\ b # Nil
    BY <1>0, NodesExact
  <2>. QED
    BY <1>1, <1>4, <2>1 DEF Needs
<1>. QED
  BY <1>0, <1>2, <1>3, <1>4

SearchType(ls, co, pa, ca) ==
    co \in [ls -> Colors] /\ pa \in [ls -> ls] /\ ca \in Pending(ls)

\* The gray buffers are those of the pending calls, each once.
Grays(ls, co, ca) ==
    /\ \A b \in ls : co[b] = "gray" <=> \E i \in 1..Len(ca) : ca[i].buffer = b
    /\ \A i, h \in 1..Len(ca) : ca[i].buffer = ca[h].buffer => i = h

\* A pending call comes from the one before it, whose buffer is the parent.
Parents(t, ls, co, pa, ca) ==
    /\ \A i \in 2..Len(ca) : /\ pa[ca[i].buffer] = ca[i-1].buffer
                             /\ WaitsFor(t, ca[i-1].buffer, ca[i].buffer)
    /\ Len(ca) > 0 => pa[ca[1].buffer] = ca[1].buffer
    /\ \A b \in ls : co[b] = "white" => pa[b] = b

\* A black buffer waits for black ones only, and not in a circle.
Blacks(t, ls, co) ==
    /\ \A b, c \in ls : co[b] = "black" /\ WaitsFor(t, b, c) => co[c] = "black"
    /\ \A S \in SUBSET {b \in ls : co[b] = "black"} :
          S # {} => \E b \in S : \A c \in S : ~ WaitsFor(t, b, c)

\* The destinations a pending call has been through lead to black buffers, to
\* that of the next call, or back to its own.
Looked(t, co, ca) ==
    \A i \in 1..Len(ca), x \in 1..Dim :
        x < ca[i].j => \/ Needs(t, ca[i].buffer, x) = Nil
                       \/ co[Needs(t, ca[i].buffer, x)] = "black"
                       \/ Needs(t, ca[i].buffer, x) = ca[i].buffer
                       \/ i < Len(ca) /\ Needs(t, ca[i].buffer, x) = ca[i+1].buffer

SearchInv(t, ls, co, pa, ca) ==
    /\ Grays(ls, co, ca) /\ Parents(t, ls, co, pa, ca)
    /\ Blacks(t, ls, co) /\ Looked(t, co, ca)

LEMMA SearchStarts ==
    ASSUME NEW t, NEW ls,
           NEW co, co = [b \in ls |-> "white"], NEW pa, pa = [b \in ls |-> b]
    PROVE  SearchType(ls, co, pa, <<>>) /\ SearchInv(t, ls, co, pa, <<>>)
  BY DEF SearchType, SearchInv, Colors, Pending, Grays, Parents, Blacks, Looked

LEMMA RootStep ==
    ASSUME NEW t, NEW ls, NEW co, NEW pa, NEW b \in ls, co[b] = "white",
           SearchType(ls, co, pa, <<>>), SearchInv(t, ls, co, pa, <<>>)
    PROVE  /\ SearchType(ls, [co EXCEPT ![b] = "gray"], pa, <<Call(b)>>)
           /\ SearchInv(t, ls, [co EXCEPT ![b] = "gray"], pa, <<Call(b)>>)
<1>. DEFINE ca == <<Call(b)>>
            co2 == [co EXCEPT ![b] = "gray"]
<1>1. co2 \in [ls -> Colors] /\ co2[b] = "gray" /\ \A c \in ls : c # b => co2[c] = co[c]
  BY DEF SearchType, Colors
<1>2. /\ ca \in Pending(ls) /\ Len(ca) = 1 /\ ca[1].buffer = b /\ ca[1].j = 1
      /\ pa \in [ls -> ls]
  BY DEF Call, Pending, SearchType
<1>. HIDE DEF ca, co2
<1>3. Grays(ls, co2, ca)
  <2>1. \A c \in ls : co[c] # "gray"
    BY DEF SearchInv, Grays
  <2>. QED
    BY <1>1, <1>2, <2>1 DEF Grays
<1>4. Parents(t, ls, co2, pa, ca)
  BY <1>1, <1>2 DEF SearchInv, Parents
<1>5. Blacks(t, ls, co2)
  <2>1. {c \in ls : co2[c] = "black"} = {c \in ls : co[c] = "black"}
    BY <1>1
  <2>2. \A c \in ls : co2[c] = "black" <=> co[c] = "black"
    BY <1>1
  <2>. QED
    BY <2>1, <2>2 DEF SearchInv, Blacks
<1>6. Looked(t, co2, ca)
  BY <1>2 DEF Looked
<1>. QED
  BY <1>1, <1>2, <1>3, <1>4, <1>5, <1>6 DEF SearchType, SearchInv, ca, co2

LEMMA PendingType ==
    ASSUME NEW ls, NEW ca \in Pending(ls)
    PROVE  /\ Len(ca) \in Nat /\ DOMAIN ca = 1..Len(ca) /\ (ca # <<>> => Len(ca) > 0)
           /\ \A i \in 1..Len(ca) : /\ ca[i] \in [buffer : ls, j : Nat \ {0}]
                                    /\ ca[i].buffer \in ls /\ ca[i].j \in Nat \ {0}
<1>. DEFINE R == [buffer : ls, j : Nat \ {0}]
<1>1. \A r \in R : r.buffer \in ls /\ r.j \in Nat \ {0}
  OBVIOUS
<1>2. ca \in Seq(R)
  BY DEF Pending
<1>. HIDE DEF R
<1>3. /\ Len(ca) \in Nat /\ DOMAIN ca = 1..Len(ca) /\ (ca # <<>> => Len(ca) > 0)
      /\ \A i \in 1..Len(ca) : ca[i] \in R
  BY <1>2
<1>4. \A i \in 1..Len(ca) : ca[i].buffer \in ls /\ ca[i].j \in Nat \ {0}
  BY <1>1, <1>3
<1>. QED
  BY <1>3, <1>4 DEF R

\* The top call goes on to its next destination.
Bump(ca) == [ca EXCEPT ![Len(ca)].j = @ + 1]

LEMMA BumpExact ==
    ASSUME NEW ls, NEW ca \in Pending(ls), ca # <<>>
    PROVE  /\ Len(ca) \in Nat \ {0} /\ Bump(ca) \in Pending(ls) /\ Len(Bump(ca)) = Len(ca)
           /\ \A i \in 1..Len(ca) :
                 /\ Bump(ca)[i].buffer = ca[i].buffer /\ ca[i].buffer \in ls
                 /\ Bump(ca)[i].j = IF i = Len(ca) THEN ca[i].j + 1 ELSE ca[i].j
<1>. DEFINE n == Len(ca)
<1>1. n \in Nat \ {0} /\ DOMAIN ca = 1..n /\ \A i \in 1..n : ca[i] \in [buffer : ls, j : Nat \ {0}]
  BY PendingType
<1>2. [ca[n] EXCEPT !.j = @ + 1] \in [buffer : ls, j : Nat \ {0}]
  BY <1>1
<1>3. Bump(ca) = [ca EXCEPT ![n] = [ca[n] EXCEPT !.j = @ + 1]]
  BY <1>1 DEF Bump
<1>4. Bump(ca) \in Pending(ls) /\ Len(Bump(ca)) = n
  BY <1>1, <1>2, <1>3 DEF Pending
<1>5. ASSUME NEW i \in 1..n
      PROVE  /\ Bump(ca)[i].buffer = ca[i].buffer /\ ca[i].buffer \in ls
             /\ Bump(ca)[i].j = IF i = n THEN ca[i].j + 1 ELSE ca[i].j
  <2>1. CASE i = n
    BY <1>1, <1>3, <2>1
  <2>2. CASE i # n
    BY <1>1, <1>3, <2>2
  <2>. QED
    BY <2>1, <2>2
<1>. QED
  BY <1>1, <1>4, <1>5

\* A destination that needs no buffer, a black one or the same again.
LEMMA PassStep ==
    ASSUME NEW t, NEW ls \in SUBSET Links, NEW co, NEW pa, NEW ca, ca # <<>>,
           SearchType(ls, co, pa, ca), SearchInv(t, ls, co, pa, ca),
           NEW c, c = Needs(t, ca[Len(ca)].buffer, ca[Len(ca)].j),
           c = Nil \/ co[c] = "black" \/ c = ca[Len(ca)].buffer
    PROVE  SearchType(ls, co, pa, Bump(ca)) /\ SearchInv(t, ls, co, pa, Bump(ca))
<1>. DEFINE n == Len(ca)
            cb == Bump(ca)
<1>1. /\ n \in Nat \ {0} /\ cb \in Pending(ls) /\ Len(cb) = n
      /\ \A i \in 1..n : cb[i].buffer = ca[i].buffer /\ ca[i].buffer \in ls
                         /\ cb[i].j = IF i = n THEN ca[i].j + 1 ELSE ca[i].j
      /\ \A i \in 1..n : ca[i].j \in Nat
  <2>1. ca \in Pending(ls)
    BY DEF SearchType
  <2>2. \A i \in 1..n : ca[i].j \in Nat
    BY <2>1, PendingType
  <2>. QED
    BY <2>1, <2>2, BumpExact
<1>. HIDE DEF cb
<1>2. Grays(ls, co, cb)
  BY <1>1 DEF SearchInv, Grays
<1>3. Parents(t, ls, co, pa, cb)
  <2>1. \A i \in 2..n : i \in 1..n /\ i - 1 \in 1..n
    BY <1>1
  <2>2. 1 \in 1..n
    BY <1>1
  <2>. QED
    BY <1>1, <2>1, <2>2 DEF SearchInv, Parents
<1>4. Looked(t, co, cb)
  <2>1. SUFFICES ASSUME NEW i \in 1..n, NEW x \in 1..Dim, x < cb[i].j
                 PROVE  \/ Needs(t, cb[i].buffer, x) = Nil
                        \/ co[Needs(t, cb[i].buffer, x)] = "black"
                        \/ Needs(t, cb[i].buffer, x) = cb[i].buffer
                        \/ i < Len(cb) /\ Needs(t, cb[i].buffer, x) = cb[i+1].buffer
    BY <1>1 DEF Looked
  <2>2. CASE x < ca[i].j
    <3>1. i < n => i + 1 \in 1..n
      BY <1>1
    <3>2. \/ Needs(t, ca[i].buffer, x) = Nil
          \/ co[Needs(t, ca[i].buffer, x)] = "black"
          \/ Needs(t, ca[i].buffer, x) = ca[i].buffer
          \/ i < n /\ Needs(t, ca[i].buffer, x) = ca[i+1].buffer
      BY <2>2 DEF SearchInv, Looked
    <3>. QED
      BY <1>1, <3>1, <3>2
  <2>3. CASE ~ (x < ca[i].j)
    <3>1. i = n /\ x = ca[n].j
      BY <1>1, <2>1, <2>3, NodesExact
    <3>. QED
      BY <1>1, <3>1
  <2>. QED
    BY <2>2, <2>3
<1>. QED
  BY <1>1, <1>2, <1>3, <1>4 DEF SearchType, SearchInv, cb

\* A destination that needs a white buffer, which is visited.
LEMMA VisitStep ==
    ASSUME NEW t, NEW ls \in SUBSET Links, NEW co, NEW pa, NEW ca, ca # <<>>, OnLinks(t, ls),
           SearchType(ls, co, pa, ca), SearchInv(t, ls, co, pa, ca),
           ca[Len(ca)].j <= Dim,
           NEW c, c = Needs(t, ca[Len(ca)].buffer, ca[Len(ca)].j),
           c \in ls, co[c] = "white",
           NEW co2, co2 = [co EXCEPT ![c] = "gray"],
           NEW pa2, pa2 = [pa EXCEPT ![c] = ca[Len(ca)].buffer],
           NEW cc, cc = Append(Bump(ca), Call(c))
    PROVE  SearchType(ls, co2, pa2, cc) /\ SearchInv(t, ls, co2, pa2, cc)
<1>. DEFINE n == Len(ca)
            b == ca[n].buffer
<1>1. /\ n \in Nat \ {0} /\ Bump(ca) \in Pending(ls) /\ Len(Bump(ca)) = n
      /\ \A i \in 1..n : /\ Bump(ca)[i].buffer = ca[i].buffer /\ ca[i].buffer \in ls
                         /\ Bump(ca)[i].j = IF i = n THEN ca[i].j + 1 ELSE ca[i].j
      /\ \A i \in 1..n : ca[i].j \in Nat \ {0}
  <2>1. ca \in Pending(ls)
    BY DEF SearchType
  <2>2. \A i \in 1..n : ca[i].j \in Nat \ {0}
    BY <2>1, PendingType
  <2>. QED
    BY <2>1, <2>2, BumpExact
<1>2. /\ cc \in Pending(ls) /\ Len(cc) = n + 1
      /\ \A i \in 1..n : cc[i] = Bump(ca)[i]
      /\ cc[n+1].buffer = c /\ cc[n+1].j = 1
  <2>1. Call(c) \in [buffer : ls, j : Nat \ {0}] /\ Call(c).buffer = c /\ Call(c).j = 1
    BY DEF Call
  <2>2. Bump(ca) \in Seq([buffer : ls, j : Nat \ {0}])
    BY <1>1 DEF Pending
  <2>. QED
    BY <1>1, <2>1, <2>2 DEF Pending
<1>3. /\ co2 \in [ls -> Colors] /\ co2[c] = "gray" /\ \A d \in ls : d # c => co2[d] = co[d]
      /\ pa2 \in [ls -> ls] /\ pa2[c] = b /\ \A d \in ls : d # c => pa2[d] = pa[d]
  <2>1. b \in ls
    BY <1>1
  <2>. QED
    BY <2>1 DEF SearchType, Colors
<1>4. \A i \in 1..n : cc[i].buffer = ca[i].buffer /\ ca[i].buffer \in ls /\ ca[i].buffer # c
  <2>1. \A i \in 1..n : co[ca[i].buffer] = "gray"
    BY <1>1 DEF SearchInv, Grays
  <2>. QED
    BY <1>1, <1>2, <2>1
<1>5. Grays(ls, co2, cc)
  <2>1. \A i \in 1..Len(cc) : i \in 1..n \/ i = n + 1
    BY <1>1, <1>2
  <2>2. n + 1 \in 1..Len(cc) /\ \A i \in 1..n : i \in 1..Len(cc)
    BY <1>1, <1>2
  <2>3. ASSUME NEW d \in ls
        PROVE  co2[d] = "gray" <=> \E i \in 1..Len(cc) : cc[i].buffer = d
    <3>1. CASE d = c
      BY <1>2, <1>3, <2>2, <3>1
    <3>2. CASE d # c
      <4>1. co[d] = "gray" <=> \E i \in 1..n : ca[i].buffer = d
        BY DEF SearchInv, Grays
      <4>. QED
        BY <1>2, <1>3, <1>4, <2>1, <2>2, <3>2, <4>1
    <3>. QED
      BY <3>1, <3>2
  <2>4. ASSUME NEW i \in 1..Len(cc), NEW h \in 1..Len(cc), cc[i].buffer = cc[h].buffer
        PROVE  i = h
    <3>1. \A i1, h1 \in 1..n : ca[i1].buffer = ca[h1].buffer => i1 = h1
      BY DEF SearchInv, Grays
    <3>. QED
      BY <1>2, <1>4, <2>1, <2>4, <3>1
  <2>. QED
    BY <2>3, <2>4 DEF Grays
<1>6. Parents(t, ls, co2, pa2, cc)
  <2>1. WaitsFor(t, b, c)
    <3>1. ca[n].j \in 1..Dim /\ b \in ls /\ c # b
      BY <1>1, <1>4, NodesExact
    <3>. QED
      BY <3>1, NeedsExact
  <2>2. ASSUME NEW i \in 2..Len(cc)
        PROVE  pa2[cc[i].buffer] = cc[i-1].buffer /\ WaitsFor(t, cc[i-1].buffer, cc[i].buffer)
    <3>1. CASE i = n + 1
      <4>1. cc[i].buffer = c /\ cc[i-1].buffer = b
        BY <1>1, <1>2, <1>4, <3>1
      <4>. QED
        BY <1>3, <2>1, <4>1
    <3>2. CASE i # n + 1
      <4>1. i \in 2..n /\ i \in 1..n /\ i - 1 \in 1..n
        BY <1>1, <1>2, <3>2
      <4>2. pa[ca[i].buffer] = ca[i-1].buffer /\ WaitsFor(t, ca[i-1].buffer, ca[i].buffer)
        BY <4>1 DEF SearchInv, Parents
      <4>. QED
        BY <1>3, <1>4, <4>1, <4>2
    <3>. QED
      BY <3>1, <3>2
  <2>3. pa2[cc[1].buffer] = cc[1].buffer
    <3>1. 1 \in 1..n /\ n > 0
      BY <1>1
    <3>2. pa[ca[1].buffer] = ca[1].buffer
      BY <3>1 DEF SearchInv, Parents
    <3>. QED
      BY <1>3, <1>4, <3>1, <3>2
  <2>4. \A d \in ls : co2[d] = "white" => pa2[d] = d
    BY <1>3 DEF SearchInv, Parents
  <2>. QED
    BY <2>2, <2>3, <2>4 DEF Parents
<1>7. Blacks(t, ls, co2)
  <2>1. \A d \in ls : co2[d] = "black" <=> co[d] = "black"
    BY <1>3
  <2>2. {d \in ls : co2[d] = "black"} = {d \in ls : co[d] = "black"}
    BY <2>1
  <2>. QED
    BY <2>1, <2>2 DEF SearchInv, Blacks
<1>8. Looked(t, co2, cc)
  <2>1. SUFFICES ASSUME NEW i \in 1..Len(cc), NEW x \in 1..Dim, x < cc[i].j
                 PROVE  \/ Needs(t, cc[i].buffer, x) = Nil
                        \/ co2[Needs(t, cc[i].buffer, x)] = "black"
                        \/ Needs(t, cc[i].buffer, x) = cc[i].buffer
                        \/ i < Len(cc) /\ Needs(t, cc[i].buffer, x) = cc[i+1].buffer
    BY DEF Looked
  <2>2. i \in 1..n
    BY <1>1, <1>2, <2>1, NodesExact
  <2>. DEFINE y == Needs(t, ca[i].buffer, x)
  <2>3. y \in ls \cup {Nil}
    BY <1>4, <2>2, NeedsExact
  <2>4. CASE x < ca[i].j
    <3>1. \/ y = Nil
          \/ co[y] = "black"
          \/ y = ca[i].buffer
          \/ i < n /\ y = ca[i+1].buffer
      BY <2>2, <2>4 DEF SearchInv, Looked
    <3>2. i < n => cc[i+1].buffer = ca[i+1].buffer /\ i < Len(cc)
      BY <1>1, <1>2, <1>4, <2>2
    <3>3. y \in ls /\ co[y] = "black" => co2[y] = "black"
      BY <1>3
    <3>. HIDE DEF y
    <3>4. \/ y = Nil \/ co2[y] = "black" \/ y = ca[i].buffer
          \/ (i < Len(cc) /\ y = cc[i+1].buffer)
      BY <2>3, <3>1, <3>2, <3>3
    <3>. QED
      BY <1>4, <2>2, <3>4 DEF y
  <2>5. CASE ~ (x < ca[i].j)
    <3>1. i = n /\ x = ca[n].j
      BY <1>1, <1>2, <2>1, <2>2, <2>5, NodesExact
    <3>. QED
      BY <1>1, <1>2, <1>4, <2>2, <3>1
  <2>. QED
    BY <2>4, <2>5
<1>. QED
  BY <1>2, <1>3, <1>5, <1>6, <1>7, <1>8 DEF SearchType, SearchInv

\* A destination that needs another gray buffer: it is not the parent's child,
\* and the calls from that buffer on wait for each other.
LEMMA ReportStep ==
    ASSUME NEW t, NEW ls \in SUBSET Links, NEW co, NEW pa, NEW ca, ca # <<>>, OnLinks(t, ls),
           SearchType(ls, co, pa, ca), SearchInv(t, ls, co, pa, ca),
           ca[Len(ca)].j <= Dim,
           NEW c, c = Needs(t, ca[Len(ca)].buffer, ca[Len(ca)].j),
           c \in ls, co[c] = "gray", c # ca[Len(ca)].buffer
    PROVE  pa[c] # ca[Len(ca)].buffer /\ \E S : Closed(t, ls, S)
<1>. DEFINE n == Len(ca)
            b == ca[n].buffer
<1>1. /\ n \in Nat \ {0}
      /\ \A i \in 1..n : ca[i].buffer \in ls /\ ca[i].j \in Nat \ {0}
  BY PendingType DEF SearchType
<1>2. ca[n].j \in 1..Dim /\ b \in ls
  BY <1>1, NodesExact
<1>3. WaitsFor(t, b, c) /\ b # c
  BY <1>2, NeedsExact
<1>4. PICK m \in 1..n : ca[m].buffer = c
  BY DEF SearchInv, Grays
<1>5. \A i, h \in 1..n : ca[i].buffer = ca[h].buffer => i = h
  BY DEF SearchInv, Grays
<1>6. pa[c] # b
  <2>1. CASE m = 1
    <3>1. pa[c] = c
      BY <1>1, <1>4, <2>1 DEF SearchInv, Parents
    <3>. QED
      BY <1>3, <3>1
  <2>2. CASE m # 1
    <3>1. m \in 2..n /\ m - 1 \in 1..n /\ m - 1 # n /\ n \in 1..n
      BY <1>1, <2>2
    <3>2. pa[c] = ca[m-1].buffer
      BY <1>4, <3>1 DEF SearchInv, Parents
    <3>. QED
      BY <1>5, <3>1, <3>2
  <2>. QED
    BY <2>1, <2>2
<1>. DEFINE S == {ca[i].buffer : i \in m..n}
<1>7. S \in SUBSET ls /\ S # {} /\ c \in S
  BY <1>1, <1>4
<1>8. ASSUME NEW d \in S  PROVE \E e \in S : WaitsFor(t, d, e)
  <2>1. PICK i \in m..n : d = ca[i].buffer
    OBVIOUS
  <2>2. CASE i = n
    BY <1>3, <1>7, <2>1, <2>2
  <2>3. CASE i # n
    <3>1. i + 1 \in 2..n /\ i + 1 \in m..n /\ (i + 1) - 1 = i
      BY <1>1, <2>1, <2>3
    <3>2. WaitsFor(t, ca[i].buffer, ca[i+1].buffer)
      BY <3>1 DEF SearchInv, Parents
    <3>3. ca[i+1].buffer \in S
      BY <3>1
    <3>. QED
      BY <2>1, <3>2, <3>3
  <2>. QED
    BY <2>2, <2>3
<1>. HIDE DEF S
<1>9. Closed(t, ls, S)
  BY <1>7, <1>8 DEF Closed
<1>. QED
  BY <1>6, <1>9

LEMMA FrontExact ==
    ASSUME NEW R, NEW s \in Seq(R), s # <<>>
    PROVE  Len(Front(s)) = Len(s) - 1 /\ \A i \in 1..(Len(s) - 1) : Front(s)[i] = s[i]
<1>0. Len(s) \in Nat /\ Len(s) > 0
  OBVIOUS
<1>1. Front(s) = SubSeq(s, 1, Len(s) - 1)
  BY DEF Front
<1>2. CASE Len(s) = 1
  <2>1. Front(s) = <<>>
    BY <1>1, <1>2, SubSeqEmpty
  <2>. QED
    BY <1>2, <2>1
<1>3. CASE Len(s) # 1
  <2>. DEFINE m == Len(s) - 1
  <2>1. m \in Int /\ 1 <= m /\ 1 \in Int /\ \A i \in 1..m : s[i] \in R
    <3>1. \A i \in 1..Len(s) : s[i] \in R
      OBVIOUS
    <3>2. \A x \in Nat : x > 0 /\ x # 1 => 1 \in Int /\ 1 <= x - 1 /\ x - 1 \in Int /\ 1..(x - 1) \subseteq 1..x
      OBVIOUS
    <3>3. m \in Int /\ 1 <= m /\ 1 \in Int /\ 1..m \subseteq 1..Len(s)
      BY <1>0, <1>3, <3>2, Zenon
    <3>. QED
      BY <3>1, <3>3
  <2>. HIDE DEF m
  <2>2. /\ Len(SubSeq(s, 1, m)) = m - 1 + 1
        /\ \A i \in 1..(m - 1 + 1) : SubSeq(s, 1, m)[i] = s[1 + i - 1]
    BY <2>1, SubSeqProperties
  <2>3. m - 1 + 1 = m /\ \A i \in 1..m : 1 + i - 1 = i
    BY <2>1
  <2>4. Len(SubSeq(s, 1, m)) = m /\ \A i \in 1..m : SubSeq(s, 1, m)[i] = s[i]
    BY <2>2, <2>3
  <2>. QED
    BY <1>1, <2>4 DEF m
<1>. QED
  BY <1>2, <1>3

\* The top call has been through every destination, and returns.
LEMMA ReturnStep ==
    ASSUME NEW t, NEW ls \in SUBSET Links, NEW co, NEW pa, NEW ca, ca # <<>>, OnLinks(t, ls),
           SearchType(ls, co, pa, ca), SearchInv(t, ls, co, pa, ca),
           ca[Len(ca)].j > Dim,
           NEW co2, co2 = [co EXCEPT ![ca[Len(ca)].buffer] = "black"],
           NEW cf, cf = Front(ca)
    PROVE  SearchInv(t, ls, co2, pa, cf)
<1>. DEFINE n == Len(ca)
            b == ca[n].buffer
<1>1. /\ n \in Nat \ {0}
      /\ \A i \in 1..n : ca[i].buffer \in ls /\ ca[i].j \in Nat \ {0}
  BY PendingType DEF SearchType
<1>2. Len(cf) = n - 1 /\ \A i \in 1..(n - 1) : cf[i] = ca[i]
  <2>. DEFINE R == [buffer : ls, j : Nat \ {0}]
  <2>1. ca \in Seq(R)
    BY DEF SearchType, Pending
  <2>. HIDE DEF R
  <2>. QED
    BY <2>1, FrontExact
<1>3. b \in ls /\ n \in 1..n /\ \A i \in 1..(n - 1) : i \in 1..n /\ i # n
  BY <1>1
<1>4. co2[b] = "black" /\ \A d \in ls : d # b => co2[d] = co[d]
  BY <1>3 DEF SearchType
<1>5. /\ \A i, h \in 1..n : ca[i].buffer = ca[h].buffer => i = h
      /\ \A d \in ls : co[d] = "gray" <=> \E i \in 1..n : ca[i].buffer = d
  BY DEF SearchInv, Grays
<1>6. co[b] = "gray"
  BY <1>3, <1>5
<1>7. Grays(ls, co2, cf)
  <2>1. ASSUME NEW d \in ls
        PROVE  co2[d] = "gray" <=> \E i \in 1..Len(cf) : cf[i].buffer = d
    <3>1. CASE d = b
      BY <1>2, <1>3, <1>4, <1>5, <3>1
    <3>2. CASE d # b
      <4>1. \A i \in 1..n : ca[i].buffer = d => i \in 1..(n - 1)
        BY <1>1, <3>2
      <4>. QED
        BY <1>2, <1>3, <1>4, <1>5, <3>2, <4>1
    <3>. QED
      BY <3>1, <3>2
  <2>2. ASSUME NEW i \in 1..Len(cf), NEW h \in 1..Len(cf), cf[i].buffer = cf[h].buffer
        PROVE  i = h
    <3>1. i \in 1..n /\ h \in 1..n /\ ca[i].buffer = ca[h].buffer
      BY <1>2, <1>3, <2>2
    <3>. QED
      BY <1>5, <3>1
  <2>. QED
    BY <2>1, <2>2 DEF Grays
<1>8. Parents(t, ls, co2, pa, cf)
  <2>1. ASSUME NEW i \in 2..Len(cf)
        PROVE  pa[cf[i].buffer] = cf[i-1].buffer /\ WaitsFor(t, cf[i-1].buffer, cf[i].buffer)
    <3>1. i \in 2..n /\ i \in 1..(n - 1) /\ i - 1 \in 1..(n - 1)
      BY <1>1, <1>2
    <3>. QED
      BY <1>2, <3>1 DEF SearchInv, Parents
  <2>2. Len(cf) > 0 => pa[cf[1].buffer] = cf[1].buffer
    BY <1>1, <1>2 DEF SearchInv, Parents
  <2>3. \A d \in ls : co2[d] = "white" => pa[d] = d
    BY <1>4 DEF SearchInv, Parents
  <2>. QED
    BY <2>1, <2>2, <2>3 DEF Parents
<1>9. ASSUME NEW d \in ls, WaitsFor(t, b, d)  PROVE d # b /\ co[d] = "black"
  <2>1. d # b /\ d # Nil
    BY <1>3, <1>9, NeedsExact
  <2>2. PICK x \in 1..Dim : Needs(t, b, x) = d
    BY <1>3, <1>9, NeedsExact
  <2>3. x < ca[n].j
    BY <1>1, <1>3, NodesExact
  <2>. QED
    BY <1>1, <1>3, <2>1, <2>2, <2>3 DEF SearchInv, Looked
<1>10. Blacks(t, ls, co2)
  <2>1. \A d, e \in ls : co[d] = "black" /\ WaitsFor(t, d, e) => co[e] = "black"
    BY DEF SearchInv, Blacks
  <2>2. ASSUME NEW d \in ls, NEW e \in ls, co2[d] = "black", WaitsFor(t, d, e)
        PROVE  co2[e] = "black"
    BY <1>4, <1>6, <1>9, <2>1, <2>2
  <2>3. ASSUME NEW S \in SUBSET {d \in ls : co2[d] = "black"}, S # {}
        PROVE  \E d \in S : \A e \in S : ~ WaitsFor(t, d, e)
    <3>1. S \ {b} \in SUBSET {d \in ls : co[d] = "black"}
      BY <1>4
    <3>2. CASE S \ {b} = {}
      <4>1. S = {b}
        BY <2>3, <3>2
      <4>2. ~ WaitsFor(t, b, b)
        BY DEF WaitsFor
      <4>. QED
        BY <4>1, <4>2
    <3>3. CASE S \ {b} # {}
      <4>1. PICK d \in S \ {b} : \A e \in S \ {b} : ~ WaitsFor(t, d, e)
        BY <3>1, <3>3 DEF SearchInv, Blacks
      <4>2. d \in ls /\ co[d] = "black"
        BY <3>1
      <4>3. ~ WaitsFor(t, d, b)
        BY <1>3, <1>6, <2>1, <4>2
      <4>. QED
        BY <4>1, <4>3
    <3>. QED
      BY <3>2, <3>3
  <2>. QED
    BY <2>2, <2>3 DEF Blacks
<1>11. Looked(t, co2, cf)
  <2>1. SUFFICES ASSUME NEW i \in 1..(n - 1), NEW x \in 1..Dim, x < ca[i].j
                 PROVE  \/ Needs(t, ca[i].buffer, x) = Nil
                        \/ co2[Needs(t, ca[i].buffer, x)] = "black"
                        \/ Needs(t, ca[i].buffer, x) = ca[i].buffer
                        \/ i < Len(cf) /\ Needs(t, ca[i].buffer, x) = cf[i+1].buffer
    <3>1. Len(cf) = n - 1 /\ \A i \in 1..(n - 1) : cf[i].buffer = ca[i].buffer /\ cf[i].j = ca[i].j
      BY <1>2
    <3>. QED
      BY <3>1 DEF Looked
  <2>. DEFINE y == Needs(t, ca[i].buffer, x)
  <2>2. y \in ls \cup {Nil}
    BY <1>1, <1>3, NeedsExact
  <2>3. y = Nil \/ co[y] = "black" \/ y = ca[i].buffer \/ y = ca[i+1].buffer
    BY <1>3, <2>1 DEF SearchInv, Looked
  <2>. HIDE DEF y
  <2>4. CASE y = ca[i+1].buffer /\ i = n - 1
    BY <1>1, <1>4, <2>4 DEF y
  <2>5. CASE y = ca[i+1].buffer /\ i # n - 1
    <3>1. i + 1 \in 1..(n - 1) /\ i < n - 1
      BY <1>1, <2>5
    <3>. QED
      BY <1>2, <2>5, <3>1 DEF y
  <2>6. CASE y = Nil \/ co[y] = "black"
    <3>1. y \in ls /\ co[y] = "black" => co2[y] = "black"
      BY <1>4
    <3>. QED
      BY <2>2, <2>6, <3>1 DEF y
  <2>7. CASE y = ca[i].buffer
    BY <2>7 DEF y
  <2>. QED
    BY <2>3, <2>4, <2>5, <2>6, <2>7
<1>. QED
  BY <1>7, <1>8, <1>10, <1>11 DEF SearchInv

\* Type of the search after a return, whatever made the call return.
LEMMA ReturnType ==
    ASSUME NEW ls, NEW co, NEW pa, NEW ca, ca # <<>>, SearchType(ls, co, pa, ca),
           NEW co2, co2 = [co EXCEPT ![ca[Len(ca)].buffer] = "black"],
           NEW cf, cf = Front(ca)
    PROVE  SearchType(ls, co2, pa, cf)
<1>. DEFINE R == [buffer : ls, j : Nat \ {0}]
<1>1. ca \in Seq(R)
  BY DEF SearchType, Pending
<1>. HIDE DEF R
<1>2. cf \in Seq(R)
  BY <1>1 DEF Front
<1>3. co2 \in [ls -> Colors]
  BY DEF SearchType, Colors
<1>. QED
  BY <1>2, <1>3 DEF R, SearchType, Pending

\* The search ends without a report: every buffer is black.
LEMMA SearchEnds ==
    ASSUME NEW t, NEW ls, NEW co, NEW pa,
           SearchType(ls, co, pa, <<>>), SearchInv(t, ls, co, pa, <<>>),
           {b \in ls : co[b] = "white"} = {}
    PROVE  ~ \E S : Closed(t, ls, S)
<1>1. \A b \in ls : co[b] = "black"
  BY DEF SearchType, Colors, SearchInv, Grays
<1>2. {b \in ls : co[b] = "black"} = ls
  BY <1>1
<1>. QED
  BY <1>2 DEF SearchInv, Blacks, Closed

-----------------------------------------------------------------------------
(* Distances *)

LEMMA ReachSteps ==
    ASSUME NEW ls \in SUBSET Links, NEW i \in NodeSet
    PROVE  /\ Reach(ls, i) \in [0..Dim -> SUBSET NodeSet]
           /\ Reach(ls, i)[0] = {i}
           /\ \A h \in 1..Dim : \A n :
                 n \in Reach(ls, i)[h] <=>
                     \/ n \in Reach(ls, i)[h-1]
                     \/ \E l \in ls : l[1] \in Reach(ls, i)[h-1] /\ l[2] = n
<1>. DEFINE More(S) == S \cup {l[2] : l \in {q \in ls : q[1] \in S}}
            step == [S \in SUBSET NodeSet |-> More(S)]
            Eq(f) == f = [h \in 0..Dim |-> IF h = 0 THEN {i}
                             ELSE f[h-1] \cup {l[2] : l \in {q \in ls : q[1] \in f[h-1]}}]
<1>1. Dim \in Nat
  BY NodesExact
<1>2. step \in [SUBSET NodeSet -> SUBSET NodeSet]
  <2>1. \A l \in ls : l[2] \in NodeSet
    BY DEF Links
  <2>. QED
    BY <2>1
<1>3. PICK g \in [0..Dim -> SUBSET NodeSet] :
          g[0] = {i} /\ \A h \in 1..Dim : g[h] = step[g[h-1]]
  <2>. DEFINE V == SUBSET NodeSet
              v == {i}
  <2>1. v \in V /\ step \in [V -> V]
    BY <1>2
  <2>. HIDE DEF step, V, v
  <2>2. PICK g : Iterates(V, v, Dim, step, g)
    BY <1>1, <2>1, IterationExists
  <2>. QED
    BY <2>2 DEF V, v, Iterates
<1>4. ASSUME NEW h \in 1..Dim  PROVE h - 1 \in 0..Dim /\ h \in 0..Dim /\ g[h] = More(g[h-1])
  <2>1. h - 1 \in 0..Dim /\ h \in 0..Dim
    BY <1>1
  <2>. QED
    BY <1>3, <2>1
<1>5. Eq(g)
  <2>. HIDE DEF step
  <2>. QED
    BY <1>1, <1>3, <1>4
<1>6. Eq(Reach(ls, i))
  BY <1>5 DEF Reach
<1>. DEFINE reach == Reach(ls, i)
<1>. HIDE DEF reach, step
<1>7. reach[0] = {i} /\ \A h \in 1..Dim : reach[h] = More(reach[h-1])
  <2>1. 0 \in 0..Dim /\ \A h \in 1..Dim : h \in 0..Dim /\ h # 0
    BY <1>1
  <2>. QED
    BY <1>6, <2>1 DEF reach
<1>8. reach \in [0..Dim -> SUBSET NodeSet]
  <2>. DEFINE T == {h \in 0..Dim : reach[h] \in SUBSET NodeSet}
  <2>1. 0 \in T
    BY <1>1, <1>7
  <2>2. ASSUME NEW h \in 1..Dim, h - 1 \in T  PROVE h \in T
    <3>1. More(reach[h-1]) \in SUBSET NodeSet
      BY <2>2 DEF Links
    <3>. QED
      BY <1>4, <1>7, <3>1
  <2>. HIDE DEF T
  <2>3. 0..Dim \subseteq T
    BY <1>1, <2>1, <2>2, Upwards
  <2>4. reach = [h \in 0..Dim |-> reach[h]]
    BY <1>6 DEF reach
  <2>. QED
    BY <2>3, <2>4 DEF T
<1>. QED
  BY <1>7, <1>8 DEF reach

\* Hops add up.
LEMMA ReachAdds ==
    ASSUME NEW ls \in SUBSET Links, NEW i \in NodeSet, NEW n \in NodeSet, NEW j \in NodeSet,
           NEW a \in 0..Dim, NEW b \in 0..Dim, a + b <= Dim,
           n \in Reach(ls, i)[a], j \in Reach(ls, n)[b]
    PROVE  j \in Reach(ls, i)[a + b]
<1>. DEFINE T == {h \in 0..b : \A m \in NodeSet : m \in Reach(ls, n)[h] => m \in Reach(ls, i)[a + h]}
<1>0. Dim \in Nat /\ a \in Nat /\ b \in Nat
  BY NodesExact
<1>4. \A h \in 1..Dim : \A m :
          m \in Reach(ls, i)[h] <=> \/ m \in Reach(ls, i)[h-1]
                                    \/ \E l \in ls : l[1] \in Reach(ls, i)[h-1] /\ l[2] = m
  BY ReachSteps, Zenon
<1>5. /\ Reach(ls, n)[0] = {n}
      /\ \A h \in 1..Dim : \A m :
            m \in Reach(ls, n)[h] <=> \/ m \in Reach(ls, n)[h-1]
                                      \/ \E l \in ls : l[1] \in Reach(ls, n)[h-1] /\ l[2] = m
  BY ReachSteps, Zenon
<1>1. 0 \in T
  <2>1. a + 0 = a
    BY <1>0
  <2>. QED
    BY <1>0, <1>5, <2>1
<1>2. ASSUME NEW h \in 1..b, h - 1 \in T  PROVE h \in T
  <2>1. h \in 1..Dim /\ a + h \in 1..Dim /\ (a + h) - 1 = a + (h - 1)
    BY <1>0
  <2>2. ASSUME NEW m \in NodeSet, m \in Reach(ls, n)[h]  PROVE m \in Reach(ls, i)[a + h]
    <3>1. CASE m \in Reach(ls, n)[h-1]
      <4>1. m \in Reach(ls, i)[(a + h) - 1]
        BY <1>2, <2>1, <3>1
      <4>. QED
        BY <1>4, <2>1, <4>1
    <3>2. CASE \E l \in ls : l[1] \in Reach(ls, n)[h-1] /\ l[2] = m
      <4>1. PICK l \in ls : l[1] \in Reach(ls, n)[h-1] /\ l[2] = m
        BY <3>2
      <4>2. l[1] \in NodeSet
        BY DEF Links
      <4>3. l[1] \in Reach(ls, i)[(a + h) - 1]
        BY <1>2, <2>1, <4>1, <4>2
      <4>. QED
        BY <1>4, <2>1, <4>1, <4>3
    <3>. QED
      BY <1>5, <2>1, <2>2, <3>1, <3>2
  <2>. QED
    BY <1>0, <2>2
<1>. HIDE DEF T
<1>3. b \in T
  BY <1>0, <1>1, <1>2, Upwards
<1>. QED
  BY <1>3 DEF T

-----------------------------------------------------------------------------
(* Floyd-Warshall *)

Entry(ls) == [cost : Nat, next : NodeSet \cup {Nil}, out : ls \cup {Nil}]
TableType(t, ls) == t \in [NodeSet \X NodeSet -> Entry(ls)]

\* A message needs no hop from a node to itself, whatever the table says.
Cost(t, i, j) == IF i = j THEN 0 ELSE t[<<i, j>>].cost
NextOf(t, i, j) == t[<<i, j>>].next

\* Only from a node to itself a message needs no hop; Dim stands for infinity.
CostsExact(t, ls) ==
    \A i, j \in NodeSet : /\ Cost(t, i, j) \in 0..Dim
                          /\ Cost(t, i, j) = 0 <=> i = j
                          /\ <<i, j>> \in ls /\ i # j => Cost(t, i, j) = 1

\* The entry of a node for itself: its link to itself, if it has one.
Diagonal(t, ls) ==
    \A i \in NodeSet :
        IF <<i, i>> \in ls THEN t[<<i, i>>].cost = 1 /\ t[<<i, i>>].next = i
        ELSE t[<<i, i>>].cost = 0 /\ t[<<i, i>>].next = Nil

\* No route is longer than its detour over one of the nodes K.
NoDetour(t, K) ==
    \A n \in K : \A i, j \in NodeSet : Cost(t, i, j) <= Cost(t, i, n) + Cost(t, n, j)

\* There is a route as short as the table says.
Reached(t, ls) ==
    \A i, j \in NodeSet : Cost(t, i, j) < Dim => j \in Reach(ls, i)[Cost(t, i, j)]

\* The next node is the destination or a node closer to both ends.
NextCloser(t, ls) ==
    \A i, j \in NodeSet :
        /\ i # j /\ Cost(t, i, j) = Dim => NextOf(t, i, j) = Nil
        /\ Cost(t, i, j) = 1 /\ Cost(t, i, j) < Dim => NextOf(t, i, j) = j /\ <<i, j>> \in ls
        /\ 1 < Cost(t, i, j) /\ Cost(t, i, j) < Dim =>
              /\ NextOf(t, i, j) \in NodeSet \ {i, j}
              /\ Cost(t, i, NextOf(t, i, j)) + Cost(t, NextOf(t, i, j), j) <= Cost(t, i, j)

RelaxInv(t, ls, K) ==
    /\ TableType(t, ls) /\ CostsExact(t, ls) /\ Diagonal(t, ls)
    /\ NoDetour(t, K) /\ Reached(t, ls) /\ NextCloser(t, ls)

LEMMA ManyNodes ==
    ASSUME NEW i \in NodeSet, NEW j \in NodeSet, i # j
    PROVE  Dim > 1
<1>1. PICK x \in 1..Dim : Nodes[x] = i
  BY NodesExact
<1>2. PICK y \in 1..Dim : Nodes[y] = j
  BY NodesExact
<1>3. x # y /\ Dim \in Nat
  BY <1>1, <1>2, NodesExact
<1>. QED
  BY <1>3

LEMMA InitiateExact ==
    ASSUME NEW ls \in SUBSET Links
    PROVE  RelaxInv(Initiate(ls), ls, {}) /\ OnLinks(Initiate(ls), ls)
<1>. DEFINE t == Initiate(ls)
<1>0. Dim \in Nat \ {0} /\ Nil \notin NodeSet
  BY NodesExact
<1>1. ASSUME NEW p \in NodeSet \X NodeSet
      PROVE  /\ t[p] \in Entry(ls)
             /\ p \in ls => t[p].cost = 1 /\ t[p].next = p[2] /\ t[p].out = p
             /\ p \notin ls => /\ t[p].cost = IF p[1] = p[2] THEN 0 ELSE Dim
                               /\ t[p].next = Nil /\ t[p].out = Nil
  <2>1. p[1] \in NodeSet /\ p[2] \in NodeSet
    OBVIOUS
  <2>2. CASE p \in ls
    <3>1. t[p] = [cost |-> 1, next |-> p[2], out |-> p]
      BY <2>2 DEF Initiate
    <3>. QED
      BY <2>1, <2>2, <3>1 DEF Entry
  <2>3. CASE p \notin ls
    <3>1. t[p] = [cost |-> IF p[1] = p[2] THEN 0 ELSE Dim, next |-> Nil, out |-> Nil]
      BY <2>3 DEF Initiate
    <3>2. (IF p[1] = p[2] THEN 0 ELSE Dim) \in Nat
      BY <1>0
    <3>. QED
      BY <2>3, <3>1, <3>2 DEF Entry
  <2>. QED
    BY <2>2, <2>3
<1>2. TableType(t, ls)
  <2>1. t = [p \in NodeSet \X NodeSet |-> t[p]]
    BY DEF Initiate
  <2>. HIDE DEF t
  <2>. QED
    BY <1>1, <2>1 DEF TableType
<1>. HIDE DEF t
<1>3. ASSUME NEW i \in NodeSet, NEW j \in NodeSet
      PROVE  /\ <<i, j>> \in ls => /\ Cost(t, i, j) = IF i = j THEN 0 ELSE 1
                                   /\ NextOf(t, i, j) = j
             /\ <<i, j>> \notin ls => /\ NextOf(t, i, j) = Nil
                                      /\ Cost(t, i, j) = IF i = j THEN 0 ELSE Dim
             /\ i # j => Dim > 1
  <2>1. <<i, j>> \in NodeSet \X NodeSet /\ <<i, j>>[1] = i /\ <<i, j>>[2] = j
    OBVIOUS
  <2>2. i # j => Dim > 1
    BY ManyNodes
  <2>. QED
    BY <1>1, <2>1, <2>2 DEF Cost, NextOf
<1>4. CostsExact(t, ls)
  <2>1. ASSUME NEW i \in NodeSet, NEW j \in NodeSet
        PROVE  /\ Cost(t, i, j) \in 0..Dim
               /\ Cost(t, i, j) = 0 <=> i = j
               /\ <<i, j>> \in ls /\ i # j => Cost(t, i, j) = 1
    BY <1>0, <1>3
  <2>. QED
    BY <2>1 DEF CostsExact
<1>5. Reached(t, ls)
  <2>1. SUFFICES ASSUME NEW i \in NodeSet, NEW j \in NodeSet, Cost(t, i, j) < Dim
                 PROVE  j \in Reach(ls, i)[Cost(t, i, j)]
    BY DEF Reached
  <2>2. Reach(ls, i)[0] = {i}
    BY ReachSteps, Zenon
  <2>3. CASE <<i, j>> \in ls /\ i # j
    <3>1. 1 \in 1..Dim /\ 1 - 1 = 0
      BY <1>0
    <3>2. i \in Reach(ls, i)[1 - 1]
      BY <2>2, <3>1
    <3>3. <<i, j>>[1] = i /\ <<i, j>>[2] = j
      OBVIOUS
    <3>4. \A n : n \in Reach(ls, i)[1] <=>
                    \/ n \in Reach(ls, i)[1 - 1]
                    \/ \E l \in ls : l[1] \in Reach(ls, i)[1 - 1] /\ l[2] = n
      <4>1. \A h \in 1..Dim : \A n :
                n \in Reach(ls, i)[h] <=>
                    \/ n \in Reach(ls, i)[h-1]
                    \/ \E l \in ls : l[1] \in Reach(ls, i)[h-1] /\ l[2] = n
        BY ReachSteps, Zenon
      <4>. QED
        BY <3>1, <4>1, Zenon
    <3>5. j \in Reach(ls, i)[1]
      BY <2>3, <3>2, <3>3, <3>4
    <3>. QED
      BY <1>3, <2>3, <3>5
  <2>4. CASE <<i, j>> \notin ls \/ i = j
    BY <1>0, <1>3, <2>1, <2>2, <2>4
  <2>. QED
    BY <2>3, <2>4
<1>6. NextCloser(t, ls)
  <2>1. ASSUME NEW i \in NodeSet, NEW j \in NodeSet
        PROVE  /\ i # j /\ Cost(t, i, j) = Dim => NextOf(t, i, j) = Nil
               /\ Cost(t, i, j) = 1 /\ Cost(t, i, j) < Dim => NextOf(t, i, j) = j /\ <<i, j>> \in ls
               /\ ~ (1 < Cost(t, i, j) /\ Cost(t, i, j) < Dim)
    BY <1>0, <1>3
  <2>. QED
    BY <2>1 DEF NextCloser
<1>7. NoDetour(t, {})
  BY DEF NoDetour
<1>8. OnLinks(t, ls)
  <2>1. ASSUME NEW p \in NodeSet \X NodeSet, t[p].out # Nil
        PROVE  t[p].out \in ls /\ t[p].out[1] = p[1] /\ t[p].out[2] = t[p].next
    BY <1>1, <2>1
  <2>. QED
    BY <2>1 DEF OnLinks
<1>9. Diagonal(t, ls)
  <2>1. ASSUME NEW i \in NodeSet
        PROVE  IF <<i, i>> \in ls THEN t[<<i, i>>].cost = 1 /\ t[<<i, i>>].next = i
               ELSE t[<<i, i>>].cost = 0 /\ t[<<i, i>>].next = Nil
    <3>1. <<i, i>> \in NodeSet \X NodeSet /\ <<i, i>>[1] = i /\ <<i, i>>[2] = i
      OBVIOUS
    <3>. QED
      BY <1>1, <3>1
  <2>. QED
    BY <2>1 DEF Diagonal
<1>. QED
  BY <1>2, <1>4, <1>5, <1>6, <1>7, <1>8, <1>9 DEF RelaxInv, t

LEMMA ViaNodeExact ==
    ASSUME NEW t, NEW ls, TableType(t, ls), CostsExact(t, ls), Diagonal(t, ls), NEW m \in NodeSet
    PROVE  /\ TableType(ViaNode(t, m), ls) /\ Diagonal(ViaNode(t, m), ls)
           /\ \A i, j \in NodeSet :
                 IF Cost(t, i, m) + Cost(t, m, j) < Cost(t, i, j)
                 THEN /\ Cost(ViaNode(t, m), i, j) = Cost(t, i, m) + Cost(t, m, j)
                      /\ NextOf(ViaNode(t, m), i, j) = m
                 ELSE /\ Cost(ViaNode(t, m), i, j) = Cost(t, i, j)
                      /\ NextOf(ViaNode(t, m), i, j) = NextOf(t, i, j)
<1>. DEFINE v == ViaNode(t, m)
            Sum(p) == t[<<p[1], m>>].cost + t[<<m, p[2]>>].cost
<1>1. \A p \in NodeSet \X NodeSet : p[1] \in NodeSet /\ p[2] \in NodeSet /\ t[p] \in Entry(ls)
  BY DEF TableType
<1>2. \A i, j \in NodeSet : t[<<i, j>>].cost \in Nat
  BY DEF TableType, Entry
<1>3. \A p \in NodeSet \X NodeSet : Sum(p) \in Nat
  BY <1>1, <1>2
<1>4. v = [p \in NodeSet \X NodeSet |->
              IF Sum(p) < t[p].cost THEN [t[p] EXCEPT !.cost = Sum(p), !.next = m] ELSE t[p]]
  BY DEF ViaNode
<1>. HIDE DEF v, Sum
<1>5. ASSUME NEW p \in NodeSet \X NodeSet
      PROVE  /\ v[p] \in Entry(ls)
             /\ IF Sum(p) < t[p].cost THEN v[p].cost = Sum(p) /\ v[p].next = m
                ELSE v[p].cost = t[p].cost /\ v[p].next = t[p].next
  <2>1. CASE Sum(p) < t[p].cost
    <3>1. v[p] = [t[p] EXCEPT !.cost = Sum(p), !.next = m]
      BY <1>4, <2>1
    <3>2. t[p] \in Entry(ls) /\ Sum(p) \in Nat
      BY <1>1, <1>3
    <3>. QED
      BY <2>1, <3>1, <3>2 DEF Entry
  <2>2. CASE ~ (Sum(p) < t[p].cost)
    BY <1>1, <1>4, <2>2
  <2>. QED
    BY <2>1, <2>2
<1>6. TableType(v, ls)
  <2>1. v = [p \in NodeSet \X NodeSet |-> v[p]]
    BY <1>4
  <2>. QED
    BY <1>5, <2>1 DEF TableType
<1>7. ASSUME NEW i \in NodeSet, NEW j \in NodeSet, i # j  PROVE t[<<i, j>>].cost > 0
  BY <1>2, <1>7 DEF CostsExact, Cost
<1>8. \A i \in NodeSet : t[<<i, i>>].cost \in {0, 1}
  BY DEF Diagonal
<1>9. ASSUME NEW i \in NodeSet
      PROVE  v[<<i, i>>].cost = t[<<i, i>>].cost /\ v[<<i, i>>].next = t[<<i, i>>].next
  <2>1. <<i, i>> \in NodeSet \X NodeSet /\ <<i, i>>[1] = i /\ <<i, i>>[2] = i
    OBVIOUS
  <2>2. Sum(<<i, i>>) = t[<<i, m>>].cost + t[<<m, i>>].cost
    BY <2>1 DEF Sum
  <2>3. /\ t[<<i, m>>].cost \in Nat /\ t[<<m, i>>].cost \in Nat /\ t[<<i, i>>].cost \in {0, 1}
        /\ i # m => t[<<i, m>>].cost > 0 /\ t[<<m, i>>].cost > 0
    BY <1>2, <1>7, <1>8
  <2>4. ~ (Sum(<<i, i>>) < t[<<i, i>>].cost)
    BY <2>2, <2>3
  <2>. QED
    BY <1>5, <2>1, <2>4
<1>10. Diagonal(v, ls)
  BY <1>9 DEF Diagonal
<1>11. ASSUME NEW i \in NodeSet, NEW j \in NodeSet
       PROVE  IF Cost(t, i, m) + Cost(t, m, j) < Cost(t, i, j)
              THEN Cost(v, i, j) = Cost(t, i, m) + Cost(t, m, j) /\ NextOf(v, i, j) = m
              ELSE Cost(v, i, j) = Cost(t, i, j) /\ NextOf(v, i, j) = NextOf(t, i, j)
  <2>1. <<i, j>> \in NodeSet \X NodeSet /\ <<i, j>>[1] = i /\ <<i, j>>[2] = j
    OBVIOUS
  <2>2. Sum(<<i, j>>) = t[<<i, m>>].cost + t[<<m, j>>].cost
    BY <2>1 DEF Sum
  <2>3. CASE i = j
    <3>1. Cost(t, i, m) \in Nat /\ Cost(t, m, j) \in Nat /\ Cost(t, i, j) = 0 /\ Cost(v, i, j) = 0
      BY <1>2, <2>3 DEF Cost
    <3>2. NextOf(v, i, j) = NextOf(t, i, j)
      BY <1>9, <2>3 DEF NextOf
    <3>. QED
      BY <3>1, <3>2
  <2>4. CASE i # j /\ m # i /\ m # j
    BY <1>5, <2>1, <2>2, <2>4 DEF Cost, NextOf
  <2>5. CASE i # j /\ (m = i \/ m = j)
    <3>1. t[<<i, i>>].cost \in Nat /\ t[<<j, j>>].cost \in Nat /\ t[<<i, j>>].cost \in Nat
      BY <1>2
    <3>2. ~ (Sum(<<i, j>>) < t[<<i, j>>].cost)
      BY <2>2, <2>5, <3>1
    <3>3. v[<<i, j>>].cost = t[<<i, j>>].cost /\ v[<<i, j>>].next = t[<<i, j>>].next
      BY <1>5, <2>1, <3>2
    <3>4. Cost(t, i, m) + Cost(t, m, j) = Cost(t, i, j)
      BY <2>5, <3>1 DEF Cost
    <3>5. Cost(t, i, j) \in Nat /\ Cost(v, i, j) = Cost(t, i, j) /\ NextOf(v, i, j) = NextOf(t, i, j)
      BY <2>5, <3>1, <3>3 DEF Cost, NextOf
    <3>. QED
      BY <3>4, <3>5
  <2>. QED
    BY <2>3, <2>4, <2>5
<1>. QED
  BY <1>6, <1>10, <1>11 DEF v

\* Going over one more node keeps the invariant, and adds that node to those
\* over which there is no shorter detour.
LEMMA RelaxStep ==
    ASSUME NEW t, NEW ls \in SUBSET Links, NEW K \in SUBSET NodeSet, NEW m \in NodeSet,
           RelaxInv(t, ls, K)
    PROVE  RelaxInv(ViaNode(t, m), ls, K \cup {m})
<1>. DEFINE v == ViaNode(t, m)
            C(i, j) == Cost(t, i, j)
            D(i, j) == Cost(v, i, j)
<1>0. Dim \in Nat \ {0} /\ Nil \notin NodeSet
  BY NodesExact
<1>1. /\ TableType(v, ls) /\ Diagonal(v, ls)
      /\ \A i, j \in NodeSet :
            IF C(i, m) + C(m, j) < C(i, j)
            THEN D(i, j) = C(i, m) + C(m, j) /\ NextOf(v, i, j) = m
            ELSE D(i, j) = C(i, j) /\ NextOf(v, i, j) = NextOf(t, i, j)
  BY ViaNodeExact DEF RelaxInv
<1>2. \A i, j \in NodeSet : /\ C(i, j) \in 0..Dim /\ (C(i, j) = 0 <=> i = j)
                            /\ <<i, j>> \in ls /\ i # j => C(i, j) = 1
  BY DEF RelaxInv, CostsExact
<1>3. \A n \in K : \A i, j \in NodeSet : C(i, j) <= C(i, n) + C(n, j)
  BY DEF RelaxInv, NoDetour
<1>. HIDE DEF v, C, D
<1>4. \A i, j \in NodeSet : C(i, j) \in Nat /\ D(i, j) \in Nat /\ D(i, j) <= C(i, j)
                            /\ D(i, j) <= C(i, m) + C(m, j)
                            /\ (D(i, j) = C(i, j) \/ D(i, j) = C(i, m) + C(m, j))
  <2>1. ASSUME NEW i \in NodeSet, NEW j \in NodeSet  PROVE C(i, j) \in Nat
    <3>1. C(i, j) \in 0..Dim
      BY <1>2
    <3>. QED
      BY <1>0, <3>1
  <2>2. ASSUME NEW i \in NodeSet, NEW j \in NodeSet
        PROVE  /\ C(i, j) \in Nat /\ D(i, j) \in Nat /\ D(i, j) <= C(i, j)
               /\ D(i, j) <= C(i, m) + C(m, j)
               /\ (D(i, j) = C(i, j) \/ D(i, j) = C(i, m) + C(m, j))
    <3>1. C(i, j) \in Nat /\ C(i, m) \in Nat /\ C(m, j) \in Nat
      BY <2>1
    <3>2. IF C(i, m) + C(m, j) < C(i, j) THEN D(i, j) = C(i, m) + C(m, j) ELSE D(i, j) = C(i, j)
      BY <1>1
    <3>. QED
      BY <3>1, <3>2
  <2>. QED
    BY <2>2
<1>5. ASSUME NEW i \in NodeSet  PROVE D(i, m) = C(i, m) /\ D(m, i) = C(m, i)
  <2>1. C(m, m) = 0
    BY <1>2
  <2>2. C(i, m) \in Nat /\ C(m, i) \in Nat
    BY <1>4
  <2>3. /\ D(i, m) = C(i, m) \/ D(i, m) = C(i, m) + C(m, m)
        /\ D(m, i) = C(m, i) \/ D(m, i) = C(m, m) + C(m, i)
    BY <1>4
  <2>. QED
    BY <2>1, <2>2, <2>3
<1>6. CostsExact(v, ls)
  <2>1. ASSUME NEW i \in NodeSet, NEW j \in NodeSet
        PROVE  D(i, j) \in 0..Dim /\ (D(i, j) = 0 <=> i = j) /\ (<<i, j>> \in ls /\ i # j => D(i, j) = 1)
    <3>0. /\ C(i, j) \in 0..Dim /\ D(i, j) \in Nat /\ D(i, j) <= C(i, j)
          /\ C(i, m) \in Nat /\ C(m, j) \in Nat
          /\ (D(i, j) = C(i, j) \/ D(i, j) = C(i, m) + C(m, j))
          /\ (C(i, j) = 0 <=> i = j) /\ (C(i, m) = 0 <=> i = m) /\ (C(m, j) = 0 <=> m = j)
      BY <1>2, <1>4
    <3>1. D(i, j) \in 0..Dim
      BY <1>0, <3>0
    <3>2. D(i, j) = 0 <=> i = j
      BY <1>0, <3>0
    <3>3. ASSUME <<i, j>> \in ls, i # j  PROVE D(i, j) = 1
      <4>1. C(i, j) = 1 /\ i # j
        BY <1>2, <3>3
      <4>. QED
        BY <1>4, <3>2, <4>1
    <3>. QED
      BY <3>1, <3>2, <3>3
  <2>. QED
    BY <2>1 DEF CostsExact, D
<1>7. NoDetour(v, K \cup {m})
  <2>1. ASSUME NEW i \in NodeSet, NEW j \in NodeSet  PROVE D(i, j) <= D(i, m) + D(m, j)
    BY <1>4, <1>5
  <2>2. ASSUME NEW n \in K, NEW i \in NodeSet, NEW j \in NodeSet
        PROVE  D(i, j) <= D(i, n) + D(n, j)
    <3>1. n \in NodeSet
      OBVIOUS
    <3>2. /\ C(i, j) <= C(i, n) + C(n, j) /\ C(i, m) <= C(i, n) + C(n, m)
          /\ C(m, j) <= C(m, n) + C(n, j)
      BY <1>3
    <3>3. /\ C(i, j) \in Nat /\ C(i, n) \in Nat /\ C(n, j) \in Nat /\ C(i, m) \in Nat
          /\ C(n, m) \in Nat /\ C(m, j) \in Nat /\ C(m, n) \in Nat
          /\ D(i, j) \in Nat /\ D(i, j) <= C(i, j) /\ D(i, j) <= C(i, m) + C(m, j)
          /\ (D(i, n) = C(i, n) \/ D(i, n) = C(i, m) + C(m, n))
          /\ (D(n, j) = C(n, j) \/ D(n, j) = C(n, m) + C(m, j))
      BY <1>4, <3>1
    <3>. QED
      BY <3>2, <3>3
  <2>. QED
    BY <2>1, <2>2 DEF NoDetour, D
<1>8. Reached(v, ls)
  <2>1. SUFFICES ASSUME NEW i \in NodeSet, NEW j \in NodeSet, D(i, j) < Dim
                 PROVE  j \in Reach(ls, i)[D(i, j)]
    BY DEF Reached, D
  <2>2. \A x, y \in NodeSet : C(x, y) < Dim => y \in Reach(ls, x)[C(x, y)]
    BY DEF RelaxInv, Reached, C
  <2>3. CASE D(i, j) = C(i, j)
    BY <2>1, <2>2, <2>3
  <2>4. CASE D(i, j) = C(i, m) + C(m, j)
    <3>1. C(i, m) < Dim /\ C(m, j) < Dim /\ C(i, m) \in 0..Dim /\ C(m, j) \in 0..Dim
          /\ C(i, m) + C(m, j) <= Dim
      BY <1>0, <1>2, <1>4, <2>1, <2>4
    <3>2. m \in Reach(ls, i)[C(i, m)] /\ j \in Reach(ls, m)[C(m, j)]
      BY <2>2, <3>1
    <3>3. j \in Reach(ls, i)[C(i, m) + C(m, j)]
      BY <3>1, <3>2, ReachAdds
    <3>. QED
      BY <2>4, <3>3
  <2>. QED
    BY <1>4, <2>3, <2>4
<1>9. NextCloser(v, ls)
  <2>1. \A i, j \in NodeSet :
          /\ i # j /\ C(i, j) = Dim => NextOf(t, i, j) = Nil
          /\ C(i, j) = 1 /\ C(i, j) < Dim => NextOf(t, i, j) = j /\ <<i, j>> \in ls
          /\ 1 < C(i, j) /\ C(i, j) < Dim =>
                /\ NextOf(t, i, j) \in NodeSet \ {i, j}
                /\ C(i, NextOf(t, i, j)) + C(NextOf(t, i, j), j) <= C(i, j)
    BY DEF RelaxInv, NextCloser, C
  <2>2. ASSUME NEW i \in NodeSet, NEW j \in NodeSet
        PROVE  /\ i # j /\ D(i, j) = Dim => NextOf(v, i, j) = Nil
               /\ D(i, j) = 1 /\ D(i, j) < Dim => NextOf(v, i, j) = j /\ <<i, j>> \in ls
               /\ 1 < D(i, j) /\ D(i, j) < Dim =>
                     /\ NextOf(v, i, j) \in NodeSet \ {i, j}
                     /\ D(i, NextOf(v, i, j)) + D(NextOf(v, i, j), j) <= D(i, j)
    <3>1. CASE C(i, m) + C(m, j) < C(i, j)
      <4>1. D(i, j) = C(i, m) + C(m, j) /\ NextOf(v, i, j) = m
        BY <1>1, <3>1
      <4>0. /\ C(i, j) \in 0..Dim /\ C(i, m) \in Nat /\ C(m, j) \in Nat
            /\ (C(i, j) = 0 <=> i = j) /\ (C(i, m) = 0 <=> i = m) /\ (C(m, j) = 0 <=> m = j)
        BY <1>2, <1>4
      <4>2. i # m /\ j # m /\ i # j
        <5>1. i # m
          BY <1>0, <3>1, <4>0
        <5>2. j # m
          BY <1>0, <3>1, <4>0
        <5>3. i # j
          BY <1>0, <3>1, <4>0
        <5>. QED
          BY <5>1, <5>2, <5>3
      <4>3. C(i, m) > 0 /\ C(m, j) > 0 /\ D(i, j) < Dim /\ D(i, j) > 1
        BY <1>0, <3>1, <4>0, <4>1, <4>2
      <4>4. D(i, m) = C(i, m) /\ D(m, j) = C(m, j)
        BY <1>5
      <4>. QED
        BY <1>4, <4>1, <4>2, <4>3, <4>4
    <3>2. CASE ~ (C(i, m) + C(m, j) < C(i, j))
      <4>1. D(i, j) = C(i, j) /\ NextOf(v, i, j) = NextOf(t, i, j)
        BY <1>1, <3>2
      <4>2. ASSUME 1 < C(i, j), C(i, j) < Dim
            PROVE  /\ NextOf(t, i, j) \in NodeSet \ {i, j}
                   /\ D(i, NextOf(t, i, j)) + D(NextOf(t, i, j), j) <= C(i, j)
        <5>. DEFINE n == NextOf(t, i, j)
        <5>1. n \in NodeSet \ {i, j} /\ C(i, n) + C(n, j) <= C(i, j)
          BY <2>1, <4>2
        <5>. HIDE DEF n
        <5>2. D(i, n) <= C(i, n) /\ D(n, j) <= C(n, j) /\ C(i, n) \in Nat /\ C(n, j) \in Nat
              /\ D(i, n) \in Nat /\ D(n, j) \in Nat /\ C(i, j) \in Nat
          BY <1>4, <5>1
        <5>3. D(i, n) + D(n, j) <= C(i, j)
          BY <5>1, <5>2
        <5>. QED
          BY <5>1, <5>3 DEF n
      <4>. QED
        BY <2>1, <4>1, <4>2
    <3>. QED
      BY <3>1, <3>2
  <2>. QED
    BY <2>2 DEF NextCloser, D
<1>. QED
  BY <1>1, <1>6, <1>7, <1>8, <1>9 DEF RelaxInv, v

\* Once there is no shorter detour over any node, the costs are the distances.
LEMMA DistanceExact ==
    ASSUME NEW t, NEW ls \in SUBSET Links, RelaxInv(t, ls, NodeSet),
           NEW i \in NodeSet, NEW j \in NodeSet
    PROVE  Distance(ls, i, j) = Cost(t, i, j)
<1>. DEFINE C(n) == Cost(t, i, n)
            reach == Reach(ls, i)
            hops == {h \in 0..(Dim - 1) : j \in reach[h]}
            T == {h \in 0..Dim : \A n \in NodeSet : n \in reach[h] => C(n) <= h}
<1>0. Dim \in Nat \ {0}
  BY NodesExact
<1>1. /\ reach[0] = {i}
      /\ \A h \in 1..Dim : \A n :
            n \in reach[h] <=> \/ n \in reach[h-1]
                               \/ \E l \in ls : l[1] \in reach[h-1] /\ l[2] = n
  BY ReachSteps, Zenon
<1>2. \A n \in NodeSet : C(n) \in 0..Dim /\ (C(n) = 0 <=> i = n)
  BY DEF RelaxInv, CostsExact
<1>3. ASSUME NEW l \in ls  PROVE l[1] \in NodeSet /\ l[2] \in NodeSet /\ C(l[2]) <= C(l[1]) + 1
  <2>1. l[1] \in NodeSet /\ l[2] \in NodeSet /\ <<l[1], l[2]>> \in ls
    BY DEF Links
  <2>2. Cost(t, l[1], l[2]) \in {0, 1}
    BY <2>1 DEF RelaxInv, CostsExact
  <2>3. Cost(t, i, l[2]) <= Cost(t, i, l[1]) + Cost(t, l[1], l[2])
    BY <2>1 DEF RelaxInv, NoDetour
  <2>4. C(l[1]) \in Nat /\ C(l[2]) \in Nat
    BY <1>0, <1>2, <2>1
  <2>. QED
    BY <2>1, <2>2, <2>3, <2>4
<1>4. j \in NodeSet /\ (C(j) < Dim => j \in reach[C(j)])
  BY DEF RelaxInv, Reached
<1>5. Distance(ls, i, j) = IF hops = {} THEN Dim ELSE CHOOSE h \in hops : \A g \in hops : h <= g
  BY DEF Distance
<1>. HIDE DEF C, reach
<1>6. 0 \in T
  BY <1>0, <1>1, <1>2
<1>7. ASSUME NEW h \in 1..Dim, h - 1 \in T  PROVE h \in T
  <2>0. h \in 0..Dim /\ h \in Nat /\ h - 1 \in Nat
    BY <1>0
  <2>1. ASSUME NEW n \in NodeSet, n \in reach[h]  PROVE C(n) <= h
    <3>1. CASE n \in reach[h-1]
      <4>1. C(n) <= h - 1 /\ C(n) \in 0..Dim
        BY <1>2, <1>7, <3>1
      <4>. QED
        BY <1>0, <2>0, <4>1
    <3>2. CASE \E l \in ls : l[1] \in reach[h-1] /\ l[2] = n
      <4>1. PICK l \in ls : l[1] \in reach[h-1] /\ l[2] = n
        BY <3>2
      <4>2. C(l[1]) <= h - 1 /\ C(n) <= C(l[1]) + 1
        BY <1>3, <1>7, <4>1
      <4>3. C(l[1]) \in 0..Dim /\ C(n) \in 0..Dim
        BY <1>2, <1>3
      <4>. QED
        BY <1>0, <2>0, <4>2, <4>3
    <3>. QED
      BY <1>1, <2>1, <3>1, <3>2
  <2>. QED
    BY <2>0, <2>1
<1>. HIDE DEF T
<1>8. 0..Dim \subseteq T
  BY <1>0, <1>6, <1>7, Upwards
<1>9. ASSUME NEW h \in hops  PROVE C(j) <= h /\ h \in 0..(Dim - 1)
  <2>1. h \in 0..Dim /\ j \in reach[h] /\ h \in 0..(Dim - 1)
    BY <1>0
  <2>2. h \in T
    BY <1>8, <2>1
  <2>. QED
    BY <1>4, <2>1, <2>2 DEF T
<1>10. C(j) \in 0..Dim
  BY <1>2, <1>4
<1>11. CASE C(j) = Dim
  <2>1. hops = {}
    <3>1. \A h \in hops : FALSE
      BY <1>0, <1>9, <1>11
    <3>. QED
      BY <3>1
  <2>. QED
    BY <1>5, <1>11, <2>1 DEF C
<1>12. CASE C(j) # Dim
  <2>1. C(j) \in hops
    BY <1>0, <1>4, <1>10, <1>12
  <2>2. \A h \in hops : C(j) <= h
    BY <1>9
  <2>3. \A h \in hops : h \in Nat
    BY <1>0, <1>9
  <2>. HIDE DEF hops
  <2>. DEFINE d == CHOOSE h \in hops : \A g \in hops : h <= g
  <2>4. d \in hops /\ \A g \in hops : d <= g
    BY <2>1, <2>2
  <2>. HIDE DEF d
  <2>5. d <= C(j) /\ C(j) <= d /\ d \in Nat /\ C(j) \in Nat
    BY <2>1, <2>2, <2>3, <2>4
  <2>6. d = C(j)
    BY <2>5
  <2>. QED
    BY <1>5, <2>1, <2>6 DEF d, C
<1>. QED
  BY <1>11, <1>12

\* "Follow path" ends, and at a neighbour one hop closer to the destination.
LEMMA FirstHopExact ==
    ASSUME NEW t, NEW ls \in SUBSET Links, RelaxInv(t, ls, NodeSet),
           NEW i \in NodeSet, NEW j \in NodeSet, i # j, Cost(t, i, j) < Dim
    PROVE  /\ FirstHop(t, i, j) \in NodeSet /\ <<i, FirstHop(t, i, j)>> \in ls
           /\ Cost(t, FirstHop(t, i, j), j) = Cost(t, i, j) - 1
<1>. DEFINE C(x, y) == Cost(t, x, y)
            Back(n) == IF t[<<i, n>>].cost <= 1 THEN n ELSE t[<<i, n>>].next
            V == {n \in NodeSet \ {i} : C(i, n) + C(n, j) = C(i, j)}
            step == [n \in V |-> Back(n)]
            start == t[<<i, j>>].next
            node == FollowPath(t, i, j)
            Eq(f) == f = [h \in 0..Dim |->
                            IF h = 0 THEN t[<<i, j>>].next
                            ELSE IF t[<<i, f[h-1]>>].cost <= 1 THEN f[h-1] ELSE t[<<i, f[h-1]>>].next]
<1>0. Dim \in Nat \ {0} /\ Dim > 1
  BY NodesExact, ManyNodes
<1>1. \A x, y \in NodeSet : C(x, y) \in Nat /\ C(x, y) <= Dim /\ (C(x, y) = 0 <=> x = y)
  <2>1. \A x, y \in NodeSet : C(x, y) \in 0..Dim /\ (C(x, y) = 0 <=> x = y)
    BY DEF RelaxInv, CostsExact
  <2>. HIDE DEF C
  <2>. QED
    BY <1>0, <2>1
<1>2. \A x, y, n \in NodeSet : C(x, y) <= C(x, n) + C(n, y)
  BY DEF RelaxInv, NoDetour
<1>3. \A y \in NodeSet :
        /\ C(i, y) = 1 => t[<<i, y>>].next = y /\ <<i, y>> \in ls
        /\ 1 < C(i, y) /\ C(i, y) < Dim =>
              /\ t[<<i, y>>].next \in NodeSet \ {i, y}
              /\ C(i, t[<<i, y>>].next) + C(t[<<i, y>>].next, y) <= C(i, y)
  BY <1>0 DEF RelaxInv, NextCloser, NextOf
<1>4. \A n \in NodeSet \ {i} : t[<<i, n>>].cost = C(i, n)
  BY DEF Cost
<1>5. C(i, j) < Dim
  OBVIOUS
<1>. HIDE DEF C
<1>6. ASSUME NEW y \in NodeSet, y # i, C(i, y) + C(y, j) = C(i, j), 1 < C(i, y)
      PROVE  t[<<i, y>>].next \in V /\ C(i, t[<<i, y>>].next) < C(i, y)
  <2>. DEFINE n == t[<<i, y>>].next
  <2>1. C(i, y) \in Nat /\ C(y, j) \in Nat /\ C(i, j) \in Nat /\ C(i, y) < Dim
    BY <1>0, <1>1, <1>5, <1>6
  <2>2. n \in NodeSet \ {i, y} /\ C(i, n) + C(n, y) <= C(i, y)
    BY <1>3, <1>6, <2>1
  <2>. HIDE DEF n
  <2>3. C(i, n) \in Nat /\ C(n, y) \in Nat /\ C(n, j) \in Nat /\ C(n, y) # 0
    BY <1>1, <2>2
  <2>4. C(n, j) <= C(n, y) + C(y, j) /\ C(i, j) <= C(i, n) + C(n, j)
    BY <1>2, <2>2
  <2>5. C(i, n) < C(i, y) /\ C(i, n) + C(n, j) = C(i, j)
    BY <1>6, <2>1, <2>2, <2>3, <2>4
  <2>. QED
    BY <2>2, <2>5 DEF n
<1>7. start \in V /\ (C(i, start) <= 1 \/ C(i, start) <= Dim)
  <2>1. C(j, j) = 0 /\ C(i, j) \in Nat /\ C(i, j) # 0
    BY <1>1
  <2>2. C(i, j) + C(j, j) = C(i, j)
    BY <2>1
  <2>3. CASE C(i, j) = 1
    <3>1. start = j
      BY <1>3, <2>3
    <3>. QED
      BY <2>2, <2>3, <3>1
  <2>4. CASE C(i, j) > 1
    <3>1. start \in V
      BY <1>6, <2>2, <2>4
    <3>. QED
      BY <1>1, <3>1
  <2>. QED
    BY <2>1, <2>3, <2>4
<1>8. ASSUME NEW n \in V
      PROVE  /\ Back(n) \in V
             /\ (Back(n) = n /\ C(i, n) <= 1) \/ C(i, Back(n)) < C(i, n)
  <2>1. n \in NodeSet /\ n # i /\ C(i, n) + C(n, j) = C(i, j) /\ C(i, n) \in Nat
    BY <1>1
  <2>2. CASE C(i, n) <= 1
    BY <1>4, <2>1, <2>2
  <2>3. CASE ~ (C(i, n) <= 1)
    <3>1. Back(n) = t[<<i, n>>].next /\ 1 < C(i, n)
      BY <1>4, <2>1, <2>3
    <3>2. t[<<i, n>>].next \in V /\ C(i, t[<<i, n>>].next) < C(i, n)
      BY <1>6, <2>1, <3>1
    <3>. HIDE DEF Back, V
    <3>. QED
      BY <3>1, <3>2
  <2>. QED
    BY <2>2, <2>3
<1>9. step \in [V -> V] /\ \A n \in V : step[n] = Back(n)
  <2>. HIDE DEF V, Back
  <2>. QED
    BY <1>8
<1>10. \A n \in V : n \in NodeSet /\ n # i /\ C(i, n) + C(n, j) = C(i, j)
  OBVIOUS
<1>. HIDE DEF V, step, start
<1>11. PICK g : Iterates(V, start, Dim, step, g)
  BY <1>0, <1>7, <1>9, IterationExists
<1>12. /\ g \in [0..Dim -> V] /\ g[0] = start
       /\ \A h \in 1..Dim : h \in 0..Dim /\ h - 1 \in 0..Dim /\ g[h] = Back(g[h-1])
  <2>1. \A h \in 1..Dim : h \in 0..Dim /\ h - 1 \in 0..Dim
    BY <1>0
  <2>. HIDE DEF Back
  <2>. QED
    BY <1>9, <1>11, <2>1 DEF Iterates
<1>13. Eq(g)
  BY <1>0, <1>12 DEF start
<1>14. Eq(node)
  BY <1>13 DEF FollowPath
<1>. HIDE DEF node
<1>15. node[0] = start /\ \A h \in 1..Dim : node[h] = Back(node[h-1])
  <2>1. 0 \in 0..Dim /\ \A h \in 1..Dim : h \in 0..Dim /\ h # 0
    BY <1>0
  <2>. QED
    BY <1>14, <2>1 DEF start
<1>16. FirstHop(t, i, j) = node[Dim]
  BY DEF FirstHop, node
<1>. DEFINE T == {h \in 0..Dim : /\ node[h] \in V
                                 /\ C(i, node[h]) <= 1 \/ C(i, node[h]) <= Dim - h}
<1>17. 0 \in T
  <2>1. C(i, start) <= 1 \/ C(i, start) <= Dim - 0
    BY <1>0, <1>7
  <2>. QED
    BY <1>0, <1>7, <1>15, <2>1
<1>18. ASSUME NEW h \in 1..Dim, h - 1 \in T  PROVE h \in T
  <2>. DEFINE n == node[h-1]
  <2>1. n \in V /\ (C(i, n) <= 1 \/ C(i, n) <= Dim - (h - 1)) /\ node[h] = Back(n)
    BY <1>15, <1>18
  <2>. HIDE DEF n, Back
  <2>2. node[h] \in V /\ ((node[h] = n /\ C(i, n) <= 1) \/ C(i, node[h]) < C(i, n))
    BY <1>8, <2>1
  <2>3. C(i, n) \in Nat /\ C(i, node[h]) \in Nat
    BY <1>1, <1>10, <2>1, <2>2
  <2>4. C(i, node[h]) <= 1 \/ C(i, node[h]) <= Dim - h
    BY <1>0, <2>1, <2>2, <2>3
  <2>. QED
    BY <1>12, <2>2, <2>4
<1>. HIDE DEF T, Back
<1>19. Dim \in T
  BY <1>0, <1>17, <1>18, Upwards
<1>. DEFINE f == node[Dim]
<1>20. f \in V /\ (C(i, f) <= 1 \/ C(i, f) <= Dim - Dim)
  BY <1>19 DEF T
<1>. HIDE DEF f
<1>21. /\ f \in NodeSet /\ f # i /\ C(i, f) + C(f, j) = C(i, j)
       /\ C(i, f) \in Nat /\ C(f, j) \in Nat /\ C(i, j) \in Nat /\ C(i, f) # 0
  BY <1>1, <1>10, <1>20
<1>22. C(i, f) = 1 /\ C(f, j) = C(i, j) - 1
  BY <1>0, <1>20, <1>21
<1>. QED
  BY <1>3, <1>16, <1>21, <1>22 DEF C, f

\* What net_routing_table_floyd_warshall leaves in the table.
Routed(t, ls) ==
    \A i, j \in NodeSet :
        /\ Cost(t, i, j) = Distance(ls, i, j)
        /\ Cost(t, i, j) \in 0..Dim /\ (Cost(t, i, j) = 0 <=> i = j)
        /\ i # j => IF Cost(t, i, j) = Dim
                    THEN t[<<i, j>>].out = Nil
                    ELSE /\ NextOf(t, i, j) \in NodeSet
                         /\ t[<<i, j>>].out = <<i, NextOf(t, i, j)>> /\ t[<<i, j>>].out \in ls
                         /\ Cost(t, NextOf(t, i, j), j) = Cost(t, i, j) - 1

\* The table with its output buffers, as in action Outputs.
OutputTable(t) ==
    [p \in NodeSet \X NodeSet |->
        IF t[p].next = Nil
        THEN [t[p] EXCEPT !.out = Nil]
        ELSE LET n == FirstHop(t, p[1], p[2])
             IN  [t[p] EXCEPT !.out = <<p[1], n>>, !.next = n]]

\* "Follow path" ends at once where a node is linked to itself.
LEMMA SelfHop ==
    ASSUME NEW t, NEW i \in NodeSet, t[<<i, i>>].cost = 1, t[<<i, i>>].next = i
    PROVE  FirstHop(t, i, i) = i
<1>. DEFINE g == [h \in 0..Dim |-> i]
            node == FollowPath(t, i, i)
            Eq(f) == f = [h \in 0..Dim |->
                            IF h = 0 THEN t[<<i, i>>].next
                            ELSE IF t[<<i, f[h-1]>>].cost <= 1 THEN f[h-1] ELSE t[<<i, f[h-1]>>].next]
<1>0. Dim \in Nat
  BY NodesExact
<1>1. \A h \in 0..Dim : h # 0 => h - 1 \in 0..Dim
  BY <1>0
<1>2. Eq(g)
  BY <1>0, <1>1
<1>3. Eq(node)
  BY <1>2 DEF FollowPath
<1>. HIDE DEF node
<1>. DEFINE T == {h \in 0..Dim : node[h] = i}
<1>4. 0 \in T
  BY <1>0, <1>3
<1>5. ASSUME NEW h \in 1..Dim, h - 1 \in T  PROVE h \in T
  BY <1>0, <1>3, <1>5
<1>. HIDE DEF T
<1>6. Dim \in T
  BY <1>0, <1>4, <1>5, Upwards
<1>. QED
  BY <1>6 DEF T, FirstHop, node

LEMMA OutputsExact ==
    ASSUME NEW t, NEW ls \in SUBSET Links, RelaxInv(t, ls, NodeSet)
    PROVE  /\ TableType(OutputTable(t), ls) /\ OnLinks(OutputTable(t), ls)
           /\ Routed(OutputTable(t), ls)
<1>. DEFINE u == OutputTable(t)
<1>. HIDE DEF u
<1>0. Dim \in Nat \ {0} /\ Nil \notin NodeSet /\ Nil \notin ls
  BY NodesExact DEF Links
<1>1. ASSUME NEW p \in NodeSet \X NodeSet
      PROVE  /\ p = <<p[1], p[2]>> /\ p[1] \in NodeSet /\ p[2] \in NodeSet
             /\ t[p] \in Entry(ls) /\ t[p].next = NextOf(t, p[1], p[2])
             /\ p[1] # p[2] => (t[p].next = Nil <=> Cost(t, p[1], p[2]) = Dim)
             /\ p[1] = p[2] /\ t[p].next # Nil => p \in ls /\ t[p].cost = 1 /\ t[p].next = p[1]
  <2>1. p = <<p[1], p[2]>> /\ p[1] \in NodeSet /\ p[2] \in NodeSet
    OBVIOUS
  <2>2. t[p].next = NextOf(t, p[1], p[2])
    BY <2>1 DEF NextOf
  <2>3. t[p] \in Entry(ls)
    BY DEF RelaxInv, TableType
  <2>. DEFINE c == Cost(t, p[1], p[2])
              n == NextOf(t, p[1], p[2])
  <2>4. c \in 0..Dim /\ (c = 0 <=> p[1] = p[2])
    BY <2>1 DEF RelaxInv, CostsExact
  <2>5. /\ p[1] # p[2] /\ c = Dim => n = Nil
        /\ c = 1 /\ c < Dim => n = p[2]
        /\ 1 < c /\ c < Dim => n \in NodeSet
    BY <2>1 DEF RelaxInv, NextCloser
  <2>7. p[1] = p[2] /\ t[p].next # Nil => p \in ls /\ t[p].cost = 1 /\ t[p].next = p[1]
    BY <2>1 DEF RelaxInv, Diagonal
  <2>. HIDE DEF c, n
  <2>6. p[1] # p[2] => (n = Nil <=> c = Dim)
    BY <1>0, <2>1, <2>4, <2>5
  <2>. QED
    BY <2>1, <2>2, <2>3, <2>6, <2>7 DEF c, n
<1>2. ASSUME NEW p \in NodeSet \X NodeSet
      PROVE  /\ u[p] \in Entry(ls) /\ u[p].cost = t[p].cost
             /\ t[p].next = Nil => u[p].out = Nil /\ u[p].next = Nil
             /\ t[p].next # Nil =>
                   /\ u[p].next \in NodeSet /\ u[p].out = <<p[1], u[p].next>> /\ u[p].out \in ls
                   /\ p[1] # p[2] => Cost(t, u[p].next, p[2]) = Cost(t, p[1], p[2]) - 1
  <2>1. CASE t[p].next = Nil
    <3>1. u[p] = [t[p] EXCEPT !.out = Nil]
      BY <2>1 DEF u, OutputTable
    <3>2. t[p] \in Entry(ls)
      BY <1>1
    <3>. QED
      BY <2>1, <3>1, <3>2 DEF Entry
  <2>3. CASE t[p].next # Nil /\ p[1] = p[2]
    <3>1. /\ p = <<p[1], p[1]>> /\ p \in ls /\ t[p].cost = 1 /\ t[p].next = p[1]
          /\ p[1] \in NodeSet /\ t[p] \in Entry(ls)
      BY <1>1, <2>3
    <3>2. FirstHop(t, p[1], p[2]) = p[1]
      BY <2>3, <3>1, SelfHop
    <3>3. u[p] = [t[p] EXCEPT !.out = <<p[1], p[1]>>, !.next = p[1]]
      BY <2>3, <3>2 DEF u, OutputTable
    <3>. QED
      BY <2>3, <3>1, <3>3 DEF Entry
  <2>2. CASE t[p].next # Nil /\ p[1] # p[2]
    <3>. DEFINE n == FirstHop(t, p[1], p[2])
    <3>1. u[p] = [t[p] EXCEPT !.out = <<p[1], n>>, !.next = n]
      BY <2>2 DEF u, OutputTable
    <3>2. /\ p[1] \in NodeSet /\ p[2] \in NodeSet /\ p[1] # p[2] /\ Cost(t, p[1], p[2]) # Dim
          /\ t[p] \in Entry(ls)
      BY <1>1, <2>2
    <3>3. Cost(t, p[1], p[2]) < Dim
      <4>1. Cost(t, p[1], p[2]) \in 0..Dim
        BY <3>2 DEF RelaxInv, CostsExact
      <4>. QED
        BY <1>0, <3>2, <4>1
    <3>4. n \in NodeSet /\ <<p[1], n>> \in ls /\ Cost(t, n, p[2]) = Cost(t, p[1], p[2]) - 1
      BY <3>2, <3>3, FirstHopExact
    <3>. HIDE DEF n
    <3>. QED
      BY <2>2, <3>1, <3>2, <3>4 DEF Entry
  <2>. QED
    BY <2>1, <2>2, <2>3
<1>3. TableType(u, ls)
  <2>1. u = [p \in NodeSet \X NodeSet |-> u[p]]
    BY DEF u, OutputTable
  <2>. QED
    BY <1>2, <2>1 DEF TableType
<1>4. OnLinks(u, ls)
  <2>1. ASSUME NEW p \in NodeSet \X NodeSet, u[p].out # Nil
        PROVE  u[p].out \in ls /\ u[p].out[1] = p[1] /\ u[p].out[2] = u[p].next
    <3>1. /\ u[p].out = <<p[1], u[p].next>> /\ u[p].out \in ls
      BY <1>2, <2>1
    <3>. QED
      BY <3>1
  <2>. QED
    BY <2>1 DEF OnLinks
<1>5. Routed(u, ls)
  <2>1. \A i, j \in NodeSet : Cost(u, i, j) = Cost(t, i, j)
    <3>1. ASSUME NEW i \in NodeSet, NEW j \in NodeSet  PROVE u[<<i, j>>].cost = t[<<i, j>>].cost
      <4>1. <<i, j>> \in NodeSet \X NodeSet
        OBVIOUS
      <4>. QED
        BY <1>2, <4>1
    <3>. QED
      BY <3>1 DEF Cost
  <2>2. ASSUME NEW i \in NodeSet, NEW j \in NodeSet
        PROVE  /\ Cost(u, i, j) = Distance(ls, i, j)
               /\ Cost(u, i, j) \in 0..Dim /\ (Cost(u, i, j) = 0 <=> i = j)
               /\ i # j => IF Cost(u, i, j) = Dim
                           THEN u[<<i, j>>].out = Nil
                           ELSE /\ NextOf(u, i, j) \in NodeSet
                                /\ u[<<i, j>>].out = <<i, NextOf(u, i, j)>> /\ u[<<i, j>>].out \in ls
                                /\ Cost(u, NextOf(u, i, j), j) = Cost(u, i, j) - 1
    <3>. DEFINE p == <<i, j>>
                n == u[p].next
    <3>1. p \in NodeSet \X NodeSet /\ p[1] = i /\ p[2] = j
      OBVIOUS
    <3>2. Cost(t, i, j) \in 0..Dim /\ (Cost(t, i, j) = 0 <=> i = j)
      BY DEF RelaxInv, CostsExact
    <3>3. i # j => (t[p].next = Nil <=> Cost(t, i, j) = Dim)
      BY <1>1, <3>1
    <3>4. /\ t[p].next = Nil => u[p].out = Nil
          /\ t[p].next # Nil => /\ n \in NodeSet /\ u[p].out = <<i, n>> /\ u[p].out \in ls
                                /\ i # j => Cost(t, n, j) = Cost(t, i, j) - 1
      BY <1>2, <3>1
    <3>5. Cost(t, i, j) = Distance(ls, i, j)
      BY DistanceExact
    <3>6. NextOf(u, i, j) = n
      BY DEF NextOf
    <3>. HIDE DEF p, n
    <3>7. i # j => IF Cost(t, i, j) = Dim
                   THEN u[p].out = Nil
                   ELSE /\ n \in NodeSet
                        /\ u[p].out = <<i, n>> /\ u[p].out \in ls
                        /\ Cost(u, n, j) = Cost(u, i, j) - 1
      BY <2>1, <3>3, <3>4
    <3>. QED
      BY <2>1, <3>2, <3>5, <3>6, <3>7 DEF p
  <2>. QED
    BY <2>2 DEF Routed
<1>. QED
  BY <1>3, <1>4, <1>5 DEF u

-----------------------------------------------------------------------------
(* Following the table *)

LEMMA HopSteps ==
    ASSUME NEW t, NEW ls, TableType(t, ls), NEW i \in NodeSet, NEW j \in NodeSet
    PROVE  /\ Hop(t, i, j) \in [0..Dim -> NodeSet \cup {Nil}] /\ Hop(t, i, j)[0] = i
           /\ \A h \in 1..Dim :
                 Hop(t, i, j)[h] =
                     IF Hop(t, i, j)[h-1] \in {j, Nil} THEN Hop(t, i, j)[h-1]
                     ELSE IF t[<<Hop(t, i, j)[h-1], j>>].out = Nil THEN Nil
                     ELSE t[<<Hop(t, i, j)[h-1], j>>].next
<1>. DEFINE V == NodeSet \cup {Nil}
            Go(n) == IF n \in {j, Nil} THEN n
                     ELSE IF t[<<n, j>>].out = Nil THEN Nil ELSE t[<<n, j>>].next
            step == [n \in V |-> Go(n)]
            at == Hop(t, i, j)
            Eq(f) == f = [h \in 0..Dim |->
                            IF h = 0 THEN i
                            ELSE IF f[h-1] \in {j, Nil} THEN f[h-1]
                            ELSE IF t[<<f[h-1], j>>].out = Nil THEN Nil ELSE t[<<f[h-1], j>>].next]
<1>0. Dim \in Nat /\ i \in V
  BY NodesExact
<1>1. ASSUME NEW n \in V  PROVE Go(n) \in V
  <2>1. CASE n \in NodeSet
    <3>1. t[<<n, j>>].next \in V
      BY <2>1 DEF TableType, Entry
    <3>. QED
      BY <2>1, <3>1
  <2>2. CASE n = Nil
    BY <2>2
  <2>. QED
    BY <2>1, <2>2
<1>2. step \in [V -> V] /\ \A n \in V : step[n] = Go(n)
  <2>. HIDE DEF V, Go
  <2>. QED
    BY <1>1
<1>. HIDE DEF V, step
<1>3. PICK g : Iterates(V, i, Dim, step, g)
  BY <1>0, <1>2, IterationExists
<1>4. /\ g \in [0..Dim -> V] /\ g[0] = i
      /\ \A h \in 1..Dim : h \in 0..Dim /\ h - 1 \in 0..Dim /\ g[h] = Go(g[h-1])
  <2>1. \A h \in 1..Dim : h \in 0..Dim /\ h - 1 \in 0..Dim
    BY <1>0
  <2>. HIDE DEF Go
  <2>. QED
    BY <1>2, <1>3, <2>1 DEF Iterates
<1>5. Eq(g)
  BY <1>0, <1>4
<1>6. Eq(at)
  BY <1>5 DEF Hop
<1>. HIDE DEF at
<1>7. at[0] = i /\ \A h \in 1..Dim : at[h] = Go(at[h-1])
  <2>1. 0 \in 0..Dim /\ \A h \in 1..Dim : h \in 0..Dim /\ h # 0
    BY <1>0
  <2>. QED
    BY <1>6, <2>1
<1>8. at = [h \in 0..Dim |-> at[h]]
  BY <1>6
<1>. DEFINE T == {h \in 0..Dim : at[h] \in V}
<1>. HIDE DEF Go
<1>9. 0 \in T
  BY <1>0, <1>7
<1>10. ASSUME NEW h \in 1..Dim, h - 1 \in T  PROVE h \in T
  BY <1>1, <1>4, <1>7, <1>10
<1>. HIDE DEF T
<1>11. 0..Dim \subseteq T
  BY <1>0, <1>9, <1>10, Upwards
<1>12. at \in [0..Dim -> V]
  BY <1>8, <1>11 DEF T
<1>. QED
  BY <1>7, <1>12 DEF at, V, Go

\* A routed table leads to the destination, in as many hops as it says.
LEMMA HopArrives ==
    ASSUME NEW t, NEW ls \in SUBSET Links, TableType(t, ls), Routed(t, ls),
           NEW i \in NodeSet, NEW j \in NodeSet, Cost(t, i, j) < Dim
    PROVE  Hop(t, i, j)[Cost(t, i, j)] = j
<1>. DEFINE d == Cost(t, i, j)
            at == Hop(t, i, j)
            T == {h \in 0..d : at[h] \in NodeSet /\ Cost(t, at[h], j) = d - h}
<1>0. Dim \in Nat \ {0} /\ Nil \notin NodeSet /\ Nil \notin ls
  BY NodesExact DEF Links
<1>1. \A n \in NodeSet : Cost(t, n, j) \in 0..Dim /\ (Cost(t, n, j) = 0 <=> n = j)
  BY DEF Routed
<1>2. \A n \in NodeSet : n # j /\ Cost(t, n, j) # Dim =>
          /\ t[<<n, j>>].next \in NodeSet /\ t[<<n, j>>].out \in ls
          /\ Cost(t, t[<<n, j>>].next, j) = Cost(t, n, j) - 1
  BY DEF Routed, NextOf
<1>3. /\ at[0] = i
      /\ \A h \in 1..Dim :
            at[h] = IF at[h-1] \in {j, Nil} THEN at[h-1]
                    ELSE IF t[<<at[h-1], j>>].out = Nil THEN Nil ELSE t[<<at[h-1], j>>].next
  BY HopSteps
<1>4. d \in Nat /\ d < Dim
  BY <1>0, <1>1
<1>. HIDE DEF at
<1>5. 0 \in T
  BY <1>3, <1>4
<1>6. ASSUME NEW h \in 1..d, h - 1 \in T  PROVE h \in T
  <2>. DEFINE n == at[h-1]
  <2>1. n \in NodeSet /\ Cost(t, n, j) = d - (h - 1) /\ h \in 1..Dim
    BY <1>0, <1>4, <1>6
  <2>2. n # j /\ n # Nil /\ Cost(t, n, j) # Dim
    BY <1>0, <1>1, <1>4, <2>1
  <2>3. at[h] = t[<<n, j>>].next
    BY <1>0, <1>2, <1>3, <2>1, <2>2
  <2>4. at[h] \in NodeSet /\ Cost(t, at[h], j) = Cost(t, n, j) - 1
    BY <1>2, <2>1, <2>2, <2>3
  <2>5. Cost(t, at[h], j) = d - h
    BY <1>4, <2>1, <2>4
  <2>. QED
    BY <2>4, <2>5
<1>. HIDE DEF T, d
<1>7. d \in T
  BY <1>4, <1>5, <1>6, Upwards
<1>8. at[d] \in NodeSet /\ Cost(t, at[d], j) = 0
  BY <1>4, <1>7 DEF T
<1>. QED
  BY <1>1, <1>8 DEF at, d

LEMMA FewNodes ==
    /\ IsFiniteSet(NodeSet) /\ Cardinality(NodeSet) <= Dim
    /\ \A ls \in SUBSET Links : IsFiniteSet(ls)
<1>. DEFINE f == [x \in 1..Dim |-> Nodes[x]]
<1>0. Dim \in Nat
  BY NodesExact
<1>1. f \in Surjection(1..Dim, NodeSet)
  BY NodesExact DEF Surjection
<1>. HIDE DEF f
<1>2. IsFiniteSet(1..Dim) /\ Cardinality(1..Dim) = Dim
  BY <1>0, FS_Interval
<1>3. IsFiniteSet(NodeSet) /\ Cardinality(NodeSet) <= Dim
  BY <1>1, <1>2, FS_Surjection
<1>4. IsFiniteSet(NodeSet \X NodeSet)
  BY <1>3, FS_Product
<1>5. ASSUME NEW ls \in SUBSET Links  PROVE IsFiniteSet(ls)
  <2>1. ls \in SUBSET (NodeSet \X NodeSet)
    BY DEF Links
  <2>. QED
    BY <1>4, <2>1, FS_Subset
<1>. QED
  BY <1>3, <1>5

\* Where buffers do not wait for each other, a message that neither arrives nor
\* comes to a link of a node to itself would visit some node twice, and the
\* buffers on the way would.
LEMMA NoCycleNoLoop ==
    ASSUME NEW t, NEW ls \in SUBSET Links, TableType(t, ls), OnLinks(t, ls),
           ~ \E S : Closed(t, ls, S), NEW i \in NodeSet, NEW j \in NodeSet
    PROVE  \/ Hop(t, i, j)[Dim] \in {j, Nil}
           \/ t[<<Hop(t, i, j)[Dim], j>>].out = <<Hop(t, i, j)[Dim], Hop(t, i, j)[Dim]>>
<1>. DEFINE at == Hop(t, i, j)
            Out(n) == t[<<n, j>>].out
            Stops(h) == at[h] \in {j, Nil} \/ Out(at[h]) = <<at[h], at[h]>>
<1>0. Dim \in Nat \ {0} /\ Nil \notin NodeSet /\ Nil \notin ls
  BY NodesExact DEF Links
<1>1. /\ at \in [0..Dim -> NodeSet \cup {Nil}]
      /\ \A h \in 1..Dim :
            at[h] = IF at[h-1] \in {j, Nil} THEN at[h-1]
                    ELSE IF t[<<at[h-1], j>>].out = Nil THEN Nil ELSE t[<<at[h-1], j>>].next
  BY HopSteps
<1>. HIDE DEF at
<1>2. SUFFICES ASSUME ~ Stops(Dim)  PROVE FALSE
  BY DEF at
<1>11. ASSUME NEW h \in 1..Dim, Stops(h-1)  PROVE Stops(h)
  <2>1. CASE at[h-1] \in {j, Nil}
    BY <1>1, <2>1
  <2>2. CASE at[h-1] \notin {j, Nil} /\ Out(at[h-1]) = <<at[h-1], at[h-1]>>
    <3>1. at[h-1] \in NodeSet
      <4>1. h - 1 \in 0..Dim
        BY <1>0
      <4>. QED
        BY <1>1, <2>2, <4>1
    <3>2. <<at[h-1], j>> \in NodeSet \X NodeSet /\ <<at[h-1], at[h-1]>> # Nil
      BY <3>1, NodesExact
    <3>3. t[<<at[h-1], j>>].next = at[h-1]
      BY <2>2, <3>2 DEF OnLinks
    <3>4. at[h] = at[h-1]
      BY <1>1, <2>2, <3>2, <3>3
    <3>. QED
      BY <2>2, <3>4
  <2>. QED
    BY <1>11, <2>1, <2>2
<1>3. ASSUME NEW g \in 0..Dim  PROVE ~ Stops(g)
  <2>. DEFINE T == {h \in 0..Dim : g <= h /\ Stops(g) => Stops(h)}
  <2>1. 0 \in T
    BY <1>0
  <2>2. ASSUME NEW h \in 1..Dim, h - 1 \in T  PROVE h \in T
    <3>1. h \in 0..Dim /\ h - 1 \in 0..Dim
      BY <1>0
    <3>2. Stops(h-1) => Stops(h)
      BY <1>11
    <3>3. g <= h => g = h \/ g <= h - 1
      BY <1>0
    <3>. HIDE DEF Stops
    <3>. QED
      BY <2>2, <3>1, <3>2, <3>3
  <2>. HIDE DEF T
  <2>3. Dim \in T
    BY <1>0, <2>1, <2>2, Upwards
  <2>. QED
    BY <1>0, <1>2, <2>3 DEF T
<1>4. ASSUME NEW h \in 0..Dim
      PROVE  at[h] \in NodeSet /\ at[h] # j /\ Out(at[h]) # <<at[h], at[h]>>
  BY <1>1, <1>3
<1>5. ASSUME NEW h \in 0..(Dim - 1)
      PROVE  /\ Out(at[h]) \in ls /\ Out(at[h])[1] = at[h] /\ Out(at[h])[2] = at[h+1]
             /\ t[<<at[h], j>>].next = at[h+1]
  <2>1. h + 1 \in 1..Dim /\ (h + 1) - 1 = h /\ h \in 0..Dim /\ h + 1 \in 0..Dim
    BY <1>0
  <2>2. at[h] \in NodeSet /\ at[h] \notin {j, Nil} /\ at[h+1] # Nil
    BY <1>0, <1>4, <2>1
  <2>3. at[h+1] = IF at[h] \in {j, Nil} THEN at[h]
                  ELSE IF t[<<at[h], j>>].out = Nil THEN Nil ELSE t[<<at[h], j>>].next
    BY <1>1, <2>1
  <2>4. t[<<at[h], j>>].out # Nil /\ at[h+1] = t[<<at[h], j>>].next
    BY <2>2, <2>3
  <2>5. <<at[h], j>> \in NodeSet \X NodeSet /\ <<at[h], j>>[1] = at[h]
    BY <2>2
  <2>. QED
    BY <2>4, <2>5 DEF OnLinks
<1>6. \E x, y \in 0..Dim : x # y /\ at[x] = at[y]
  <2>1. IsFiniteSet(0..Dim) /\ Cardinality(0..Dim) = Dim + 1
    BY <1>0, FS_Interval
  <2>2. Cardinality(NodeSet) \in Nat
    BY FewNodes, FS_CardinalityType
  <2>3. Cardinality(NodeSet) < Cardinality(0..Dim)
    BY <1>0, <2>1, <2>2, FewNodes
  <2>4. at \in [0..Dim -> NodeSet]
    BY <1>1, <1>4
  <2>. QED
    BY <2>1, <2>3, <2>4, FewNodes, FS_PigeonHole
<1>7. PICK x \in 0..Dim, y \in 0..Dim : x < y /\ at[x] = at[y]
  <2>1. PICK x \in 0..Dim, y \in 0..Dim : x # y /\ at[x] = at[y]
    BY <1>6
  <2>2. x < y \/ y < x
    BY <1>0, <2>1
  <2>. QED
    BY <2>1, <2>2
<1>. DEFINE S == {Out(at[h]) : h \in x..(y - 1)}
<1>8. S \in SUBSET ls /\ S # {}
  <2>1. \A h \in x..(y - 1) : h \in 0..(Dim - 1)
    BY <1>0, <1>7
  <2>2. x \in x..(y - 1)
    BY <1>0, <1>7
  <2>. HIDE DEF Out
  <2>. QED
    BY <1>5, <2>1, <2>2
<1>9. ASSUME NEW b \in S  PROVE \E c \in S : WaitsFor(t, b, c)
  <2>1. PICK h \in x..(y - 1) : b = Out(at[h])
    OBVIOUS
  <2>2. h \in 0..(Dim - 1) /\ h + 1 \in 0..Dim
    BY <1>0, <1>7, <2>1
  <2>3. b[1] = at[h] /\ t[<<at[h], j>>].next = at[h+1]
    BY <1>5, <2>1, <2>2
  <2>5. Out(at[h+1]) \in S
    <3>1. CASE h + 1 = y
      <4>1. at[h+1] = at[x] /\ x \in x..(y - 1)
        BY <1>0, <1>7, <3>1
      <4>. HIDE DEF Out
      <4>. QED
        BY <4>1
    <3>2. CASE h + 1 # y
      <4>1. h + 1 \in x..(y - 1)
        BY <1>0, <1>7, <2>1, <3>2
      <4>. HIDE DEF Out
      <4>. QED
        BY <4>1
    <3>. QED
      BY <3>1, <3>2
  <2>6. Out(at[h+1]) # b
    <3>1. PICK g \in x..(y - 1) : Out(at[h+1]) = Out(at[g])
      BY <2>5
    <3>2. g \in 0..(Dim - 1) /\ h \in 0..Dim
      BY <1>0, <1>7, <2>2, <3>1
    <3>3. Out(at[g])[1] = at[g] /\ b \in ls /\ b[1] = at[h] /\ b[2] = at[h+1]
      BY <1>5, <2>1, <2>2, <3>2
    <3>4. b # <<at[h], at[h]>> /\ Out(at[h+1]) # <<at[h+1], at[h+1]>>
      BY <1>4, <2>1, <2>2, <3>2
    <3>5. b = <<at[h], at[h+1]>>
      BY <3>3 DEF Links
    <3>. HIDE DEF Out, S
    <3>6. SUFFICES ASSUME Out(at[h+1]) = b  PROVE FALSE
      OBVIOUS
    <3>7. Out(at[h+1])[1] = at[h+1]
      <4>1. x \in 0..(Dim - 1) /\ (h + 1 = y \/ h + 1 \in 0..(Dim - 1))
        BY <1>0, <1>7, <2>1
      <4>. QED
        BY <1>5, <1>7, <4>1
    <3>. QED
      BY <3>1, <3>3, <3>4, <3>5, <3>6, <3>7
  <2>4. WaitsFor(t, b, Out(at[h+1]))
    BY <2>1, <2>3, <2>6 DEF WaitsFor, Successor
  <2>. HIDE DEF S
  <2>. QED
    BY <2>4, <2>5
<1>. HIDE DEF S
<1>. QED
  BY <1>8, <1>9 DEF Closed

\* A table of one-hop routes only has no cycle.
LEMMA InitiateAcyclic ==
    ASSUME NEW ls \in SUBSET Links
    PROVE  ~ \E S : Closed(Initiate(ls), ls, S)
<1>. DEFINE t == Initiate(ls)
<1>0. Nil \notin ls
  BY NodesExact DEF Links
<1>1. \A p \in NodeSet \X NodeSet : t[p].out = IF p \in ls THEN p ELSE Nil
  BY DEF Initiate
<1>2. \A p \in NodeSet \X NodeSet : p \in ls => t[p].next = p[2]
  BY DEF Initiate
<1>. HIDE DEF t
<1>3. ASSUME NEW b \in ls, NEW c \in ls, WaitsFor(t, b, c)  PROVE c = <<b[2], b[2]>>
  <2>1. PICK n \in NodeSet : t[<<b[1], n>>].out = b /\ Successor(t, b, n) = c
    BY <1>3 DEF WaitsFor
  <2>2. b[1] \in NodeSet /\ b \in NodeSet \X NodeSet
    BY DEF Links
  <2>3. <<b[1], n>> \in NodeSet \X NodeSet /\ <<b[1], n>>[2] = n
    BY <2>2
  <2>4. <<b[1], n>> \in ls /\ b = <<b[1], n>>
    BY <1>0, <1>1, <2>1, <2>3
  <2>5. t[<<b[1], n>>].next = n /\ n = b[2]
    BY <1>2, <2>3, <2>4
  <2>6. c = t[<<n, n>>].out
    BY <2>1, <2>5 DEF Successor
  <2>7. <<n, n>> \in NodeSet \X NodeSet
    OBVIOUS
  <2>. QED
    BY <1>0, <1>1, <2>5, <2>6, <2>7
<1>4. ASSUME NEW S, Closed(t, ls, S)  PROVE FALSE
  <2>1. PICK b \in S, c \in S, d \in S : WaitsFor(t, b, c) /\ WaitsFor(t, c, d)
    BY <1>4 DEF Closed
  <2>2. b \in ls /\ c \in ls /\ d \in ls
    BY <1>4 DEF Closed
  <2>3. c = <<b[2], b[2]>> /\ d = <<c[2], c[2]>>
    BY <1>3, <2>1, <2>2
  <2>4. d = c
    BY <2>3
  <2>. QED
    BY <2>1, <2>4 DEF WaitsFor
<1>. QED
  BY <1>4 DEF t

-----------------------------------------------------------------------------
(* The inductive invariant *)

Acyclic(t, ls) == ~ \E S : Closed(t, ls, S)
Before(x) == {Nodes[y] : y \in 1..(x - 1)}

TablesOK ==
    /\ links \in SUBSET Links /\ TableType(table, links) /\ updates \in Nat
    /\ pc \in {"config", "relax", "outputs", "search", "ready"}
    /\ hasCycle \in BOOLEAN /\ everCyclic \in BOOLEAN

\* How far the table has been computed.
Computed ==
    /\ pc \in {"relax", "outputs", "ready"} => updates = 0
    /\ pc \in {"config", "search", "ready"} => OnLinks(table, links)
    /\ pc = "config" /\ updates = 0 => RelaxInv(table, links, {})
    /\ pc = "relax" => k \in 1..Dim /\ RelaxInv(table, links, Before(k))
    /\ pc = "outputs" => RelaxInv(table, links, NodeSet)
    /\ pc \in {"search", "ready"} /\ updates = 0 => Routed(table, links)

\* A report is wrong at most where a node is linked to itself.
Reported == (everCyclic => hasCycle) /\ (hasCycle => everCyclic \/ SelfLinked)

\* What the search knows so far.
Searched ==
    /\ pc = "search" => /\ SearchType(links, color, parent, calls)
                        /\ everCyclic => hasCycle
                        /\ hasCycle => everCyclic \/ SelfLinked \/ ~ Acyclic(table, links)
                        /\ ~ hasCycle => SearchInv(table, links, color, parent, calls)
    /\ pc # "search" => Reported
    /\ pc \in {"config", "ready"} /\ ~ hasCycle => Acyclic(table, links)

RoutingInv == TablesOK /\ Computed /\ Searched

LEMMA RoutingInit == Init => RoutingInv
<1>. SUFFICES ASSUME Init  PROVE RoutingInv
  OBVIOUS
<1>1. links \in SUBSET Links /\ table = Initiate(links)
  BY NetworksAssumption DEF Init, Links
<1>2. RelaxInv(table, links, {}) /\ OnLinks(table, links) /\ Acyclic(table, links)
  BY <1>1, InitiateExact, InitiateAcyclic DEF Acyclic
<1>3. TableType(table, links)
  BY <1>2 DEF RelaxInv
<1>4. /\ pc = "config" /\ updates = 0 /\ hasCycle = FALSE /\ everCyclic = FALSE
  BY DEF Init
<1>. QED
  BY <1>1, <1>2, <1>3, <1>4 DEF RoutingInv, TablesOK, Computed, Searched, Reported

\* The table with a configured route, as in action RouteUpdate.
UpdatedTable(t, d, l) == [t EXCEPT ![<<l[1], d>>].next = l[2], ![<<l[1], d>>].out = l]

LEMMA RouteUpdateStep ==
    ASSUME NEW t, NEW ls \in SUBSET Links, TableType(t, ls), OnLinks(t, ls),
           NEW d \in NodeSet, NEW l \in ls
    PROVE  TableType(UpdatedTable(t, d, l), ls) /\ OnLinks(UpdatedTable(t, d, l), ls)
<1>. DEFINE p == <<l[1], d>>
            u == UpdatedTable(t, d, l)
<1>. HIDE DEF u
<1>1. l[1] \in NodeSet /\ l[2] \in NodeSet /\ l # Nil
  BY NodesExact DEF Links
<1>2. p \in NodeSet \X NodeSet /\ p[1] = l[1] /\ t[p] \in Entry(ls)
  BY <1>1 DEF TableType
<1>3. u = [t EXCEPT ![p] = [t[p] EXCEPT !.next = l[2], !.out = l]]
  BY <1>2 DEF TableType, u, UpdatedTable
<1>4. [t[p] EXCEPT !.next = l[2], !.out = l] \in Entry(ls)
  BY <1>1, <1>2 DEF Entry
<1>5. u[p] = [t[p] EXCEPT !.next = l[2], !.out = l]
  BY <1>2, <1>3 DEF TableType
<1>6. u[p].next = l[2] /\ u[p].out = l
  BY <1>2, <1>5 DEF Entry
<1>. HIDE DEF p
<1>7. \A q \in NodeSet \X NodeSet : q # p => u[q] = t[q]
  BY <1>3 DEF TableType
<1>8. TableType(u, ls)
  BY <1>2, <1>3, <1>4 DEF TableType
<1>9. OnLinks(u, ls)
  <2>1. ASSUME NEW q \in NodeSet \X NodeSet, u[q].out # Nil
        PROVE  u[q].out \in ls /\ u[q].out[1] = q[1] /\ u[q].out[2] = u[q].next
    <3>1. CASE q = p
      BY <1>2, <1>6, <3>1
    <3>2. CASE q # p
      BY <1>7, <2>1, <3>2 DEF OnLinks
    <3>. QED
      BY <3>1, <3>2
  <2>. QED
    BY <2>1 DEF OnLinks
<1>. QED
  BY <1>8, <1>9 DEF u

LEMMA StartSearchStep ==
    ASSUME StartSearch(links)
    PROVE  /\ pc' = "search"
           /\ \A t : SearchType(links, color', parent', calls')
                     /\ SearchInv(t, links, color', parent', calls')
<1>1. /\ pc' = "search" /\ color' = [b \in links |-> "white"]
      /\ parent' = [b \in links |-> b] /\ calls' = <<>>
  BY DEF StartSearch
<1>. QED
  BY <1>1, SearchStarts

LEMMA ComputeStep ==
    ASSUME RoutingInv, FloydWarshall \/ Relax \/ Outputs
    PROVE  RoutingInv'
<1>0. Dim \in Nat \ {0} /\ \A x \in 1..Dim : Nodes[x] \in NodeSet
  BY NodesExact
<1>1. /\ links \in SUBSET Links /\ TableType(table, links) /\ updates \in Nat
      /\ hasCycle \in BOOLEAN /\ everCyclic \in BOOLEAN
  BY DEF RoutingInv, TablesOK
<1>2. CASE FloydWarshall
  <2>1. /\ pc = "config" /\ updates = 0 /\ pc' = "relax" /\ k' = 1
        /\ UNCHANGED <<links, table, hasCycle, updates, everCyclic>>
    BY <1>2 DEF FloydWarshall
  <2>2. Before(1) = {} /\ 1 \in 1..Dim
    BY <1>0 DEF Before
  <2>3. RelaxInv(table, links, {}) /\ Reported
    BY <2>1 DEF RoutingInv, Computed, Searched
  <2>4. TablesOK'
    BY <1>1, <2>1 DEF TablesOK
  <2>5. Computed'
    BY <2>1, <2>2, <2>3 DEF Computed
  <2>6. Searched'
    BY <2>1, <2>3 DEF Searched, Reported, SelfLinked
  <2>. QED
    BY <2>4, <2>5, <2>6 DEF RoutingInv
<1>3. CASE Relax
  <2>1. /\ pc = "relax" /\ table' = ViaNode(table, Nodes[k])
        /\ IF k = Dim THEN pc' = "outputs" /\ k' = k ELSE k' = k + 1 /\ pc' = pc
        /\ UNCHANGED <<links, hasCycle, updates, everCyclic>>
    BY <1>3 DEF Relax
  <2>2. k \in 1..Dim /\ RelaxInv(table, links, Before(k)) /\ updates = 0 /\ Reported
    BY <2>1 DEF RoutingInv, Computed, Searched
  <2>3. Before(k) \in SUBSET NodeSet /\ Nodes[k] \in NodeSet
    BY <1>0, <2>2 DEF Before
  <2>4. RelaxInv(table', links, Before(k) \cup {Nodes[k]})
    BY <1>1, <2>1, <2>2, <2>3, RelaxStep
  <2>5. TableType(table', links)
    BY <2>4 DEF RelaxInv
  <2>6. Before(k) \cup {Nodes[k]} = Before(k + 1)
    BY <2>2, <1>0 DEF Before
  <2>7. CASE k = Dim
    <3>1. Before(k + 1) = NodeSet
      BY <1>0, <2>2, <2>7, NodesExact DEF Before
    <3>2. RelaxInv(table', links, NodeSet)
      BY <2>4, <2>6, <3>1
    <3>3. pc' = "outputs"
      BY <2>1, <2>7
    <3>. QED
      BY <1>1, <2>1, <2>2, <2>5, <3>2, <3>3
         DEF RoutingInv, TablesOK, Computed, Searched, Reported, SelfLinked
  <2>8. CASE k # Dim
    <3>1. pc' = "relax" /\ k' = k + 1 /\ k + 1 \in 1..Dim
      BY <1>0, <2>1, <2>2, <2>8
    <3>2. RelaxInv(table', links', Before(k'))
      BY <2>1, <2>4, <2>6, <3>1
    <3>3. TablesOK'
      BY <1>1, <2>1, <2>5, <3>1 DEF TablesOK
    <3>4. Before(k)' = Before(k')
      BY DEF Before
    <3>5. Computed'
      BY <2>1, <2>2, <3>1, <3>2, <3>4 DEF Computed
    <3>6. Searched'
      BY <2>1, <2>2, <3>1 DEF Searched, Reported, SelfLinked
    <3>. QED
      BY <3>3, <3>5, <3>6 DEF RoutingInv
  <2>. QED
    BY <2>7, <2>8
<1>4. CASE Outputs
  <2>1. /\ pc = "outputs" /\ table' = OutputTable(table) /\ StartSearch(links)
        /\ UNCHANGED <<links, hasCycle, updates, everCyclic>>
    BY <1>4 DEF Outputs, OutputTable
  <2>2. RelaxInv(table, links, NodeSet) /\ updates = 0 /\ Reported
    BY <2>1 DEF RoutingInv, Computed, Searched
  <2>3. TableType(table', links) /\ OnLinks(table', links) /\ Routed(table', links)
    BY <1>1, <2>1, <2>2, OutputsExact
  <2>4. /\ pc' = "search" /\ SearchType(links, color', parent', calls')
        /\ SearchInv(table', links, color', parent', calls')
    BY <2>1, StartSearchStep
  <2>5. TablesOK'
    BY <1>1, <2>1, <2>3, <2>4 DEF TablesOK
  <2>6. Computed'
    BY <2>1, <2>2, <2>3, <2>4 DEF Computed
  <2>7. Searched'
    BY <2>1, <2>2, <2>4 DEF Searched, Reported, SelfLinked
  <2>. QED
    BY <2>5, <2>6, <2>7 DEF RoutingInv
<1>. QED
  BY <1>2, <1>3, <1>4

LEMMA SearchStep ==
    ASSUME RoutingInv,
           \/ \E l \in Buffers, d \in NodeSet : RouteUpdate(d, l)
           \/ VisitNext \/ Iterate \/ Return \/ Finish
    PROVE  RoutingInv'
<1>0. Dim \in Nat \ {0}
  BY NodesExact
<1>1. /\ links \in SUBSET Links /\ TableType(table, links) /\ updates \in Nat
      /\ hasCycle \in BOOLEAN /\ everCyclic \in BOOLEAN
  BY DEF RoutingInv, TablesOK
<1>2. ASSUME NEW l \in Buffers, NEW d \in NodeSet, RouteUpdate(d, l)  PROVE RoutingInv'
  <2>1. /\ pc = "config" /\ l \in links /\ StartSearch(links) /\ updates' = updates + 1
        /\ table' = UpdatedTable(table, d, l)
        /\ UNCHANGED <<links, hasCycle, everCyclic>>
    BY <1>2 DEF RouteUpdate, Buffers, UpdatedTable
  <2>2. OnLinks(table, links) /\ Reported
    BY <2>1 DEF RoutingInv, Computed, Searched
  <2>3. TableType(table', links) /\ OnLinks(table', links)
    BY <1>1, <2>1, <2>2, RouteUpdateStep
  <2>4. /\ pc' = "search" /\ SearchType(links, color', parent', calls')
        /\ SearchInv(table', links, color', parent', calls')
    BY <2>1, StartSearchStep
  <2>5. updates' \in Nat /\ updates' # 0
    BY <1>1, <2>1
  <2>6. TablesOK'
    BY <1>1, <2>1, <2>3, <2>4, <2>5 DEF TablesOK
  <2>7. Computed'
    BY <2>1, <2>3, <2>4, <2>5 DEF Computed
  <2>8. Searched'
    BY <2>1, <2>2, <2>4 DEF Searched, Reported, SelfLinked
  <2>. QED
    BY <2>6, <2>7, <2>8 DEF RoutingInv
<1>3. ASSUME pc = "search", UNCHANGED <<links, table, pc, updates, everCyclic>>,
             hasCycle' \in BOOLEAN, hasCycle => hasCycle',
             hasCycle' /\ ~ hasCycle => SelfLinked \/ ~ Acyclic(table, links),
             SearchType(links, color', parent', calls'),
             ~ hasCycle' => SearchInv(table, links, color', parent', calls')
      PROVE  RoutingInv'
  <2>1. TablesOK'
    BY <1>1, <1>3 DEF TablesOK
  <2>2. Computed'
    BY <1>3 DEF RoutingInv, Computed
  <2>3. Searched'
    BY <1>3 DEF RoutingInv, Searched, SelfLinked
  <2>. QED
    BY <2>1, <2>2, <2>3 DEF RoutingInv
<1>4. ASSUME pc = "search"
      PROVE  /\ OnLinks(table, links) /\ SearchType(links, color, parent, calls)
             /\ ~ hasCycle => SearchInv(table, links, color, parent, calls)
  BY <1>4 DEF RoutingInv, Computed, Searched
<1>5. CASE VisitNext
  <2>1. /\ pc = "search" /\ calls = <<>> /\ ~ hasCycle
        /\ UNCHANGED <<links, table, hasCycle, pc, updates, parent, everCyclic>>
    BY <1>5 DEF VisitNext
  <2>2. PICK b \in links : /\ color[b] = "white" /\ color' = [color EXCEPT ![b] = "gray"]
                           /\ calls' = <<Call(b)>>
    BY <1>5 DEF VisitNext, White, Buffers
  <2>3. SearchType(links, color', parent', calls') /\ SearchInv(table, links, color', parent', calls')
    BY <1>4, <2>1, <2>2, RootStep
  <2>. QED
    BY <1>1, <1>3, <2>1, <2>3
<1>6. CASE Iterate
  <2>. DEFINE b == Top.buffer
              c == NeedsNext(b, Top.j)
              visits == c # Nil /\ color[c] = "white"
  <2>1. /\ pc = "search" /\ calls # <<>> /\ Top.j <= Dim /\ ~ hasCycle
        /\ calls' = IF visits THEN Append(Bump(calls), Call(c)) ELSE Bump(calls)
        /\ color' = IF visits THEN [color EXCEPT ![c] = "gray"] ELSE color
        /\ parent' = IF visits THEN [parent EXCEPT ![c] = b] ELSE parent
        /\ hasCycle' = (c # Nil /\ Reports(b, c))
        /\ UNCHANGED <<links, table, pc, updates, everCyclic>>
    BY <1>6 DEF Iterate, Bump
  <2>2. /\ OnLinks(table, links) /\ SearchType(links, color, parent, calls)
        /\ SearchInv(table, links, color, parent, calls)
    BY <1>4, <2>1
  <2>3. /\ Top = calls[Len(calls)]
        /\ c = Needs(table, calls[Len(calls)].buffer, calls[Len(calls)].j)
        /\ calls[Len(calls)].j <= Dim /\ b = calls[Len(calls)].buffer
    BY <2>1 DEF Top, NeedsNext, Needs
  <2>4. Top.j \in 1..Dim /\ b \in links
    <3>1. Len(calls) \in 1..Len(calls) /\ calls[Len(calls)].buffer \in links
          /\ calls[Len(calls)].j \in Nat \ {0}
      <4>1. calls \in Pending(links)
        BY <2>2 DEF SearchType
      <4>2. Len(calls) \in 1..Len(calls)
        BY <2>1, <4>1, PendingType
      <4>. QED
        BY <4>1, <4>2, PendingType
    <3>. QED
      BY <1>0, <2>3, <3>1
  <2>5. c \in links \cup {Nil} /\ Nil \notin links /\ (c = b => SelfLinked)
    BY <1>1, <2>2, <2>3, <2>4, NeedsExact DEF SelfLinked
  <2>. HIDE DEF c, b
  <2>6. color \in [links -> Colors]
    BY <2>2 DEF SearchType
  <2>7. CASE c = Nil \/ (c \in links /\ color[c] = "black") \/ (c = b /\ ~ Reports(b, c))
    <3>0. color[b] = "gray"
      <4>1. Len(calls) \in 1..Len(calls)
        BY <2>1, <2>2, PendingType DEF SearchType
      <4>. QED
        BY <2>2, <2>3, <2>4, <4>1 DEF SearchInv, Grays
    <3>1. ~ visits /\ ~ (c # Nil /\ Reports(b, c))
      BY <2>5, <2>7, <3>0 DEF Reports
    <3>2. SearchType(links, color, parent, Bump(calls))
          /\ SearchInv(table, links, color, parent, Bump(calls))
      BY <1>1, <2>1, <2>2, <2>3, <2>7, PassStep
    <3>3. calls' = Bump(calls) /\ color' = color /\ parent' = parent /\ hasCycle' = FALSE
      BY <2>1, <3>1
    <3>. QED
      BY <1>3, <2>1, <3>2, <3>3
  <2>8. CASE c \in links /\ color[c] = "white"
    <3>1. visits /\ ~ (c # Nil /\ Reports(b, c))
      BY <2>5, <2>8 DEF Reports
    <3>2. /\ calls' = Append(Bump(calls), Call(c)) /\ color' = [color EXCEPT ![c] = "gray"]
          /\ parent' = [parent EXCEPT ![c] = calls[Len(calls)].buffer] /\ hasCycle' = FALSE
      BY <2>1, <2>3, <3>1
    <3>3. SearchType(links, color', parent', calls')
          /\ SearchInv(table, links, color', parent', calls')
      <4>1. calls # <<>>
        BY <2>1
      <4>2. c \in links /\ color[c] = "white"
        BY <2>8
      <4>. HIDE DEF visits
      <4>. QED
        BY <1>1, <2>2, <2>3, <3>2, <4>1, <4>2, VisitStep
    <3>. QED
      BY <1>3, <2>1, <3>2, <3>3
  <2>9. CASE c \in links /\ color[c] = "gray" /\ (c # b \/ Reports(b, c))
    <3>1. ASSUME c # b
          PROVE  parent[c] # calls[Len(calls)].buffer /\ \E S : Closed(table, links, S)
      BY <1>1, <2>1, <2>2, <2>3, <2>9, <3>1, ReportStep
    <3>2. ~ visits /\ c # Nil /\ Reports(b, c)
      BY <2>3, <2>5, <2>9, <3>1 DEF Reports
    <3>3. calls' = Bump(calls) /\ color' = color /\ parent' = parent /\ hasCycle' = TRUE
      BY <2>1, <3>2
    <3>4. Bump(calls) \in Pending(links)
      BY <2>1, <2>2, BumpExact DEF SearchType
    <3>5. SearchType(links, color', parent', calls')
      BY <2>2, <3>3, <3>4 DEF SearchType
    <3>6. SelfLinked \/ ~ Acyclic(table, links)
      BY <2>5, <3>1 DEF Acyclic
    <3>. QED
      BY <1>3, <2>1, <3>3, <3>5, <3>6
  <2>. QED
    BY <2>5, <2>6, <2>7, <2>8, <2>9 DEF Colors
<1>7. CASE Return
  <2>1. /\ pc = "search" /\ calls # <<>> /\ (calls[Len(calls)].j > Dim \/ hasCycle)
        /\ color' = [color EXCEPT ![calls[Len(calls)].buffer] = "black"]
        /\ calls' = Front(calls)
        /\ UNCHANGED <<links, table, hasCycle, pc, updates, parent, everCyclic>>
    BY <1>7 DEF Return, Top
  <2>2. SearchType(links, color', parent', calls')
    BY <1>4, <2>1, ReturnType
  <2>3. ~ hasCycle => SearchInv(table, links, color', parent', calls')
    BY <1>1, <1>4, <2>1, ReturnStep
  <2>. QED
    BY <1>1, <1>3, <2>1, <2>2, <2>3
<1>8. CASE Finish
  <2>1. /\ pc = "search" /\ calls = <<>> /\ (White = {} \/ hasCycle)
        /\ pc' = IF updates > 0 THEN "config" ELSE "ready"
        /\ everCyclic' = (everCyclic \/ Cyclic(table, links))
        /\ UNCHANGED <<links, table, hasCycle, updates>>
    BY <1>8 DEF Finish, Buffers
  <2>2. IsFiniteSet(links)
    BY <1>1, FewNodes
  <2>3. Cyclic(table, links) <=> ~ Acyclic(table, links)
    BY <2>2, CyclicClosed DEF Acyclic
  <2>4. ~ hasCycle => Acyclic(table, links)
    <3>1. SUFFICES ASSUME ~ hasCycle  PROVE Acyclic(table, links)
      OBVIOUS
    <3>2. {b \in links : color[b] = "white"} = {}
      BY <2>1, <3>1 DEF White, Buffers
    <3>3. SearchType(links, color, parent, <<>>) /\ SearchInv(table, links, color, parent, <<>>)
      BY <1>4, <2>1, <3>1
    <3>. QED
      BY <3>2, <3>3, SearchEnds DEF Acyclic
  <2>5. /\ everCyclic => hasCycle
        /\ hasCycle => everCyclic \/ SelfLinked \/ ~ Acyclic(table, links)
    BY <2>1 DEF RoutingInv, Searched
  <2>6. everCyclic' \in BOOLEAN /\ Reported'
    BY <1>1, <2>1, <2>3, <2>4, <2>5 DEF Reported, SelfLinked
  <2>7. OnLinks(table, links) /\ (updates = 0 => Routed(table, links))
    BY <2>1 DEF RoutingInv, Computed
  <2>8. CASE updates = 0
    <3>1. pc' = "ready"
      BY <2>1, <2>8
    <3>. QED
      BY <1>1, <2>1, <2>4, <2>6, <2>7, <2>8, <3>1 DEF RoutingInv, TablesOK, Computed, Searched
  <2>9. CASE updates # 0
    <3>1. pc' = "config"
      BY <1>1, <2>1, <2>9
    <3>. QED
      BY <1>1, <2>1, <2>4, <2>6, <2>7, <2>9, <3>1 DEF RoutingInv, TablesOK, Computed, Searched
  <2>. QED
    BY <2>8, <2>9
<1>. QED
  BY <1>2, <1>5, <1>6, <1>7, <1>8

\* What the three properties need of the table and the search holds always.
THEOREM RoutingInductive == Spec => []RoutingInv
<1>1. Init => RoutingInv
  BY RoutingInit
<1>2. RoutingInv /\ [Next]_vars => RoutingInv'
  <2>. SUFFICES ASSUME RoutingInv, [Next]_vars  PROVE RoutingInv'
    OBVIOUS
  <2>1. CASE Next
    BY <2>1, ComputeStep, SearchStep DEF Next
  <2>2. CASE UNCHANGED vars
    <3>1. UNCHANGED <<links, table, hasCycle, pc, k, updates, color, parent, calls, everCyclic>>
      BY <2>2 DEF vars
    <3>2. TablesOK'
      BY <3>1 DEF RoutingInv, TablesOK
    <3>3. Computed'
      BY <3>1 DEF RoutingInv, Computed
    <3>4. Searched'
      BY <3>1 DEF RoutingInv, Searched, Reported, SelfLinked
    <3>. QED
      BY <3>2, <3>3, <3>4 DEF RoutingInv
  <2>. QED
    BY <2>1, <2>2
<1>. QED
  BY <1>1, <1>2, PTL DEF Spec

\* The colours and parents of net_routing_table_cycle_detection miss no circle of
\* output buffers that wait for each other, and report one without need only
\* where a node is linked to itself, for all links and all configured routes.
THEOREM CyclesReportedExactly == Spec => []CycleExact
<1>1. RoutingInv => CycleExact
  BY DEF RoutingInv, Searched, Reported, CycleExact
<1>. QED
  BY <1>1, RoutingInductive, PTL

\* Where net_routing_table_cycle_detection reports no cycle, a message that
\* follows the table reaches its destination, a node without a route to it, or
\* a node that sends it over a link to itself: the loop the search cannot see.
THEOREM RoutesWithoutLoops == Spec => []NoRoutingLoop
<1>1. RoutingInv => NoRoutingLoop
  <2>. SUFFICES ASSUME RoutingInv, pc \in {"config", "ready"}, ~ hasCycle,
                       NEW i \in NodeSet, NEW j \in NodeSet
                PROVE  Hop(table, i, j)[Dim] \in {j, Nil} \/ Stranded(i, j)
    BY DEF NoRoutingLoop
  <2>1. /\ links \in SUBSET Links /\ TableType(table, links) /\ OnLinks(table, links)
        /\ ~ \E S : Closed(table, links, S)
    BY DEF RoutingInv, TablesOK, Computed, Searched, Acyclic
  <2>. QED
    BY <2>1, NoCycleNoLoop DEF Stranded
<1>. QED
  BY <1>1, RoutingInductive, PTL

\* net_routing_table_floyd_warshall finds the distances of all pairs of nodes,
\* and next hops along which each destination is that many hops away.
THEOREM RoutesAreShortest == Spec => []ShortestPaths
<1>1. RoutingInv => ShortestPaths
  <2>. SUFFICES ASSUME RoutingInv, pc = "ready", NEW i \in NodeSet, NEW j \in NodeSet, i # j
                PROVE  LET d == Distance(Buffers, i, j) IN
                       /\ table[<<i, j>>].cost = d
                       /\ d < Dim => Hop(table, i, j)[d] = j
                       /\ IF d = Dim THEN table[<<i, j>>].out = Nil
                          ELSE /\ table[<<i, j>>].out = <<i, table[<<i, j>>].next>>
                               /\ table[<<i, j>>].out \in Buffers
    BY DEF ShortestPaths
  <2>1. links \in SUBSET Links /\ TableType(table, links) /\ Routed(table, links)
    BY DEF RoutingInv, TablesOK, Computed
  <2>2. /\ Cost(table, i, j) = Distance(links, i, j)
        /\ IF Cost(table, i, j) = Dim THEN table[<<i, j>>].out = Nil
           ELSE /\ table[<<i, j>>].out = <<i, NextOf(table, i, j)>>
                /\ table[<<i, j>>].out \in links
    BY <2>1 DEF Routed
  <2>3. Cost(table, i, j) < Dim => Hop(table, i, j)[Cost(table, i, j)] = j
    BY <2>1, HopArrives
  <2>4. table[<<i, j>>].cost = Cost(table, i, j) /\ table[<<i, j>>].next = NextOf(table, i, j)
    BY DEF Cost, NextOf
  <2>. QED
    BY <2>2, <2>3, <2>4 DEF Buffers
<1>. QED
  BY <1>1, RoutingInductive, PTL
=============================================================================
