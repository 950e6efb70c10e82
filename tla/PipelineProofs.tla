--------------------------- MODULE PipelineProofs ---------------------------
(***************************************************************************)
(* The register file, the reorder buffer and the recovery from mispredicted*)
(* branches, for any registers, uops and queue sizes.                      *)
(***************************************************************************)
EXTENDS Pipeline, WellFoundedInduction, FiniteSetTheorems, SequenceTheorems, TLAPS

(* Numbers, counting and recursion *)

LEMMA Least ==
    ASSUME NEW T \in SUBSET Nat, T # {}
    PROVE  \E x \in T : \A y \in T : x <= y
<1>1. \E x \in T : \A y \in T : ~ (y < x)
  <2>1. PICK x \in T : \A y \in T : ~ (<<y, x>> \in OpToRel(<, Nat))
    BY NatLessThanWellFounded, WFMin
  <2>. QED
    BY <2>1 DEF OpToRel
<1>2. PICK x \in T : \A y \in T : ~ (y < x)
  BY <1>1
<1>3. x \in Nat /\ \A y \in T : y \in Nat
  BY <1>2
<1>. QED
  BY <1>2, <1>3

LEMMA Greatest ==
    ASSUME NEW n \in Nat, NEW T \in SUBSET (0..n), T # {}
    PROVE  \E x \in T : \A y \in T : y <= x
<1>. DEFINE D == {n - x : x \in T}
<1>1. D \in SUBSET Nat /\ D # {}
  <2>1. \A x \in T : x \in 0..n /\ n - x \in Nat
    OBVIOUS
  <2>. QED
    BY <2>1
<1>2. PICK d \in D : \A e \in D : d <= e
  <2>. HIDE DEF D
  <2>. QED
    BY <1>1, Least
<1>3. PICK x \in T : d = n - x
  BY <1>2
<1>4. ASSUME NEW y \in T  PROVE y <= x
  <2>1. n - y \in D /\ y \in 0..n /\ x \in 0..n
    OBVIOUS
  <2>2. n - x <= n - y
    BY <1>2, <1>3, <2>1
  <2>. QED
    BY <2>1, <2>2
<1>. QED
  BY <1>4

\* A set of numbers up to n that has a and, with each, the next one.
LEMMA Upwards ==
    ASSUME NEW a \in Nat, NEW n \in Nat, NEW T, a \in T,
           \A h \in (a + 1)..n : h - 1 \in T => h \in T
    PROVE  a..n \subseteq T
<1>. DEFINE B == (a..n) \ T
<1>1. SUFFICES ASSUME B # {}  PROVE FALSE
  OBVIOUS
<1>2. B \in SUBSET Nat
  OBVIOUS
<1>3. PICK x \in B : \A y \in B : x <= y
  BY <1>1, <1>2, Least
<1>4. x \in (a + 1)..n
  BY <1>3
<1>5. x - 1 \in a..n /\ x - 1 \notin B
  BY <1>3, <1>4
<1>. QED
  BY <1>3, <1>4, <1>5

\* How often f takes the value p on S.
Count(f, S, p) == Cardinality({x \in S : f[x] = p})

LEMMA CountType ==
    ASSUME NEW f, NEW S, IsFiniteSet(S), NEW p
    PROVE  IsFiniteSet({x \in S : f[x] = p}) /\ Count(f, S, p) \in Nat
<1>1. {x \in S : f[x] = p} \in SUBSET S
  OBVIOUS
<1>2. IsFiniteSet({x \in S : f[x] = p})
  BY <1>1, FS_Subset
<1>. QED
  BY <1>2, FS_CardinalityType DEF Count

LEMMA CountEmpty == \A f, p : Count(f, {}, p) = 0
<1>1. ASSUME NEW f, NEW p  PROVE {x \in {} : f[x] = p} = {}
  OBVIOUS
<1>. QED
  BY <1>1, FS_EmptySet DEF Count

LEMMA CountAdd ==
    ASSUME NEW f, NEW S, IsFiniteSet(S), NEW p, NEW y, y \notin S
    PROVE  /\ f[y] = p => Count(f, S \cup {y}, p) = Count(f, S, p) + 1
           /\ f[y] # p => Count(f, S \cup {y}, p) = Count(f, S, p)
<1>. DEFINE C == {x \in S : f[x] = p}
<1>1. IsFiniteSet(C) /\ y \notin C
  BY CountType
<1>2. CASE f[y] = p
  <2>1. {x \in S \cup {y} : f[x] = p} = C \cup {y}
    BY <1>2
  <2>2. Cardinality(C \cup {y}) = Cardinality(C) + 1
    <3>. HIDE DEF C
    <3>. QED
      BY <1>1, FS_AddElement
  <2>. QED
    BY <1>2, <2>1, <2>2 DEF Count
<1>3. CASE f[y] # p
  <2>1. {x \in S \cup {y} : f[x] = p} = C
    BY <1>3
  <2>. QED
    BY <1>3, <2>1 DEF Count
<1>. QED
  BY <1>2, <1>3

LEMMA CountUnion ==
    ASSUME NEW f, NEW S, IsFiniteSet(S), NEW T, IsFiniteSet(T), S \cap T = {}, NEW p
    PROVE  Count(f, S \cup T, p) = Count(f, S, p) + Count(f, T, p)
<1>. DEFINE A == {x \in S : f[x] = p}
            B == {x \in T : f[x] = p}
<1>1. /\ IsFiniteSet(A) /\ Count(f, S, p) \in Nat
      /\ IsFiniteSet(B) /\ Count(f, T, p) \in Nat
  <2>1. IsFiniteSet(A) /\ Count(f, S, p) \in Nat
    BY CountType
  <2>2. IsFiniteSet(B) /\ Count(f, T, p) \in Nat
    BY CountType
  <2>. QED
    BY <2>1, <2>2
<1>2. {x \in S \cup T : f[x] = p} = A \cup B /\ A \cap B = {}
  OBVIOUS
<1>3. Cardinality(A \cup B) = Cardinality(A) + Cardinality(B) - Cardinality({})
  <2>. HIDE DEF A, B
  <2>. QED
    BY <1>1, <1>2, FS_Union
<1>4. Cardinality({}) = 0
  BY FS_EmptySet
<1>5. /\ Count(f, S \cup T, p) = Cardinality(A \cup B)
      /\ Count(f, S, p) = Cardinality(A) /\ Count(f, T, p) = Cardinality(B)
  BY <1>2 DEF Count
<1>. HIDE DEF A, B
<1>. QED
  BY <1>1, <1>3, <1>4, <1>5

LEMMA CountSame ==
    ASSUME NEW f, NEW g, NEW S, \A x \in S : f[x] = g[x], NEW p
    PROVE  Count(f, S, p) = Count(g, S, p)
<1>1. {x \in S : f[x] = p} = {x \in S : g[x] = p}
  OBVIOUS
<1>. QED
  BY <1>1 DEF Count

LEMMA CountPositive ==
    ASSUME NEW f, NEW S, IsFiniteSet(S), NEW p
    PROVE  Count(f, S, p) > 0 <=> \E x \in S : f[x] = p
<1>1. IsFiniteSet({x \in S : f[x] = p}) /\ Count(f, S, p) \in Nat
  BY CountType
<1>2. Count(f, S, p) = 0 <=> {x \in S : f[x] = p} = {}
  BY <1>1, FS_EmptySet DEF Count
<1>. QED
  BY <1>1, <1>2

\* Counting does not depend on how the positions are named.
Moves(h, f, S, g, T) ==
    /\ h \in [S -> T]
    /\ \A x, y \in S : h[x] = h[y] => x = y
    /\ \A y \in T : \E x \in S : h[x] = y
    /\ \A x \in S : g[h[x]] = f[x]

LEMMA CountMoved ==
    ASSUME NEW f, NEW g, NEW S, NEW T, IsFiniteSet(S), NEW h, Moves(h, f, S, g, T), NEW p
    PROVE  Count(g, T, p) = Count(f, S, p)
<1>0. /\ h \in [S -> T]
      /\ \A x, y \in S : h[x] = h[y] => x = y
      /\ \A y \in T : \E x \in S : h[x] = y
      /\ \A x \in S : g[h[x]] = f[x]
  BY DEF Moves
<1>. DEFINE A == {x \in S : f[x] = p}
            B == {y \in T : g[y] = p}
            e == [x \in A |-> h[x]]
<1>1. IsFiniteSet(A)
  BY CountType
<1>2. e \in [A -> B]
  BY <1>0
<1>3. \A x, y \in A : e[x] = e[y] => x = y
  BY <1>0
<1>4. \A y \in B : \E x \in A : e[x] = y
  <2>1. ASSUME NEW y \in B  PROVE \E x \in A : e[x] = y
    <3>1. PICK x \in S : h[x] = y
      BY <1>0
    <3>2. x \in A
      BY <1>0, <3>1
    <3>. QED
      BY <3>1, <3>2
  <2>. QED
    BY <2>1
<1>5. e \in Bijection(A, B)
  <2>. HIDE DEF e, A, B
  <2>. QED
    BY <1>2, <1>3, <1>4 DEF Bijection, Injection, Surjection, IsInjective
<1>6. ExistsBijection(A, B)
  <2>. HIDE DEF e, A, B
  <2>. QED
    BY <1>5 DEF ExistsBijection
<1>7. Cardinality(B) = Cardinality(A)
  <2>. HIDE DEF e, A, B
  <2>. QED
    BY <1>1, <1>6, FS_Bijection
<1>. QED
  BY <1>7 DEF Count

\* One value of a function changes.
LEMMA CountExcept ==
    ASSUME NEW S, IsFiniteSet(S), NEW V, NEW f \in [S -> V], NEW y \in S, NEW v \in V, NEW p
    PROVE  Count([f EXCEPT ![y] = v], S, p) + (IF f[y] = p THEN 1 ELSE 0)
           = Count(f, S, p) + (IF v = p THEN 1 ELSE 0)
<1>. DEFINE R == S \ {y}
            g == [f EXCEPT ![y] = v]
<1>1. IsFiniteSet(R) /\ y \notin R /\ R \cup {y} = S
  BY FS_RemoveElement
<1>2. Count(g, R, p) = Count(f, R, p)
  <2>1. \A x \in R : g[x] = f[x]
    OBVIOUS
  <2>. HIDE DEF g, R
  <2>. QED
    BY <2>1, CountSame
<1>3. g[y] = v
  OBVIOUS
<1>. HIDE DEF R, g
<1>4. Count(f, R, p) \in Nat
  BY <1>1, CountType
<1>5. /\ f[y] = p => Count(f, S, p) = Count(f, R, p) + 1
      /\ f[y] # p => Count(f, S, p) = Count(f, R, p)
  BY <1>1, CountAdd
<1>6. /\ g[y] = p => Count(g, S, p) = Count(g, R, p) + 1
      /\ g[y] # p => Count(g, S, p) = Count(g, R, p)
  BY <1>1, CountAdd
<1>7. Count(g, S, p) + (IF f[y] = p THEN 1 ELSE 0) = Count(f, S, p) + (IF v = p THEN 1 ELSE 0)
  BY <1>2, <1>3, <1>4, <1>5, <1>6
<1>. QED
  BY <1>7 DEF g

\* g[i] is what the first i steps make of v.
Made(V, v, n, step, g) ==
    g \in [0..n -> V] /\ g[0] = v /\ \A i \in 1..n : g[i] = step[i][g[i-1]]

LEMMA RecursionExists ==
    ASSUME NEW V, NEW v \in V, NEW n \in Nat, NEW step \in [1..n -> [V -> V]]
    PROVE  \E g : Made(V, v, n, step, g)
<1>. DEFINE Upto(k, g) == /\ g \in [0..k -> V] /\ g[0] = v
                          /\ \A i \in 1..k : g[i] = step[i][g[i-1]]
            T == {k \in 0..n : \E g : Upto(k, g)}
<1>1. 0 \in T
  <2>. DEFINE g == [i \in 0..0 |-> v]
  <2>1. Upto(0, g)
    OBVIOUS
  <2>. HIDE DEF g
  <2>2. \E f : Upto(0, f)
    BY <2>1
  <2>. QED
    BY <2>2
<1>2. ASSUME NEW k \in 1..n, k - 1 \in T  PROVE k \in T
  <2>2. PICK h : Upto(k - 1, h)
    BY <1>2
  <2>. DEFINE g == [i \in 0..k |-> IF i = k THEN step[k][h[k-1]] ELSE h[i]]
  <2>3. h[k-1] \in V /\ step[k][h[k-1]] \in V
    BY <2>2
  <2>4. g \in [0..k -> V] /\ g[0] = v
    BY <2>2, <2>3
  <2>5. ASSUME NEW i \in 1..k  PROVE g[i] = step[i][g[i-1]]
    <3>0. i - 1 \in 0..(k - 1) /\ i - 1 # k /\ i - 1 \in 0..k /\ i \in 0..k
      OBVIOUS
    <3>1. g[i-1] = h[i-1]
      BY <3>0
    <3>2. CASE i = k
      BY <3>0, <3>1, <3>2
    <3>3. CASE i # k
      <4>1. i \in 1..(k - 1) /\ g[i] = h[i]
        BY <3>0, <3>3
      <4>. QED
        BY <2>2, <3>1, <4>1
    <3>. QED
      BY <3>2, <3>3
  <2>6. Upto(k, g)
    BY <2>4, <2>5
  <2>. HIDE DEF g, Upto
  <2>7. \E f : Upto(k, f)
    BY <2>6
  <2>. QED
    BY <2>7
<1>. HIDE DEF T
<1>3. \A h \in (0 + 1)..n : h - 1 \in T => h \in T
  BY <1>2
<1>4. 0..n \subseteq T
  BY <1>1, <1>3, Upwards
<1>5. PICK g : Upto(n, g)
  BY <1>4 DEF T
<1>. QED
  BY <1>5 DEF Made

-----------------------------------------------------------------------------
(* Choosing from a list, and joining lists *)

LEMMA AmongSteps ==
    ASSUME NEW V, NEW s \in Seq(V), NEW S
    PROVE  \E g \in [0..Len(s) -> Seq(V)] :
              /\ g[0] = <<>> /\ Among(s, S) = g[Len(s)]
              /\ \A k \in 1..Len(s) : /\ s[k] \in S => g[k] = Append(g[k-1], s[k])
                                      /\ s[k] \notin S => g[k] = g[k-1]
<1>. DEFINE N == Len(s)
            W == Seq(V)
            More(k, q) == IF s[k] \in S THEN Append(q, s[k]) ELSE q
            step == [k \in 1..N |-> [q \in W |-> More(k, q)]]
            Eq(g) == g = [k \in 0..N |-> IF k = 0 THEN <<>> ELSE More(k, g[k-1])]
            some == CHOOSE g : Eq(g)
<1>1. N \in Nat /\ \A k \in 1..N : s[k] \in V
  OBVIOUS
<1>2. <<>> \in W
  OBVIOUS
<1>3. \A k \in 1..N, q \in W : More(k, q) \in W
  BY <1>1
<1>4. Among(s, S) = some[N]
  BY DEF Among
<1>. HIDE DEF W, N, More
<1>5. step \in [1..N -> [W -> W]]
  BY <1>3
<1>. HIDE DEF step
<1>6. N \in Nat
  BY <1>1
<1>7. PICK g \in [0..N -> W] : g[0] = <<>> /\ \A k \in 1..N : g[k] = step[k][g[k-1]]
  <2>1. \E g : Made(W, <<>>, N, step, g)
    BY <1>2, <1>5, <1>6, RecursionExists
  <2>. QED
    BY <2>1 DEF Made
<1>8. ASSUME NEW k \in 1..N  PROVE k - 1 \in 0..N /\ g[k-1] \in W /\ g[k] = More(k, g[k-1])
  <2>1. k - 1 \in 0..N /\ g[k-1] \in W
    BY <1>1, <1>7
  <2>2. \A q \in W : step[k][q] = More(k, q)
    BY DEF step
  <2>. QED
    BY <1>7, <2>1, <2>2
<1>9. Eq(g)
  BY <1>1, <1>7, <1>8
<1>10. Eq(some)
  BY <1>9
<1>. HIDE DEF some
<1>11. some[0] = <<>> /\ \A k \in 1..N : some[k] = More(k, some[k-1])
  BY <1>1, <1>10
<1>. DEFINE T == {k \in 0..N : some[k] = g[k]}
<1>12. 0 \in T
  BY <1>1, <1>7, <1>11
<1>13. ASSUME NEW k \in (0 + 1)..N, k - 1 \in T  PROVE k \in T
  BY <1>1, <1>8, <1>11, <1>13
<1>. HIDE DEF T
<1>14. 0..N \subseteq T
  BY <1>1, <1>12, <1>13, Upwards
<1>15. Among(s, S) = g[N]
  <2>1. N \in 0..N
    BY <1>1
  <2>. QED
    BY <1>4, <1>14, <2>1 DEF T
<1>. QED
  BY <1>7, <1>8, <1>15 DEF W, N, More

LEMMA AmongIs ==
    ASSUME NEW V, NEW s \in Seq(V), NEW S, \A j, k \in 1..Len(s) : s[j] = s[k] => j = k
    PROVE  /\ Among(s, S) \in Seq(V)
           /\ \A v : (\E j \in 1..Len(Among(s, S)) : Among(s, S)[j] = v)
                     <=> (v \in S /\ \E k \in 1..Len(s) : s[k] = v)
           /\ \A i, j \in 1..Len(Among(s, S)) : Among(s, S)[i] = Among(s, S)[j] => i = j
<1>. DEFINE N == Len(s)
<1>1. N \in Nat /\ \A k \in 1..N : s[k] \in V
  OBVIOUS
<1>2. PICK g \in [0..N -> Seq(V)] :
              /\ g[0] = <<>> /\ Among(s, S) = g[N]
              /\ \A k \in 1..N : /\ s[k] \in S => g[k] = Append(g[k-1], s[k])
                                 /\ s[k] \notin S => g[k] = g[k-1]
  BY AmongSteps
<1>. DEFINE Holds(r, v) == \E j \in 1..Len(r) : r[j] = v
            Good(n, r) == /\ \A v : Holds(r, v) <=> (v \in S /\ \E k \in 1..n : s[k] = v)
                          /\ \A i, j \in 1..Len(r) : r[i] = r[j] => i = j
            T == {n \in 0..N : Good(n, g[n])}
<1>3. 0 \in T
  <2>1. Len(g[0]) = 0 /\ 1..0 = {}
    BY <1>2
  <2>. QED
    BY <1>1, <2>1
<1>4. ASSUME NEW n \in (0 + 1)..N, n - 1 \in T  PROVE n \in T
  <2>. DEFINE r == g[n-1]
              L == Len(r)
  <2>0. n \in 1..N /\ n - 1 \in 0..N /\ n \in 0..N
    BY <1>1
  <2>1. r \in Seq(V) /\ L \in Nat /\ s[n] \in V
    BY <1>1, <2>0
  <2>2. Good(n - 1, r)
    BY <1>4
  <2>3. \A v : (\E k \in 1..n : s[k] = v) <=> (s[n] = v \/ \E k \in 1..(n-1) : s[k] = v)
    BY <2>0
  <2>4. CASE s[n] \notin S
    <3>1. g[n] = r
      BY <1>2, <2>0, <2>4
    <3>2. Good(n, r)
      BY <2>2, <2>3, <2>4
    <3>. QED
      BY <2>0, <3>1, <3>2
  <2>5. CASE s[n] \in S
    <3>. DEFINE q == Append(r, s[n])
    <3>1. g[n] = q
      BY <1>2, <2>0, <2>5
    <3>2. Len(q) = L + 1 /\ q[L+1] = s[n] /\ \A j \in 1..L : q[j] = r[j]
      BY <2>1
    <3>3. ~ Holds(r, s[n])
      <4>1. ~ \E k \in 1..(n-1) : s[k] = s[n]
        BY <2>0
      <4>. QED
        BY <2>2, <4>1
    <3>. HIDE DEF q
    <3>4. ASSUME NEW v  PROVE Holds(q, v) <=> (Holds(r, v) \/ v = s[n])
      <4>. HIDE DEF r, L
      <4>0. L \in Nat /\ L + 1 \in 1..Len(q) /\ 1..L \subseteq 1..Len(q)
            /\ \A j \in 1..Len(q) : j \in 1..L \/ j = L + 1
        BY <2>1, <3>2
      <4>1. ASSUME NEW j \in 1..Len(q), q[j] = v  PROVE Holds(r, v) \/ v = s[n]
        BY <3>2, <4>0, <4>1 DEF L
      <4>2. Holds(r, v) => Holds(q, v)
        BY <3>2, <4>0 DEF L
      <4>3. v = s[n] => Holds(q, v)
        BY <3>2, <4>0
      <4>. QED
        BY <4>1, <4>2, <4>3
    <3>5. \A v : Holds(q, v) <=> (v \in S /\ \E k \in 1..n : s[k] = v)
      <4>. HIDE DEF Holds
      <4>. QED
        BY <2>2, <2>3, <2>5, <3>4
    <3>6. ASSUME NEW i \in 1..Len(q), NEW j \in 1..Len(q), q[i] = q[j]  PROVE i = j
      <4>1. \A x \in 1..L : r[x] # s[n]
        BY <3>3
      <4>2. \A x \in 1..Len(q) : x = L + 1 \/ x \in 1..L
        BY <2>1, <3>2
      <4>3. \A x, y \in 1..L : r[x] = r[y] => x = y
        BY <2>2
      <4>. QED
        BY <3>2, <3>6, <4>1, <4>2, <4>3
    <3>7. Good(n, q)
      BY <3>5, <3>6
    <3>. QED
      BY <2>0, <3>1, <3>7
  <2>. QED
    BY <2>4, <2>5
<1>. HIDE DEF T
<1>5. 0..N \subseteq T
  BY <1>1, <1>3, <1>4, Upwards
<1>6. Good(N, g[N])
  <2>1. N \in 0..N
    BY <1>1
  <2>. QED
    BY <1>5, <2>1 DEF T
<1>7. g[N] \in Seq(V)
  BY <1>1
<1>. QED
  BY <1>2, <1>6, <1>7

\* What a uop keeps of an output: the logical register, the physical register
\* and the one that the logical register was mapped to before.
OutRec == [lo : Loreg, ph : Phreg, old : Phreg]

\* outs[i] are the outputs of uop i; O is all of them in program order, and
\* off[i] of them come before uop i.
Layout(outs, O, off) ==
    /\ off \in [1..(Len(outs) + 1) -> Nat] /\ off[1] = 0
    /\ O \in Seq(OutRec) /\ Len(O) = off[Len(outs) + 1]
    /\ \A i \in 1..Len(outs) :
          /\ off[i+1] = off[i] + Len(outs[i])
          /\ \A k \in 1..Len(outs[i]) : O[off[i] + k] = outs[i][k]

\* FlattenSeq joins the lists one after the other.
LEMMA FlattenSteps ==
    ASSUME NEW V, NEW s \in Seq(Seq(V))
    PROVE  \E g \in [0..Len(s) -> Seq(V)] :
              /\ g[0] = <<>> /\ FlattenSeq(s) = g[Len(s)]
              /\ \A i \in 1..Len(s) : g[i] = g[i-1] \o s[i]
<1>. DEFINE N == Len(s)
            W == Seq(V)
            step == [i \in 1..N |-> [q \in W |-> q \o s[i]]]
            Eq(g) == g = [i \in 1..N |-> IF i = 1 THEN s[i] ELSE g[i-1] \o s[i]]
            flatten == CHOOSE g : Eq(g)
<1>1. N \in Nat /\ (\A i \in 1..N : s[i] \in Seq(V)) /\ s \in Seq(Seq(V))
  OBVIOUS
<1>2. <<>> \in W
  OBVIOUS
<1>3. step \in [1..N -> [W -> W]]
  BY <1>1
<1>4. FlattenSeq(s) = IF N = 0 THEN s ELSE flatten[N]
  BY DEF FlattenSeq
<1>. HIDE DEF N
<1>5. PICK g \in [0..N -> W] : g[0] = <<>> /\ \A i \in 1..N : g[i] = step[i][g[i-1]]
  <2>. HIDE DEF W, step
  <2>1. N \in Nat
    BY <1>1
  <2>2. \E g : Made(W, <<>>, N, step, g)
    BY <1>2, <1>3, <2>1, RecursionExists
  <2>. QED
    BY <2>2 DEF Made
<1>6. ASSUME NEW i \in 1..N  PROVE i - 1 \in 0..N /\ g[i-1] \in W /\ g[i] = g[i-1] \o s[i]
  <2>1. i - 1 \in 0..N /\ g[i-1] \in W
    BY <1>1, <1>5
  <2>2. \A q \in W : step[i][q] = q \o s[i]
    OBVIOUS
  <2>. HIDE DEF step, W
  <2>. QED
    BY <1>5, <2>1, <2>2
<1>. HIDE DEF step
<1>7. N = 0 => FlattenSeq(s) = g[N]
  <2>1. N = 0 => s = <<>>
    BY <1>1 DEF N
  <2>. QED
    BY <1>4, <1>5, <2>1
<1>8. ASSUME N # 0  PROVE FlattenSeq(s) = g[N]
  <2>1. N \in 1..N /\ 1 \in 1..N
    BY <1>1, <1>8
  <2>2. g[1] = s[1]
    <3>0. \A i \in 1..N : g[i] = g[i-1] \o s[i]
      BY <1>6
    <3>2. ASSUME NEW i \in 1..N, i = 1  PROVE g[i] = <<>> \o s[i]
      <4>1. i - 1 = 0
        BY <3>2
      <4>2. g[i-1] = <<>>
        BY <1>5, <4>1
      <4>. QED
        BY <3>0, <4>2
    <3>1. g[1] = <<>> \o s[1] /\ s[1] \in Seq(V)
      BY <1>1, <2>1, <3>2
    <3>. QED
      BY <3>1, ConcatEmptySeq
  <2>. DEFINE f == [i \in 1..N |-> g[i]]
  <2>3. Eq(f)
    <3>1. ASSUME NEW i \in 1..N  PROVE f[i] = IF i = 1 THEN s[i] ELSE f[i-1] \o s[i]
      <4>1. CASE i = 1
        BY <2>2, <4>1
      <4>2. CASE i # 1
        <5>1. i - 1 \in 1..N
          BY <1>1, <4>2
        <5>. QED
          BY <1>6, <4>2, <5>1
      <4>. QED
        BY <4>1, <4>2
    <3>. QED
      BY <3>1
  <2>. HIDE DEF f
  <2>4. Eq(flatten)
    BY <2>3
  <2>. HIDE DEF flatten
  <2>5. \A i \in 1..N : flatten[i] = IF i = 1 THEN s[i] ELSE flatten[i-1] \o s[i]
    BY <2>4
  <2>. DEFINE T == {i \in 1..N : flatten[i] = g[i]}
  <2>6. 1 \in T
    BY <2>1, <2>2, <2>5
  <2>7. ASSUME NEW i \in (1 + 1)..N, i - 1 \in T  PROVE i \in T
    <3>1. i \in 1..N /\ i # 1
      BY <1>1
    <3>2. flatten[i-1] = g[i-1] /\ flatten[i] = flatten[i-1] \o s[i]
      BY <2>5, <2>7, <3>1
    <3>. QED
      BY <1>6, <3>1, <3>2
  <2>. HIDE DEF T
  <2>8. 1..N \subseteq T
    BY <1>1, <2>6, <2>7, Upwards
  <2>9. flatten[N] = g[N]
    BY <2>1, <2>8 DEF T
  <2>. QED
    BY <1>4, <1>8, <2>9
<1>. QED
  BY <1>5, <1>6, <1>7, <1>8 DEF N, W

LEMMA LayoutOfFlatten ==
    ASSUME NEW outs \in Seq(Seq(OutRec))
    PROVE  \E off : Layout(outs, FlattenSeq(outs), off)
<1>. DEFINE N == Len(outs)
<1>1. N \in Nat /\ \A i \in 1..N : outs[i] \in Seq(OutRec) /\ Len(outs[i]) \in Nat
  OBVIOUS
<1>2. PICK g \in [0..N -> Seq(OutRec)] :
              /\ g[0] = <<>> /\ FlattenSeq(outs) = g[N]
              /\ \A i \in 1..N : g[i] = g[i-1] \o outs[i]
  BY FlattenSteps
<1>. HIDE DEF N
<1>3. ASSUME NEW i \in 0..N  PROVE g[i] \in Seq(OutRec) /\ Len(g[i]) \in Nat
  <2>1. g[i] \in Seq(OutRec)
    OBVIOUS
  <2>. QED
    BY <2>1, LenProperties
<1>4. ASSUME NEW i \in 1..N
      PROVE  /\ i - 1 \in 0..N /\ Len(g[i]) = Len(g[i-1]) + Len(outs[i])
             /\ \A q \in 1..Len(g[i-1]) : g[i][q] = g[i-1][q]
             /\ \A k \in 1..Len(outs[i]) : g[i][Len(g[i-1]) + k] = outs[i][k]
  <2>0. i - 1 \in 0..N
    BY <1>1
  <2>1. i - 1 \in 0..N /\ g[i] = g[i-1] \o outs[i]
    BY <1>2, <2>0
  <2>2. g[i-1] \in Seq(OutRec) /\ outs[i] \in Seq(OutRec)
        /\ Len(g[i-1]) \in Nat /\ Len(outs[i]) \in Nat
    BY <1>1, <1>3, <2>1
  <2>3. /\ Len(g[i-1] \o outs[i]) = Len(g[i-1]) + Len(outs[i])
        /\ \A q \in 1..(Len(g[i-1]) + Len(outs[i])) : (g[i-1] \o outs[i])[q] =
                     IF q <= Len(g[i-1]) THEN g[i-1][q] ELSE outs[i][q - Len(g[i-1])]
    BY <2>2, ConcatProperties
  <2>4. \A q \in 1..Len(g[i-1]) : g[i][q] = g[i-1][q]
    BY <2>1, <2>2, <2>3
  <2>5. ASSUME NEW k \in 1..Len(outs[i])  PROVE g[i][Len(g[i-1]) + k] = outs[i][k]
    <3>0. \A a, b \in Nat : \A c \in 1..b : a + c \in 1..(a + b) /\ ~ (a + c <= a) /\ (a + c) - a = c
      OBVIOUS
    <3>1. Len(g[i-1]) + k \in 1..(Len(g[i-1]) + Len(outs[i])) /\ ~ (Len(g[i-1]) + k <= Len(g[i-1]))
          /\ (Len(g[i-1]) + k) - Len(g[i-1]) = k
      BY <2>2, <3>0
    <3>. QED
      BY <2>1, <2>3, <3>1
  <2>. QED
    BY <2>1, <2>3, <2>4, <2>5
\* What has been joined stays where it is.
<1>5. ASSUME NEW i \in 0..N
      PROVE  \A j \in i..N : Len(g[i]) <= Len(g[j]) /\ \A q \in 1..Len(g[i]) : g[j][q] = g[i][q]
  <2>. DEFINE Same(j) == Len(g[i]) <= Len(g[j]) /\ \A q \in 1..Len(g[i]) : g[j][q] = g[i][q]
              T == {j \in i..N : Same(j)}
  <2>1. i \in T
    BY <1>1, <1>3
  <2>2. ASSUME NEW j \in (i + 1)..N, j - 1 \in T  PROVE j \in T
    <3>1. j \in 1..N /\ j \in i..N /\ j \in 0..N /\ j - 1 \in 0..N
      BY <1>1
    <3>2. Len(g[i]) \in Nat /\ Len(g[j-1]) \in Nat /\ Len(g[j]) \in Nat /\ Len(outs[j]) \in Nat
      BY <1>1, <1>3, <3>1
    <3>. DEFINE a == Len(g[i])
                b == Len(g[j-1])
                c == Len(outs[j])
    <3>3. Len(g[j]) = b + c /\ \A q \in 1..b : g[j][q] = g[j-1][q]
      BY <1>4, <3>1
    <3>4. a <= b /\ \A q \in 1..a : g[j-1][q] = g[i][q]
      BY <2>2
    <3>5. a \in Nat /\ b \in Nat /\ c \in Nat
      BY <3>2
    <3>. HIDE DEF a, b, c
    <3>6. a <= Len(g[j]) /\ 1..a \subseteq 1..b
      BY <3>3, <3>4, <3>5
    <3>7. \A q \in 1..a : g[j][q] = g[i][q]
      BY <3>3, <3>4, <3>6
    <3>. QED
      BY <3>1, <3>6, <3>7 DEF a
  <2>. HIDE DEF T
  <2>3. i \in Nat /\ N \in Nat
    BY <1>1
  <2>4. i..N \subseteq T
    BY <2>1, <2>2, <2>3, Upwards
  <2>. QED
    BY <2>4 DEF T
<1>. DEFINE off == [i \in 1..(N + 1) |-> Len(g[i-1])]
            O == g[N]
<1>6. ASSUME NEW i \in 1..N
      PROVE  /\ off[i+1] = off[i] + Len(outs[i])
             /\ \A k \in 1..Len(outs[i]) : O[off[i] + k] = outs[i][k]
  <2>1. i + 1 \in 1..(N + 1) /\ i \in 1..(N + 1) /\ (i + 1) - 1 = i /\ i \in 0..N /\ N \in i..N
    BY <1>1
  <2>2. off[i+1] = Len(g[i]) /\ off[i] = Len(g[i-1])
    BY <2>1
  <2>3. ASSUME NEW k \in 1..Len(outs[i])  PROVE O[off[i] + k] = outs[i][k]
    <3>1. g[i][off[i] + k] = outs[i][k]
      BY <1>4, <2>2
    <3>2. i - 1 \in 0..N /\ off[i] \in Nat /\ Len(outs[i]) \in Nat
      BY <1>1, <1>3, <1>4, <2>2
    <3>0. \A a, b \in Nat : \A c \in 1..b : a + c \in 1..(a + b)
      OBVIOUS
    <3>4. Len(g[i]) = off[i] + Len(outs[i])
      BY <1>4, <2>2
    <3>3. off[i] + k \in 1..Len(g[i])
      <4>. HIDE DEF off
      <4>. QED
        BY <3>0, <3>2, <3>4
    <3>. QED
      BY <1>5, <2>1, <3>1, <3>3
  <2>. QED
    BY <1>4, <2>2, <2>3
<1>7. off \in [1..(N + 1) -> Nat]
  <2>1. \A i \in 1..(N + 1) : i - 1 \in 0..N
    BY <1>1
  <2>. QED
    BY <1>3, <2>1
<1>8. off[1] = 0
  <2>1. 1 \in 1..(N + 1) /\ Len(<<>>) = 0
    BY <1>1
  <2>. QED
    BY <1>2, <2>1
<1>9. O \in Seq(OutRec) /\ Len(O) = off[N + 1]
  <2>1. N + 1 \in 1..(N + 1) /\ N \in 0..N /\ (N + 1) - 1 = N
    BY <1>1
  <2>. QED
    BY <1>3, <2>1
<1>. HIDE DEF off, O
<1>10. Layout(outs, O, off)
  BY <1>6, <1>7, <1>8, <1>9 DEF Layout, N
<1>. QED
  BY <1>2, <1>10 DEF O

-----------------------------------------------------------------------------
(* The outputs of a list of uops, one after the other *)

LEMMA LayoutLengths ==
    ASSUME NEW outs \in Seq(Seq(OutRec)), NEW O, NEW off, Layout(outs, O, off)
    PROVE  /\ Len(outs) \in Nat /\ Len(O) \in Nat
           /\ \A i \in 1..(Len(outs) + 1) : off[i] \in Nat
           /\ \A i \in 1..Len(outs) : /\ i \in 1..(Len(outs) + 1) /\ i + 1 \in 1..(Len(outs) + 1)
                                      /\ outs[i] \in Seq(OutRec)
                                      /\ Len(outs[i]) \in Nat
                                      /\ off[i+1] = off[i] + Len(outs[i])
<1>1. Len(outs) \in Nat /\ \A i \in 1..Len(outs) : outs[i] \in Seq(OutRec)
  OBVIOUS
<1>2. \A i \in 1..Len(outs) : Len(outs[i]) \in Nat
  BY <1>1, LenProperties
<1>3. Len(O) \in Nat
  BY LenProperties DEF Layout
<1>4. \A i \in 1..Len(outs) : i \in 1..(Len(outs) + 1) /\ i + 1 \in 1..(Len(outs) + 1)
  BY <1>1
<1>. QED
  BY <1>1, <1>2, <1>3, <1>4 DEF Layout

LEMMA LayoutMonotone ==
    ASSUME NEW outs \in Seq(Seq(OutRec)), NEW O, NEW off, Layout(outs, O, off),
           NEW i \in 1..(Len(outs) + 1), NEW j \in i..(Len(outs) + 1)
    PROVE  off[i] <= off[j]
<1>. DEFINE N == Len(outs)
            T == {x \in i..(N + 1) : off[i] <= off[x]}
<1>1. /\ N \in Nat /\ \A x \in 1..(N + 1) : off[x] \in Nat
  BY LayoutLengths
<1>2. i \in T
  BY <1>1
<1>3. ASSUME NEW x \in (i + 1)..(N + 1), x - 1 \in T  PROVE x \in T
  <2>1. x - 1 \in 1..N /\ (x - 1) + 1 = x /\ x \in 1..(N + 1) /\ x \in i..(N + 1)
    BY <1>1
  <2>2. off[(x - 1) + 1] = off[x - 1] + Len(outs[x - 1]) /\ Len(outs[x - 1]) \in Nat
    BY <2>1, LayoutLengths
  <2>3. off[x] \in Nat /\ off[x - 1] \in Nat /\ off[i] \in Nat /\ off[i] <= off[x - 1]
    BY <1>1, <1>3, <2>1
  <2>4. off[i] <= off[x]
    BY <2>1, <2>2, <2>3
  <2>. QED
    BY <2>1, <2>4
<1>. HIDE DEF T
<1>4. i \in Nat /\ N + 1 \in Nat
  BY <1>1
<1>5. i..(N + 1) \subseteq T
  BY <1>2, <1>3, <1>4, Upwards
<1>. QED
  BY <1>5 DEF T

LEMMA LayoutSpan ==
    ASSUME NEW outs \in Seq(Seq(OutRec)), NEW O, NEW off, Layout(outs, O, off),
           NEW i \in 1..Len(outs), NEW k \in 1..Len(outs[i])
    PROVE  /\ off[i] + k \in 1..Len(O) /\ O[off[i] + k] = outs[i][k]
           /\ \A j \in 1..(Len(outs) + 1) : (j > i => off[i] + k <= off[j])
                                            /\ (j <= i => off[j] < off[i] + k)
<1>. DEFINE N == Len(outs)
            n == Len(outs[i])
<1>1. N \in Nat /\ n \in Nat /\ off[i] \in Nat /\ off[i+1] = off[i] + n /\ Len(O) \in Nat
      /\ i \in 1..(N + 1) /\ i + 1 \in 1..(N + 1) /\ \A j \in 1..(N + 1) : off[j] \in Nat
  BY LayoutLengths
<1>2. ASSUME NEW j \in 1..(N + 1), j > i  PROVE off[i] + k <= off[j]
  <2>1. j \in (i + 1)..(N + 1)
    BY <1>1, <1>2
  <2>2. off[i+1] <= off[j]
    BY <1>1, <2>1, LayoutMonotone
  <2>3. k \in 1..n /\ off[j] \in Nat /\ off[i] \in Nat /\ n \in Nat
    BY <1>1
  <2>4. off[i] + n <= off[j]
    BY <1>1, <2>2
  <2>. HIDE DEF n
  <2>5. k \in Nat /\ k <= n
    BY <2>3
  <2>. QED
    BY <2>3, <2>4, <2>5
<1>3. ASSUME NEW j \in 1..(N + 1), j <= i  PROVE off[j] < off[i] + k
  <2>1. i \in j..(N + 1)
    BY <1>1, <1>3
  <2>2. off[j] <= off[i]
    BY <2>1, LayoutMonotone
  <2>. HIDE DEF n
  <2>. QED
    BY <1>1, <2>2
<1>4. Len(O) = off[N + 1] /\ O[off[i] + k] = outs[i][k]
  BY DEF Layout
<1>5. off[i] + k \in 1..Len(O)
  <2>1. N + 1 \in 1..(N + 1) /\ N + 1 > i
    BY <1>1
  <2>2. off[i] + k <= off[N + 1]
    BY <1>2, <2>1
  <2>. HIDE DEF n
  <2>. QED
    BY <1>1, <1>4, <2>2
<1>. QED
  BY <1>2, <1>3, <1>4, <1>5

LEMMA LayoutLocate ==
    ASSUME NEW outs \in Seq(Seq(OutRec)), NEW O, NEW off, Layout(outs, O, off),
           NEW q \in 1..Len(O)
    PROVE  \E i \in 1..Len(outs) : \E k \in 1..Len(outs[i]) : q = off[i] + k
<1>. DEFINE N == Len(outs)
            T == {x \in 1..(N + 1) : q <= off[x]}
<1>1. N \in Nat /\ Len(O) \in Nat /\ \A x \in 1..(N + 1) : off[x] \in Nat
  BY LayoutLengths
<1>2. N + 1 \in T /\ T \in SUBSET Nat
  <2>1. Len(O) = off[N + 1] /\ N + 1 \in 1..(N + 1)
    BY <1>1 DEF Layout
  <2>. QED
    BY <1>1, <2>1
<1>3. PICK x \in T : \A y \in T : x <= y
  <2>. HIDE DEF T
  <2>. QED
    BY <1>2, Least
<1>4. off[1] = 0
  BY DEF Layout
<1>5. x # 1
  BY <1>1, <1>3, <1>4
<1>6. x - 1 \in 1..N /\ (x - 1) + 1 = x /\ x - 1 \in 1..(N + 1)
  BY <1>1, <1>3, <1>5
<1>7. x - 1 \notin T
  BY <1>1, <1>3, <1>6
<1>8. off[x] = off[x-1] + Len(outs[x-1]) /\ Len(outs[x-1]) \in Nat
  <2>1. off[(x-1)+1] = off[x-1] + Len(outs[x-1]) /\ Len(outs[x-1]) \in Nat
    BY <1>6, LayoutLengths
  <2>. QED
    BY <1>6, <2>1
<1>9. q - off[x-1] \in 1..Len(outs[x-1]) /\ q = off[x-1] + (q - off[x-1])
  <2>1. q <= off[x] /\ ~ (q <= off[x-1]) /\ off[x] \in Nat /\ off[x-1] \in Nat
    BY <1>1, <1>3, <1>6, <1>7
  <2>. DEFINE n == Len(outs[x-1])
              a == off[x-1]
  <2>2. n \in Nat /\ a \in Nat /\ q <= a + n /\ ~ (q <= a) /\ q \in Nat
    BY <1>1, <1>8, <2>1
  <2>. HIDE DEF n, a
  <2>3. q - a \in 1..n /\ q = a + (q - a)
    BY <2>2
  <2>. QED
    BY <2>3 DEF n, a
<1>. QED
  BY <1>6, <1>9

LEMMA LayoutUnique ==
    ASSUME NEW outs \in Seq(Seq(OutRec)), NEW O, NEW off, Layout(outs, O, off),
           NEW P, NEW pff, Layout(outs, P, pff)
    PROVE  O = P
<1>. DEFINE N == Len(outs)
            T == {x \in 1..(N + 1) : off[x] = pff[x]}
<1>1. N \in Nat
  BY LayoutLengths
<1>2. 1 \in T
  BY <1>1 DEF Layout
<1>3. ASSUME NEW x \in (1 + 1)..(N + 1), x - 1 \in T  PROVE x \in T
  <2>1. x - 1 \in 1..N /\ (x - 1) + 1 = x /\ x \in 1..(N + 1)
    BY <1>1
  <2>2. off[(x-1)+1] = off[x-1] + Len(outs[x-1]) /\ pff[(x-1)+1] = pff[x-1] + Len(outs[x-1])
    BY <2>1 DEF Layout
  <2>. QED
    BY <1>3, <2>1, <2>2
<1>. HIDE DEF T
<1>4. 1 \in Nat /\ N + 1 \in Nat
  BY <1>1
<1>5. 1..(N + 1) \subseteq T
  BY <1>2, <1>3, <1>4, Upwards
<1>6. \A x \in 1..(N + 1) : off[x] = pff[x]
  BY <1>5 DEF T
<1>7. Len(O) = Len(P)
  <2>1. N + 1 \in 1..(N + 1)
    BY <1>1
  <2>. QED
    BY <1>6, <2>1 DEF Layout
<1>8. ASSUME NEW q \in 1..Len(O)  PROVE O[q] = P[q]
  <2>0. PICK i \in 1..N : \E k \in 1..Len(outs[i]) : q = off[i] + k
    BY LayoutLocate
  <2>1. PICK k \in 1..Len(outs[i]) : q = off[i] + k
    BY <2>0
  <2>2. O[off[i] + k] = outs[i][k] /\ P[pff[i] + k] = outs[i][k]
    BY DEF Layout
  <2>3. off[i] = pff[i]
    BY <1>1, <1>6
  <2>. QED
    BY <2>1, <2>2, <2>3
<1>9. O \in Seq(OutRec) /\ P \in Seq(OutRec)
  BY DEF Layout
<1>. QED
  BY <1>7, <1>8, <1>9, SeqEqual

\* The first uops, and the ones that follow them.
LEMMA LayoutPrefix ==
    ASSUME NEW outs \in Seq(Seq(OutRec)), NEW O, NEW off, Layout(outs, O, off),
           NEW m \in 0..Len(outs)
    PROVE  /\ off[m+1] \in 0..Len(O)
           /\ Layout(SubSeq(outs, 1, m), SubSeq(O, 1, off[m+1]), [i \in 1..(m + 1) |-> off[i]])
<1>. DEFINE N == Len(outs)
            M == off[m+1]
            outs1 == SubSeq(outs, 1, m)
            O1 == SubSeq(O, 1, M)
            off1 == [i \in 1..(m + 1) |-> off[i]]
<1>1. N \in Nat /\ Len(O) \in Nat /\ m + 1 \in 1..(N + 1) /\ m \in Nat /\ N + 1 \in (m + 1)..(N + 1)
      /\ O \in Seq(OutRec) /\ Len(O) = off[N + 1]
  BY LayoutLengths DEF Layout
<1>2. M \in 0..Len(O)
  <2>1. M \in Nat
    BY <1>1, LayoutLengths
  <2>2. off[m+1] <= off[N+1]
    BY <1>1, LayoutMonotone
  <2>. QED
    BY <1>1, <2>1, <2>2
<1>3. Len(outs1) = m /\ \A i \in 1..m : outs1[i] = outs[i]
  BY <1>1
<1>4. O1 \in Seq(OutRec) /\ Len(O1) = M /\ \A q \in 1..M : O1[q] = O[q]
  <2>. HIDE DEF M
  <2>. QED
    BY <1>1, <1>2
<1>5. off1 \in [1..(m + 1) -> Nat] /\ off1[1] = 0 /\ off1[m + 1] = M
  <2>1. \A i \in 1..(m + 1) : i \in 1..(N + 1)
    BY <1>1
  <2>2. \A i \in 1..(m + 1) : off[i] \in Nat
    BY <2>1, LayoutLengths
  <2>3. off[1] = 0
    BY DEF Layout
  <2>. QED
    BY <1>1, <2>2, <2>3
<1>6. ASSUME NEW i \in 1..m
      PROVE  /\ off1[i+1] = off1[i] + Len(outs1[i])
             /\ \A k \in 1..Len(outs1[i]) : O1[off1[i] + k] = outs1[i][k]
  <2>1. i \in 1..N /\ i \in 1..(m + 1) /\ i + 1 \in 1..(m + 1) /\ outs1[i] = outs[i]
    BY <1>1, <1>3
  <2>2. off1[i] = off[i] /\ off1[i+1] = off[i+1]
    BY <2>1
  <2>3. off[i+1] = off[i] + Len(outs[i])
    BY <2>1 DEF Layout
  <2>4. ASSUME NEW k \in 1..Len(outs[i])  PROVE O1[off[i] + k] = outs[i][k]
    <3>1. m + 1 > i
      BY <1>1
    <3>2. off[i] + k \in 1..Len(O) /\ O[off[i] + k] = outs[i][k] /\ off[i] + k <= off[m+1]
      BY <1>1, <2>1, <3>1, LayoutSpan
    <3>3. off[i] + k \in 1..M
      BY <1>1, <1>2, <3>2
    <3>. QED
      BY <1>4, <3>2, <3>3
  <2>. QED
    BY <2>1, <2>2, <2>3, <2>4
<1>. HIDE DEF outs1, O1, off1, M
<1>7. Layout(outs1, O1, off1)
  BY <1>3, <1>4, <1>5, <1>6 DEF Layout
<1>. QED
  BY <1>2, <1>7 DEF outs1, O1, off1, M

LEMMA LayoutSuffix ==
    ASSUME NEW outs \in Seq(Seq(OutRec)), NEW O, NEW off, Layout(outs, O, off),
           NEW m \in 0..Len(outs)
    PROVE  Layout(SubSeq(outs, m + 1, Len(outs)), SubSeq(O, off[m+1] + 1, Len(O)),
                  [i \in 1..(Len(outs) - m + 1) |-> off[i+m] - off[m+1]])
<1>. DEFINE N == Len(outs)
            L == Len(O)
            M == off[m+1]
            outs1 == SubSeq(outs, m + 1, N)
            O1 == SubSeq(O, M + 1, L)
            off1 == [i \in 1..(N - m + 1) |-> off[i+m] - M]
<1>1. N \in Nat /\ L \in Nat /\ m + 1 \in 1..(N + 1) /\ m \in Nat
      /\ O \in Seq(OutRec) /\ L = off[N + 1] /\ N - m \in Nat
  BY LayoutLengths DEF Layout
<1>2. M \in 0..L
  BY LayoutPrefix
<1>3. Len(outs1) = N - m /\ \A i \in 1..(N - m) : outs1[i] = outs[i+m]
  <2>1. \A i \in (m + 1)..N : outs[i] \in Seq(OutRec)
    BY <1>1
  <2>2. /\ Len(outs1) = IF m + 1 <= N THEN N - (m + 1) + 1 ELSE 0
        /\ \A i \in 1..(N - (m + 1) + 1) : outs1[i] = outs[(m + 1) + i - 1]
    <3>. HIDE DEF N
    <3>. QED
      BY <1>1, <2>1, SubSeqProperties
  <2>. HIDE DEF outs1
  <2>3. N - (m + 1) + 1 = N - m /\ (~ (m + 1 <= N) => N - m = 0) /\ \A i \in 1..(N - m) : (m + 1) + i - 1 = i + m
    BY <1>1
  <2>. QED
    BY <2>2, <2>3
<1>4. O1 \in Seq(OutRec) /\ Len(O1) = L - M /\ \A q \in 1..(L - M) : O1[q] = O[M+q]
  <2>. HIDE DEF M, L
  <2>1. \A i \in (M + 1)..L : O[i] \in OutRec
    BY <1>1, <1>2 DEF L
  <2>2. /\ O1 \in Seq(OutRec) /\ Len(O1) = IF M + 1 <= L THEN L - (M + 1) + 1 ELSE 0
        /\ \A i \in 1..(L - (M + 1) + 1) : O1[i] = O[(M + 1) + i - 1]
    BY <1>1, <1>2, <2>1, SubSeqProperties
  <2>. HIDE DEF O1
  <2>3. L - (M + 1) + 1 = L - M /\ (~ (M + 1 <= L) => L - M = 0) /\ \A i \in 1..(L - M) : (M + 1) + i - 1 = M + i
    BY <1>1, <1>2
  <2>. QED
    BY <2>2, <2>3
<1>5. off1 \in [1..(N - m + 1) -> Nat] /\ off1[1] = 0 /\ off1[N - m + 1] = L - M
  <2>1. ASSUME NEW i \in 1..(N - m + 1)  PROVE i + m \in (m + 1)..(N + 1) /\ i + m \in 1..(N + 1)
    BY <1>1
  <2>2. ASSUME NEW i \in 1..(N - m + 1)  PROVE off[i+m] - M \in Nat
    <3>1. off[m+1] <= off[i+m]
      BY <1>1, <2>1, LayoutMonotone
    <3>2. off[i+m] \in Nat
      BY <2>1, LayoutLengths
    <3>. QED
      BY <1>2, <3>1, <3>2
  <2>3. 1 \in 1..(N - m + 1) /\ N - m + 1 \in 1..(N - m + 1) /\ (N - m + 1) + m = N + 1 /\ 1 + m = m + 1
    BY <1>1
  <2>4. off1[1] = M - M /\ off1[N - m + 1] = L - M
    BY <1>1, <2>3
  <2>5. M - M = 0
    BY <1>2
  <2>. QED
    BY <2>2, <2>4, <2>5
<1>6. ASSUME NEW i \in 1..(N - m)
      PROVE  /\ off1[i+1] = off1[i] + Len(outs1[i])
             /\ \A k \in 1..Len(outs1[i]) : O1[off1[i] + k] = outs1[i][k]
  <2>1. i + m \in 1..N /\ i \in 1..(N - m + 1) /\ i + 1 \in 1..(N - m + 1) /\ outs1[i] = outs[i+m]
        /\ (i + 1) + m = (i + m) + 1 /\ i + m >= m + 1 /\ m + 1 \in 1..(N + 1) /\ m + 1 <= i + m
    BY <1>1, <1>3
  <2>2. off1[i] = off[i+m] - M /\ off1[i+1] = off[(i+m)+1] - M
    BY <2>1
  <2>3. off[(i+m)+1] = off[i+m] + Len(outs[i+m]) /\ Len(outs[i+m]) \in Nat /\ off[i+m] \in Nat
    BY <2>1, LayoutLengths
  <2>4. ASSUME NEW k \in 1..Len(outs[i+m])  PROVE O1[off1[i] + k] = outs[i+m][k]
    <3>0. /\ off[i+m] + k \in 1..L /\ O[off[i+m] + k] = outs[i+m][k]
          /\ \A j \in 1..(N + 1) : j <= i + m => off[j] < off[i+m] + k
      <4>. HIDE DEF outs1, O1, off1, M
      <4>1. i + m \in 1..N
        BY <2>1
      <4>. QED
        BY <4>1, LayoutSpan
    <3>1. off[i+m] + k \in 1..L /\ O[off[i+m] + k] = outs[i+m][k] /\ off[m+1] < off[i+m] + k
      BY <2>1, <3>0
    <3>2. (off[i+m] - M) + k \in 1..(L - M) /\ M + ((off[i+m] - M) + k) = off[i+m] + k
      <4>. DEFINE a == off[i+m]
                  n == Len(outs[i+m])
      <4>1. a \in Nat /\ n \in Nat /\ k \in 1..n /\ a + k \in 1..L /\ M < a + k /\ M \in 0..L /\ L \in Nat
        BY <1>1, <1>2, <2>3, <3>1
      <4>. HIDE DEF a, n, M, L
      <4>2. (a - M) + k \in 1..(L - M) /\ M + ((a - M) + k) = a + k
        BY <4>1
      <4>. QED
        BY <4>2 DEF a
    <3>. QED
      BY <1>4, <2>2, <3>1, <3>2
  <2>5. off1[i+1] = off1[i] + Len(outs[i+m])
    <3>. DEFINE a == off[i+m]
                n == Len(outs[i+m])
    <3>1. a \in Nat /\ n \in Nat /\ off1[i] = a - M /\ off1[i+1] = (a + n) - M /\ M \in 0..L /\ L \in Nat
      BY <1>1, <1>2, <2>2, <2>3
    <3>. HIDE DEF a, n, off1, M, L
    <3>2. off1[i+1] = off1[i] + n
      BY <3>1
    <3>. QED
      BY <3>2 DEF n
  <2>. QED
    BY <2>1, <2>4, <2>5
<1>. HIDE DEF outs1, O1, off1, M, L, N
<1>7. Layout(outs1, O1, off1)
  BY <1>1, <1>3, <1>4, <1>5, <1>6 DEF Layout
<1>. QED
  BY <1>7 DEF outs1, O1, off1, M, L, N

\* One more uop.
LEMMA LayoutAppend ==
    ASSUME NEW outs \in Seq(Seq(OutRec)), NEW O, NEW off, Layout(outs, O, off),
           NEW x \in Seq(OutRec)
    PROVE  Layout(Append(outs, x), O \o x,
                  [i \in 1..(Len(outs) + 2) |-> IF i <= Len(outs) + 1 THEN off[i] ELSE Len(O) + Len(x)])
<1>. DEFINE N == Len(outs)
            L == Len(O)
            n == Len(x)
            outs1 == Append(outs, x)
            O1 == O \o x
            off1 == [i \in 1..(N + 2) |-> IF i <= N + 1 THEN off[i] ELSE L + n]
<1>1. N \in Nat /\ L \in Nat /\ n \in Nat /\ O \in Seq(OutRec) /\ L = off[N + 1] /\ off[1] = 0
  BY LayoutLengths, LenProperties DEF Layout
<1>2. Len(outs1) = N + 1 /\ outs1[N+1] = x /\ \A i \in 1..N : outs1[i] = outs[i]
  BY <1>1, AppendProperties
<1>3. /\ O1 \in Seq(OutRec) /\ Len(O1) = L + n
      /\ \A q \in 1..L : O1[q] = O[q]
      /\ \A k \in 1..n : O1[L+k] = x[k]
  <2>1. /\ O1 \in Seq(OutRec) /\ Len(O1) = L + n
        /\ \A q \in 1..(L + n) : O1[q] = IF q <= L THEN O[q] ELSE x[q - L]
    BY <1>1, ConcatProperties
  <2>. HIDE DEF O1, L, n
  <2>2. \A q \in 1..L : q \in 1..(L + n) /\ q <= L
    BY <1>1
  <2>3. \A k \in 1..n : L + k \in 1..(L + n) /\ ~ (L + k <= L) /\ (L + k) - L = k
    BY <1>1
  <2>. QED
    BY <2>1, <2>2, <2>3
<1>4. off1 \in [1..(N + 2) -> Nat] /\ off1[1] = 0 /\ off1[N + 2] = L + n
  <2>1. \A i \in 1..(N + 1) : off[i] \in Nat
    BY LayoutLengths
  <2>2. \A i \in 1..(N + 2) : i <= N + 1 => i \in 1..(N + 1)
    BY <1>1
  <2>3. 1 \in 1..(N + 2) /\ 1 <= N + 1 /\ N + 2 \in 1..(N + 2) /\ ~ (N + 2 <= N + 1)
    BY <1>1
  <2>4. L + n \in Nat
    BY <1>1
  <2>. HIDE DEF N, L, n
  <2>. QED
    BY <1>1, <2>1, <2>2, <2>3, <2>4
<1>5. ASSUME NEW i \in 1..(N + 1)
      PROVE  /\ off1[i+1] = off1[i] + Len(outs1[i])
             /\ \A k \in 1..Len(outs1[i]) : O1[off1[i] + k] = outs1[i][k]
  <2>1. i \in 1..(N + 2) /\ i + 1 \in 1..(N + 2) /\ i <= N + 1
    BY <1>1
  <2>2. CASE i = N + 1
    <3>1. off1[i] = L /\ off1[i+1] = L + n /\ outs1[i] = x
      <4>1. ~ (i + 1 <= N + 1)
        BY <1>1, <2>2
      <4>. QED
        BY <1>1, <1>2, <2>1, <2>2, <4>1
    <3>. QED
      BY <1>3, <3>1
  <2>3. CASE i # N + 1
    <3>1. i \in 1..N /\ i + 1 <= N + 1
      BY <1>1, <2>3
    <3>2. off1[i] = off[i] /\ off1[i+1] = off[i+1] /\ outs1[i] = outs[i]
      BY <1>2, <2>1, <3>1
    <3>3. off[i+1] = off[i] + Len(outs[i])
      BY <3>1, LayoutLengths
    <3>4. ASSUME NEW k \in 1..Len(outs[i])  PROVE O1[off[i] + k] = outs[i][k]
      <4>1. off[i] + k \in 1..L /\ O[off[i] + k] = outs[i][k]
        BY <3>1, LayoutSpan
      <4>. QED
        BY <1>3, <4>1
    <3>. QED
      BY <3>2, <3>3, <3>4
  <2>. QED
    BY <2>2, <2>3
<1>. HIDE DEF outs1, O1, off1, L, n
<1>6. Layout(outs1, O1, off1)
  <2>1. (N + 1) + 1 = N + 2
    BY <1>1
  <2>. HIDE DEF N
  <2>. QED
    BY <1>2, <1>3, <1>4, <1>5, <2>1 DEF Layout
<1>. QED
  BY <1>6 DEF outs1, O1, off1, L, n

-----------------------------------------------------------------------------
(* The mapping tables between the outputs *)

\* maps[q] is the mapping table before output q of O; the last one is the table
\* after all of them.
Chained(O, maps) ==
    /\ maps \in [1..(Len(O) + 1) -> [Loreg -> Phreg]]
    /\ \A q \in 1..Len(O) : /\ O[q].old = maps[q][O[q].lo]
                            /\ maps[q+1] = [maps[q] EXCEPT ![O[q].lo] = O[q].ph]

LEMMA ChainTypes ==
    ASSUME NEW O \in Seq(OutRec), NEW maps, Chained(O, maps)
    PROVE  /\ Len(O) \in Nat
           /\ \A q \in 1..(Len(O) + 1) : maps[q] \in [Loreg -> Phreg]
           /\ \A q \in 1..Len(O) : /\ q \in 1..(Len(O) + 1) /\ q + 1 \in 1..(Len(O) + 1)
                                   /\ O[q] \in OutRec /\ O[q].lo \in Loreg
                                   /\ O[q].ph \in Phreg /\ O[q].old \in Phreg
<1>1. Len(O) \in Nat /\ \A q \in 1..Len(O) : O[q] \in OutRec
  OBVIOUS
<1>2. \A q \in 1..Len(O) : q \in 1..(Len(O) + 1) /\ q + 1 \in 1..(Len(O) + 1)
  BY <1>1
<1>3. \A q \in 1..Len(O) : O[q].lo \in Loreg /\ O[q].ph \in Phreg /\ O[q].old \in Phreg
  BY <1>1 DEF OutRec
<1>4. \A q \in 1..(Len(O) + 1) : maps[q] \in [Loreg -> Phreg]
  BY DEF Chained
<1>. QED
  BY <1>1, <1>2, <1>3, <1>4

LEMMA ChainStep ==
    ASSUME NEW O \in Seq(OutRec), NEW maps, Chained(O, maps), NEW q \in 1..Len(O)
    PROVE  /\ O[q].old = maps[q][O[q].lo]
           /\ maps[q+1][O[q].lo] = O[q].ph
           /\ \A l \in Loreg : l # O[q].lo => maps[q+1][l] = maps[q][l]
<1>1. maps[q] \in [Loreg -> Phreg] /\ O[q].lo \in Loreg
  BY ChainTypes
<1>2. maps[q+1] = [maps[q] EXCEPT ![O[q].lo] = O[q].ph] /\ O[q].old = maps[q][O[q].lo]
  BY DEF Chained
<1>. QED
  BY <1>1, <1>2

LEMMA Unwritten ==
    ASSUME NEW O \in Seq(OutRec), NEW maps, Chained(O, maps),
           NEW a \in 1..(Len(O) + 1), NEW b \in a..(Len(O) + 1), NEW l \in Loreg,
           \A q \in a..(b - 1) : O[q].lo # l
    PROVE  maps[b][l] = maps[a][l]
<1>. DEFINE L == Len(O)
            T == {x \in a..b : maps[x][l] = maps[a][l]}
<1>1. L \in Nat /\ a \in Nat /\ b \in Nat
  BY ChainTypes
<1>2. a \in T
  BY <1>1
<1>3. ASSUME NEW x \in (a + 1)..b, x - 1 \in T  PROVE x \in T
  <2>1. x - 1 \in 1..L /\ x - 1 \in a..(b - 1) /\ (x - 1) + 1 = x /\ x \in a..b
    BY <1>1
  <2>2. O[x-1].lo # l
    BY <2>1
  <2>3. maps[(x-1)+1][l] = maps[x-1][l]
    BY <2>1, <2>2, ChainStep
  <2>. QED
    BY <1>3, <2>1, <2>3
<1>. HIDE DEF T
<1>4. a..b \subseteq T
  BY <1>1, <1>2, <1>3, Upwards
<1>5. b \in a..b
  BY <1>1
<1>. QED
  BY <1>4, <1>5 DEF T

\* After an output its register is the one mapped, until the next one.
LEMMA LastWriter ==
    ASSUME NEW O \in Seq(OutRec), NEW maps, Chained(O, maps),
           NEW q \in 1..Len(O), NEW b \in (q + 1)..(Len(O) + 1),
           \A x \in (q + 1)..(b - 1) : O[x].lo # O[q].lo
    PROVE  maps[b][O[q].lo] = O[q].ph
<1>1. O[q].lo \in Loreg /\ q + 1 \in 1..(Len(O) + 1)
  BY ChainTypes
<1>2. maps[b][O[q].lo] = maps[q+1][O[q].lo]
  BY <1>1, Unwritten
<1>3. maps[q+1][O[q].lo] = O[q].ph
  BY ChainStep
<1>. QED
  BY <1>2, <1>3

LEMMA LoregFinite == IsFiniteSet(Loreg)
BY PipelineAssumption

LEMMA IntervalFinite == \A a, b \in Int : IsFiniteSet(a..b)
BY FS_Interval

LEMMA PhsAndOlds ==
    ASSUME NEW O \in Seq(OutRec)
    PROVE  /\ Phs(O) \in Seq(Phreg) /\ Len(Phs(O)) = Len(O)
           /\ Olds(O) \in Seq(Phreg) /\ Len(Olds(O)) = Len(O)
           /\ \A q \in 1..Len(O) : Phs(O)[q] = O[q].ph /\ Olds(O)[q] = O[q].old
<1>. DEFINE L == Len(O)
<1>1. L \in Nat /\ DOMAIN O = 1..L /\ \A q \in 1..L : O[q] \in OutRec
  OBVIOUS
<1>2. \A q \in 1..L : O[q].ph \in Phreg /\ O[q].old \in Phreg
  BY <1>1 DEF OutRec
<1>. HIDE DEF L
<1>3. Phs(O) = [q \in 1..L |-> O[q].ph] /\ Olds(O) = [q \in 1..L |-> O[q].old]
  BY <1>1 DEF Phs, Olds
<1>4. Phs(O) \in [1..L -> Phreg] /\ Olds(O) \in [1..L -> Phreg]
  BY <1>2, <1>3
<1>5. Phs(O) \in Seq(Phreg) /\ Len(Phs(O)) = L
  BY <1>1, <1>4
<1>6. Olds(O) \in Seq(Phreg) /\ Len(Olds(O)) = L
  BY <1>1, <1>4
<1>. QED
  BY <1>3, <1>5, <1>6 DEF L

\* Between two tables each register is mapped as often more as it is an output
\* more often than it is replaced.
LEMMA Exchange ==
    ASSUME NEW O \in Seq(OutRec), NEW maps, Chained(O, maps),
           NEW a \in 1..(Len(O) + 1), NEW b \in a..(Len(O) + 1), NEW p
    PROVE  Count(maps[b], Loreg, p) + Count(Olds(O), a..(b - 1), p)
           = Count(maps[a], Loreg, p) + Count(Phs(O), a..(b - 1), p)
<1>. DEFINE L == Len(O)
            Uses(x) == Count(maps[x], Loreg, p)
            Old(x) == Count(Olds(O), a..(x - 1), p)
            New1(x) == Count(Phs(O), a..(x - 1), p)
            T == {x \in a..b : Uses(x) + Old(x) = Uses(a) + New1(x)}
<1>1. L \in Nat /\ a \in Nat /\ b \in Nat
  BY ChainTypes
<1>2. a \in T
  <2>1. a..(a - 1) = {} /\ a \in a..b
    BY <1>1
  <2>2. Old(a) = 0 /\ New1(a) = 0
    BY <2>1, CountEmpty
  <2>. QED
    BY <2>1, <2>2
<1>3. ASSUME NEW x \in (a + 1)..b, x - 1 \in T  PROVE x \in T
  <2>. DEFINE q == x - 1
              S == a..(q - 1)
              o == O[q].old
              n == O[q].ph
  <2>1. q \in 1..L /\ q + 1 = x /\ a..(x - 1) = S \cup {q} /\ q \notin S /\ x \in a..b /\ q - 1 \in Int
    BY <1>1
  <2>2. /\ IsFiniteSet(S) /\ Olds(O)[q] = o /\ Phs(O)[q] = n
    BY <1>1, <2>1, IntervalFinite, PhsAndOlds
  <2>3. /\ maps[q] \in [Loreg -> Phreg] /\ O[q].lo \in Loreg /\ n \in Phreg
    BY <2>1, ChainTypes
  <2>4. maps[x] = [maps[q] EXCEPT ![O[q].lo] = n] /\ o = maps[q][O[q].lo]
    BY <2>1 DEF Chained
  <2>5. Uses(x) + (IF o = p THEN 1 ELSE 0) = Uses(q) + (IF n = p THEN 1 ELSE 0)
    <3>. HIDE DEF q, n, o
    <3>. QED
      BY <2>3, <2>4, LoregFinite, CountExcept
  <2>. HIDE DEF S, q
  <2>6. /\ o = p => Old(x) = Count(Olds(O), S, p) + 1
        /\ o # p => Old(x) = Count(Olds(O), S, p)
    BY <2>1, <2>2, CountAdd
  <2>7. /\ n = p => New1(x) = Count(Phs(O), S, p) + 1
        /\ n # p => New1(x) = Count(Phs(O), S, p)
    BY <2>1, <2>2, CountAdd
  <2>8. Uses(q) + Count(Olds(O), S, p) = Uses(a) + Count(Phs(O), S, p)
    BY <1>3 DEF q, S
  <2>9. Count(Olds(O), S, p) \in Nat /\ Count(Phs(O), S, p) \in Nat
    BY <2>2, CountType
  <2>10. Uses(x) \in Nat /\ Uses(q) \in Nat /\ Uses(a) \in Nat
    BY LoregFinite, CountType
  <2>11. Uses(x) + Old(x) = Uses(a) + New1(x)
    <3>. DEFINE A == Count(Olds(O), S, p)
                B == Count(Phs(O), S, p)
    <3>1. A \in Nat /\ B \in Nat /\ Uses(q) + A = Uses(a) + B
      BY <2>8, <2>9
    <3>. DEFINE io == IF o = p THEN 1 ELSE 0
                in == IF n = p THEN 1 ELSE 0
    <3>2. Old(x) = A + io
      <4>1. (o = p => Old(x) = A + 1) /\ (o # p => Old(x) = A)
        BY <2>6
      <4>. HIDE DEF Old, o, A
      <4>. QED
        BY <3>1, <4>1
    <3>3. New1(x) = B + in
      <4>1. (n = p => New1(x) = B + 1) /\ (n # p => New1(x) = B)
        BY <2>7
      <4>. HIDE DEF New1, n, B
      <4>. QED
        BY <3>1, <4>1
    <3>4. Uses(x) + io = Uses(q) + in /\ io \in Nat /\ in \in Nat
      BY <2>5
    <3>. DEFINE ux == Uses(x)
                uq == Uses(q)
                ua == Uses(a)
    <3>5. ux \in Nat /\ uq \in Nat /\ ua \in Nat
      BY <2>10
    <3>6. ux + io = uq + in /\ uq + A = ua + B
      BY <3>1, <3>4
    <3>. HIDE DEF io, in, A, B, ux, uq, ua
    <3>7. ux + (A + io) = ua + (B + in)
      BY <3>1, <3>4, <3>5, <3>6
    <3>. HIDE DEF Uses, Old, New1
    <3>. QED
      BY <3>2, <3>3, <3>7 DEF ux, ua
  <2>. QED
    BY <2>1, <2>11
<1>. HIDE DEF T
<1>4. a..b \subseteq T
  BY <1>1, <1>2, <1>3, Upwards
<1>5. b \in a..b
  BY <1>1
<1>. QED
  BY <1>4, <1>5 DEF T

\* The output of a uop is mapped, or some later uop may have to restore it.
LEMMA OutputInUse ==
    ASSUME NEW O \in Seq(OutRec), NEW maps, Chained(O, maps), NEW q \in 1..Len(O)
    PROVE  Count(maps[Len(O) + 1], Loreg, O[q].ph) > 0 \/ Count(Olds(O), 1..Len(O), O[q].ph) > 0
<1>. DEFINE L == Len(O)
            T == {x \in (q + 1)..L : O[x].lo = O[q].lo}
<1>1. L \in Nat /\ O[q].lo \in Loreg /\ L + 1 \in (q + 1)..(L + 1)
  BY ChainTypes
<1>2. CASE T = {}
  <2>1. \A x \in (q + 1)..((L + 1) - 1) : O[x].lo # O[q].lo
    BY <1>1, <1>2
  <2>2. maps[L + 1][O[q].lo] = O[q].ph
    BY <1>1, <2>1, LastWriter
  <2>. QED
    BY <1>1, <2>2, LoregFinite, CountPositive
<1>3. CASE T # {}
  <2>1. T \in SUBSET Nat
    OBVIOUS
  <2>2. PICK x \in T : \A y \in T : x <= y
    <3>. HIDE DEF T
    <3>. QED
      BY <1>3, <2>1, Least
  <2>3. x \in 1..L /\ x \in (q + 1)..(L + 1)
    BY <1>1
  <2>4. \A y \in (q + 1)..(x - 1) : O[y].lo # O[q].lo
    BY <1>1, <2>2
  <2>5. maps[x][O[q].lo] = O[q].ph
    BY <2>3, <2>4, LastWriter
  <2>6. O[x].old = O[q].ph
    <3>1. O[x].old = maps[x][O[x].lo]
      BY <2>3 DEF Chained
    <3>. QED
      BY <2>5, <3>1
  <2>7. Olds(O)[x] = O[q].ph
    BY <2>3, <2>6, PhsAndOlds
  <2>8. IsFiniteSet(1..L)
    BY <1>1, IntervalFinite
  <2>. QED
    BY <2>3, <2>7, <2>8, CountPositive
<1>. QED
  BY <1>2, <1>3

LEMMA ChainPrefix ==
    ASSUME NEW O \in Seq(OutRec), NEW maps, Chained(O, maps), NEW M \in 0..Len(O)
    PROVE  Chained(SubSeq(O, 1, M), [q \in 1..(M + 1) |-> maps[q]])
<1>. DEFINE L == Len(O)
            O1 == SubSeq(O, 1, M)
            maps1 == [q \in 1..(M + 1) |-> maps[q]]
<1>1. L \in Nat /\ M \in Nat /\ \A q \in 1..(M + 1) : q \in 1..(L + 1)
  BY ChainTypes
<1>2. Len(O1) = M /\ \A q \in 1..M : O1[q] = O[q]
  BY <1>1
<1>3. maps1 \in [1..(M + 1) -> [Loreg -> Phreg]]
  BY <1>1, ChainTypes
<1>4. ASSUME NEW q \in 1..M
      PROVE  O1[q].old = maps1[q][O1[q].lo] /\ maps1[q+1] = [maps1[q] EXCEPT ![O1[q].lo] = O1[q].ph]
  <2>1. q \in 1..L /\ q \in 1..(M + 1) /\ q + 1 \in 1..(M + 1) /\ O1[q] = O[q]
    BY <1>1, <1>2
  <2>2. maps1[q] = maps[q] /\ maps1[q+1] = maps[q+1]
    BY <2>1
  <2>3. maps[q+1] = [maps[q] EXCEPT ![O[q].lo] = O[q].ph] /\ O[q].old = maps[q][O[q].lo]
    BY <2>1 DEF Chained
  <2>. QED
    BY <2>1, <2>2, <2>3
<1>. HIDE DEF O1, maps1
<1>5. Chained(O1, maps1)
  BY <1>2, <1>3, <1>4 DEF Chained
<1>. QED
  BY <1>5 DEF O1, maps1

LEMMA ChainSuffix ==
    ASSUME NEW O \in Seq(OutRec), NEW maps, Chained(O, maps), NEW M \in 0..Len(O)
    PROVE  Chained(SubSeq(O, M + 1, Len(O)), [q \in 1..(Len(O) - M + 1) |-> maps[q+M]])
<1>. DEFINE L == Len(O)
            O1 == SubSeq(O, M + 1, L)
            maps1 == [q \in 1..(L - M + 1) |-> maps[q+M]]
<1>1. L \in Nat /\ M \in Nat /\ L - M \in Nat /\ \A q \in 1..(L - M + 1) : q + M \in 1..(L + 1)
  BY ChainTypes
<1>2. Len(O1) = L - M /\ \A q \in 1..(L - M) : O1[q] = O[q+M]
  <2>. HIDE DEF L
  <2>1. \A i \in (M + 1)..L : O[i] \in OutRec
    BY <1>1 DEF L
  <2>2. /\ O1 \in Seq(OutRec) /\ Len(O1) = IF M + 1 <= L THEN L - (M + 1) + 1 ELSE 0
        /\ \A i \in 1..(L - (M + 1) + 1) : O1[i] = O[(M + 1) + i - 1]
    BY <1>1, <2>1, SubSeqProperties
  <2>. HIDE DEF O1
  <2>3. L - (M + 1) + 1 = L - M /\ (~ (M + 1 <= L) => L - M = 0) /\ \A i \in 1..(L - M) : (M + 1) + i - 1 = i + M
    BY <1>1
  <2>. QED
    BY <2>2, <2>3
<1>3. maps1 \in [1..(L - M + 1) -> [Loreg -> Phreg]]
  BY <1>1, ChainTypes
<1>4. ASSUME NEW q \in 1..(L - M)
      PROVE  O1[q].old = maps1[q][O1[q].lo] /\ maps1[q+1] = [maps1[q] EXCEPT ![O1[q].lo] = O1[q].ph]
  <2>0. q + M \in 1..L /\ q \in 1..(L - M + 1) /\ q + 1 \in 1..(L - M + 1)
        /\ (q + 1) + M = (q + M) + 1
    <3>. HIDE DEF L
    <3>. QED
      BY <1>1
  <2>1. q + M \in 1..L /\ O1[q] = O[q+M]
    BY <1>2, <2>0
  <2>2. maps1[q] = maps[q+M] /\ maps1[q+1] = maps[(q+M)+1]
    BY <2>0
  <2>3. maps[(q+M)+1] = [maps[q+M] EXCEPT ![O[q+M].lo] = O[q+M].ph] /\ O[q+M].old = maps[q+M][O[q+M].lo]
    BY <2>1 DEF Chained
  <2>. QED
    BY <2>1, <2>2, <2>3
<1>. HIDE DEF O1, maps1, L
<1>5. Chained(O1, maps1)
  BY <1>2, <1>3, <1>4 DEF Chained
<1>. QED
  BY <1>5 DEF O1, maps1, L

LEMMA ChainJoin ==
    ASSUME NEW O \in Seq(OutRec), NEW maps, Chained(O, maps),
           NEW x \in Seq(OutRec), NEW more, Chained(x, more), more[1] = maps[Len(O) + 1]
    PROVE  Chained(O \o x, [q \in 1..(Len(O) + Len(x) + 1) |->
                               IF q <= Len(O) + 1 THEN maps[q] ELSE more[q - Len(O)]])
<1>. DEFINE L == Len(O)
            n == Len(x)
            O1 == O \o x
            maps1 == [q \in 1..(L + n + 1) |-> IF q <= L + 1 THEN maps[q] ELSE more[q - L]]
<1>1. L \in Nat /\ n \in Nat
  BY ChainTypes
<1>2. /\ Len(O1) = L + n
      /\ \A q \in 1..(L + n) : O1[q] = IF q <= L THEN O[q] ELSE x[q - L]
  BY ConcatProperties
<1>3. \A q \in 1..(L + 1) : maps[q] \in [Loreg -> Phreg]
  BY ChainTypes
<1>4. \A q \in 1..(n + 1) : more[q] \in [Loreg -> Phreg]
  BY ChainTypes
<1>5. \A q \in 1..L : maps[q+1] = [maps[q] EXCEPT ![O[q].lo] = O[q].ph] /\ O[q].old = maps[q][O[q].lo]
  BY DEF Chained
<1>6. \A q \in 1..n : more[q+1] = [more[q] EXCEPT ![x[q].lo] = x[q].ph] /\ x[q].old = more[q][x[q].lo]
  BY DEF Chained
<1>7. more[1] = maps[L + 1]
  OBVIOUS
<1>. HIDE DEF O1, L, n
<1>8. maps1 \in [1..(L + n + 1) -> [Loreg -> Phreg]]
  <2>1. ASSUME NEW q \in 1..(L + n + 1)
        PROVE (q <= L + 1 => q \in 1..(L + 1)) /\ (~ (q <= L + 1) => q - L \in 1..(n + 1))
    BY <1>1
  <2>. QED
    BY <1>3, <1>4, <2>1
<1>9. ASSUME NEW q \in 1..(L + n)
      PROVE  O1[q].old = maps1[q][O1[q].lo] /\ maps1[q+1] = [maps1[q] EXCEPT ![O1[q].lo] = O1[q].ph]
  <2>1. q \in 1..(L + n + 1) /\ q + 1 \in 1..(L + n + 1)
    BY <1>1
  <2>2. CASE q <= L
    <3>1. q \in 1..L /\ q <= L + 1 /\ q + 1 <= L + 1
      BY <1>1, <2>2
    <3>2. O1[q] = O[q] /\ maps1[q] = maps[q] /\ maps1[q+1] = maps[q+1]
      BY <1>2, <2>1, <2>2, <3>1
    <3>. QED
      BY <1>5, <3>1, <3>2
  <2>3. CASE ~ (q <= L)
    <3>1. q - L \in 1..n /\ ~ (q + 1 <= L + 1) /\ (q + 1) - L = (q - L) + 1
      BY <1>1, <2>3
    <3>2. O1[q] = x[q-L] /\ maps1[q+1] = more[(q-L)+1]
      BY <1>2, <2>1, <2>3, <3>1
    <3>3. maps1[q] = more[q-L]
      <4>1. CASE q = L + 1
        <5>1. q - L = 1 /\ q <= L + 1
          BY <1>1, <4>1
        <5>. QED
          BY <1>7, <2>1, <4>1, <5>1
      <4>2. CASE q # L + 1
        <5>1. ~ (q <= L + 1)
          BY <1>1, <2>3, <4>2
        <5>. QED
          BY <2>1, <5>1
      <4>. QED
        BY <4>1, <4>2
    <3>. QED
      BY <1>6, <3>1, <3>2, <3>3
  <2>. QED
    BY <2>2, <2>3
<1>. HIDE DEF maps1
<1>10. Chained(O1, maps1)
  BY <1>2, <1>8, <1>9 DEF Chained
<1>. QED
  BY <1>10 DEF O1, maps1, L, n

-----------------------------------------------------------------------------
(* The register file *)

\* The free list holds the registers that nothing refers to, once each.
FreeExact(b, f) ==
    /\ f \in Seq(Phreg)
    /\ \A p \in Phreg : (\E j \in 1..Len(f) : f[j] = p) <=> b[p] = 0
    /\ \A j, k \in 1..Len(f) : f[j] = f[k] => j = k

LEMMA FreeFits ==
    ASSUME NEW f \in Seq(Phreg), \A j, k \in 1..Len(f) : f[j] = f[k] => j = k
    PROVE  Len(f) \in 0..Size
<1>1. Size \in Nat
  BY PipelineAssumption
<1>2. IsFiniteSet(Phreg) /\ Cardinality(Phreg) = Size
  <2>1. /\ IsFiniteSet(0..(Size - 1))
        /\ Cardinality(0..(Size - 1)) = IF 0 > Size - 1 THEN 0 ELSE (Size - 1) - 0 + 1
    BY <1>1, FS_Interval
  <2>. QED
    BY <1>1, <2>1 DEF Phreg
<1>. DEFINE n == Len(f)
<1>3. n \in Nat /\ f \in [1..n -> Phreg]
  BY LenProperties
<1>4. f \in Injection(1..n, Phreg)
  BY <1>3 DEF Injection, IsInjective
<1>. HIDE DEF n
<1>5. Cardinality(1..n) <= Cardinality(Phreg)
  BY <1>2, <1>4, FS_Injection
<1>6. Cardinality(1..n) = IF 1 > n THEN 0 ELSE n - 1 + 1
  BY <1>3, FS_Interval
<1>. QED
  BY <1>1, <1>2, <1>3, <1>5, <1>6 DEF n

LEMMA TimesIsCount ==
    ASSUME NEW S, NEW refs \in Seq(S), NEW p
    PROVE  /\ Times(refs, p) = Count(refs, 1..Len(refs), p)
           /\ Times(refs, p) \in Nat
           /\ Times(refs, p) > 0 <=> \E k \in 1..Len(refs) : refs[k] = p
<1>1. DOMAIN refs = 1..Len(refs) /\ Len(refs) \in Nat
  BY LenProperties
<1>2. Times(refs, p) = Count(refs, 1..Len(refs), p)
  BY <1>1 DEF Times, Count
<1>. DEFINE D == 1..Len(refs)
<1>3. IsFiniteSet(D)
  BY <1>1, IntervalFinite
<1>. HIDE DEF D
<1>4. Count(refs, D, p) \in Nat
  BY <1>3, CountType
<1>5. Count(refs, D, p) > 0 <=> \E k \in D : refs[k] = p
  BY <1>3, CountPositive
<1>. QED
  BY <1>2, <1>4, <1>5 DEF D

\* The registers whose references are given up.
LEMMA DropExact ==
    ASSUME busy \in [Phreg -> Nat], FreeExact(busy, free), NEW refs \in Seq(Phreg),
           \A p \in Phreg : Times(refs, p) <= busy[p], Drop(refs)
    PROVE  /\ busy' \in [Phreg -> Nat]
           /\ \A p \in Phreg : busy'[p] = busy[p] - Times(refs, p)
           /\ FreeExact(busy', free')
           /\ Len(free') \in Nat /\ count' = count - (Len(free') - Len(free))
<1>. DEFINE n == Len(refs)
            S == {k \in DOMAIN refs : LastOf(refs, k) /\ busy[refs[k]] = Times(refs, refs[k])}
            pos == [k \in DOMAIN refs |-> k]
            A == Among(pos, S)
            given == [k \in DOMAIN A |-> refs[A[k]]]
            L == Len(free)
            a == Len(A)
<1>1. n \in Nat /\ DOMAIN refs = 1..n /\ \A k \in 1..n : refs[k] \in Phreg
  OBVIOUS
<1>2. /\ busy' = [p \in Phreg |-> busy[p] - Times(refs, p)]
      /\ free' = free \o given
      /\ count' = count - a
  BY DEF Drop
<1>3. pos \in Seq(1..n) /\ Len(pos) = n /\ \A k \in 1..n : pos[k] = k
  BY <1>1
<1>4. S \subseteq 1..n
  BY <1>1
<1>. HIDE DEF S, n, pos
<1>5. /\ A \in Seq(1..n)
      /\ \A v : (\E j \in 1..Len(A) : A[j] = v) <=> (v \in S /\ \E k \in 1..Len(pos) : pos[k] = v)
      /\ \A i, j \in 1..Len(A) : A[i] = A[j] => i = j
  BY <1>3, AmongIs
<1>. HIDE DEF A
<1>6. a \in Nat /\ DOMAIN A = 1..a /\ \A j \in 1..a : A[j] \in 1..n
  <2>1. A \in Seq(1..n)
    BY <1>5
  <2>2. Len(A) \in Nat /\ DOMAIN A = 1..Len(A) /\ A \in [1..Len(A) -> 1..n]
    BY <2>1, LenProperties
  <2>. QED
    BY <2>2
<1>7. (\A j \in 1..a : A[j] \in S) /\ (\A k \in S : \E j \in 1..a : A[j] = k)
  BY <1>3, <1>4, <1>5
<1>8. given \in Seq(Phreg) /\ Len(given) = a /\ \A j \in 1..a : given[j] = refs[A[j]]
  <2>. HIDE DEF a
  <2>1. given \in [1..a -> Phreg]
    BY <1>1, <1>6
  <2>. QED
    BY <1>6, <2>1
<1>. HIDE DEF given
<1>9. free \in Seq(Phreg) /\ L \in Nat
  BY DEF FreeExact
<1>10. /\ free' \in Seq(Phreg) /\ Len(free') = L + a
       /\ \A j \in 1..(L + a) : free'[j] = IF j <= L THEN free[j] ELSE given[j - L]
  <2>1. given \in Seq(Phreg) /\ Len(given) = a /\ free \in Seq(Phreg)
    BY <1>8, <1>9
  <2>2. /\ free \o given \in Seq(Phreg) /\ Len(free \o given) = L + Len(given)
        /\ \A j \in 1..(L + Len(given)) : (free \o given)[j] = IF j <= L THEN free[j] ELSE given[j - L]
    BY <2>1, ConcatProperties
  <2>. HIDE DEF a, L
  <2>. QED
    BY <1>2, <2>1, <2>2
<1>. HIDE DEF a, L
<1>11. \A p \in Phreg : (\E j \in 1..L : free[j] = p) <=> busy[p] = 0
  BY DEF FreeExact, L
<1>12. \A p \in Phreg : busy[p] \in Nat /\ Times(refs, p) \in Nat /\ Times(refs, p) <= busy[p]
  BY TimesIsCount
<1>13. \A p \in Phreg : busy'[p] = busy[p] - Times(refs, p)
  BY <1>2
\* What is put on the free list has lost its last reference.
<1>14. ASSUME NEW p \in Phreg
       PROVE  (\E j \in 1..a : given[j] = p) <=> (Times(refs, p) > 0 /\ busy[p] = Times(refs, p))
  <2>1. ASSUME NEW j \in 1..a, given[j] = p  PROVE Times(refs, p) > 0 /\ busy[p] = Times(refs, p)
    <3>1. A[j] \in S /\ refs[A[j]] = p /\ A[j] \in 1..n
      BY <1>6, <1>7, <1>8, <2>1
    <3>2. busy[p] = Times(refs, p)
      BY <3>1 DEF S
    <3>. QED
      BY <3>1, <3>2, TimesIsCount DEF n
  <2>2. ASSUME Times(refs, p) > 0, busy[p] = Times(refs, p)  PROVE \E j \in 1..a : given[j] = p
    <3>. DEFINE T == {k \in 1..n : refs[k] = p}
    <3>0. \E k \in 1..n : refs[k] = p
      <4>1. Times(refs, p) > 0 <=> \E k \in 1..Len(refs) : refs[k] = p
        BY TimesIsCount
      <4>. QED
        BY <2>2, <4>1 DEF n
    <3>1. T # {} /\ T \in SUBSET (0..n)
      <4>1. T # {}
        BY <3>0
      <4>2. \A k \in 1..n : k \in 0..n
        BY <1>1
      <4>3. T \subseteq 1..n
        OBVIOUS
      <4>. HIDE DEF T
      <4>. QED
        BY <4>1, <4>2, <4>3
    <3>2. PICK x \in T : \A y \in T : y <= x
      <4>. HIDE DEF T
      <4>. QED
        BY <1>1, <3>1, Greatest
    <3>3. x \in 1..n /\ refs[x] = p /\ \A j \in 1..n : j > x => refs[j] # refs[x]
      BY <1>1, <3>2
    <3>4. x \in S
      BY <1>1, <2>2, <3>3 DEF S, LastOf
    <3>5. PICK j \in 1..a : A[j] = x
      BY <1>7, <3>4
    <3>. QED
      BY <1>8, <3>3, <3>5
  <2>. QED
    BY <2>1, <2>2
<1>15. ASSUME NEW p \in Phreg
       PROVE  (\E j \in 1..(L + a) : free'[j] = p)
              <=> ((\E j \in 1..L : free[j] = p) \/ (\E j \in 1..a : given[j] = p))
  <2>1. ASSUME NEW j \in 1..(L + a), free'[j] = p
        PROVE (\E i \in 1..L : free[i] = p) \/ (\E i \in 1..a : given[i] = p)
    <3>1. CASE j <= L
      <4>1. j \in 1..L /\ free[j] = p
        BY <1>6, <1>9, <1>10, <2>1, <3>1
      <4>. QED
        BY <4>1
    <3>2. CASE ~ (j <= L)
      <4>1. j - L \in 1..a
        BY <1>6, <1>9, <3>2 DEF a, L
      <4>2. given[j - L] = p
        BY <1>10, <2>1, <3>2
      <4>. QED
        BY <4>1, <4>2
    <3>. QED
      BY <3>1, <3>2
  <2>2. ASSUME NEW i \in 1..L, free[i] = p  PROVE \E j \in 1..(L + a) : free'[j] = p
    <3>1. i \in 1..(L + a) /\ i <= L
      BY <1>6, <1>9 DEF a, L
    <3>. QED
      BY <1>10, <2>2, <3>1
  <2>3. ASSUME NEW i \in 1..a, given[i] = p  PROVE \E j \in 1..(L + a) : free'[j] = p
    <3>1. L + i \in 1..(L + a) /\ ~ (L + i <= L) /\ (L + i) - L = i
      BY <1>6, <1>9 DEF a, L
    <3>2. free'[L + i] = p
      BY <1>10, <2>3, <3>1
    <3>. QED
      BY <3>1, <3>2
  <2>. QED
    BY <2>1, <2>2, <2>3
<1>16. ASSUME NEW p \in Phreg  PROVE (\E j \in 1..Len(free') : free'[j] = p) <=> busy'[p] = 0
  <2>1. busy'[p] = 0 <=> busy[p] = 0 \/ (Times(refs, p) > 0 /\ busy[p] = Times(refs, p))
    BY <1>12, <1>13
  <2>. QED
    BY <1>10, <1>11, <1>14, <1>15, <2>1
<1>17. ASSUME NEW i \in 1..(L + a), NEW j \in 1..(L + a), free'[i] = free'[j]  PROVE i = j
  <2>. DEFINE Old(x) == x <= L /\ x \in 1..L /\ free'[x] = free[x]
              Fresh(x) == ~ (x <= L) /\ x - L \in 1..a /\ free'[x] = given[x - L]
  <2>1. ASSUME NEW x \in 1..(L + a)  PROVE Old(x) \/ Fresh(x)
    <3>1. CASE x <= L
      BY <1>6, <1>9, <1>10, <3>1 DEF a, L
    <3>2. CASE ~ (x <= L)
      <4>1. x - L \in 1..a
        BY <1>6, <1>9, <3>2 DEF a, L
      <4>. QED
        BY <1>10, <3>2, <4>1
    <3>. QED
      BY <3>1, <3>2
  <2>2. ASSUME NEW x \in 1..(L + a), NEW y \in 1..(L + a), Old(x), Fresh(y)  PROVE free'[x] # free'[y]
    <3>1. free[x] \in Phreg /\ busy[free[x]] = 0
      BY <1>9, <1>11, <2>2 DEF L
    <3>2. given[y - L] \in Phreg
      BY <1>8, <2>2 DEF a
    <3>3. busy[given[y - L]] > 0
      BY <1>12, <1>14, <2>2, <3>2
    <3>. QED
      BY <2>2, <3>1, <3>3
  <2>3. CASE Old(i) /\ Old(j)
    BY <1>17, <2>3 DEF FreeExact, L
  <2>4. CASE Fresh(i) /\ Fresh(j)
    <3>. DEFINE x == i - L
                y == j - L
    <3>1. x \in 1..a /\ y \in 1..a /\ given[x] = given[y]
      BY <1>17, <2>4
    <3>2. A[x] \in S /\ A[y] \in S /\ refs[A[x]] = refs[A[y]]
      BY <1>7, <1>8, <3>1
    <3>3. A[x] \in 1..n /\ A[y] \in 1..n /\ ~ (A[x] > A[y]) /\ ~ (A[y] > A[x])
      BY <1>1, <1>4, <3>2 DEF S, LastOf
    <3>4. A[x] = A[y]
      BY <1>1, <3>3
    <3>5. x = y
      BY <1>5, <3>1, <3>4 DEF a
    <3>. QED
      BY <1>6, <1>9, <3>5
  <2>. QED
    BY <1>17, <2>1, <2>2, <2>3, <2>4
<1>18. FreeExact(busy', free')
  BY <1>10, <1>16, <1>17 DEF FreeExact
<1>19. busy' \in [Phreg -> Nat]
  <2>1. \A p \in Phreg : busy[p] - Times(refs, p) \in Nat
    BY <1>12
  <2>. QED
    BY <1>2, <2>1
<1>20. Len(free') \in Nat /\ count' = count - (Len(free') - Len(free))
  <2>1. Len(free') - L = a /\ Len(free') \in Nat
    BY <1>6, <1>9, <1>10 DEF a, L
  <2>. QED
    BY <1>2, <2>1 DEF L
<1>. QED
  BY <1>13, <1>18, <1>19, <1>20

\* How many outputs of t before k take a register of their own.
Own(t, k) == Cardinality(Before(t, k))

LEMMA MenuTypes ==
    ASSUME NEW t \in Menu
    PROVE  /\ t.outs \in Seq(Loreg) /\ Len(t.outs) \in Nat
           /\ \A k \in 1..Len(t.outs) : t.outs[k] \in Loreg
           /\ t.kind \in Kind /\ t.ins \subseteq Loreg
           /\ t.kind = "store" => t.outs = <<>>
<1>1. t.outs \in Seq(Loreg) /\ t.kind \in Kind /\ t.ins \subseteq Loreg
      /\ (t.kind = "store" => t.outs = <<>>)
  BY PipelineAssumption
<1>2. Len(t.outs) \in Nat /\ t.outs \in [1..Len(t.outs) -> Loreg]
  BY <1>1, LenProperties
<1>. QED
  BY <1>1, <1>2

LEMMA OwnSteps ==
    ASSUME NEW t
    PROVE  /\ Own(t, 1) = 0
           /\ \A k \in Nat \ {0} :
                 /\ IsFiniteSet(Before(t, k)) /\ Own(t, k) \in Nat
                 /\ t.outs[k] \in Flag => Own(t, k + 1) = Own(t, k)
                 /\ t.outs[k] \notin Flag => Own(t, k + 1) = Own(t, k) + 1
<1>1. Before(t, 1) = {}
  <2>1. 1..(1 - 1) = {}
    OBVIOUS
  <2>. QED
    BY <2>1 DEF Before
<1>2. Own(t, 1) = 0
  BY <1>1, FS_EmptySet DEF Own
<1>3. ASSUME NEW k \in Nat \ {0}
      PROVE  /\ IsFiniteSet(Before(t, k)) /\ Own(t, k) \in Nat
             /\ t.outs[k] \in Flag => Own(t, k + 1) = Own(t, k)
             /\ t.outs[k] \notin Flag => Own(t, k + 1) = Own(t, k) + 1
  <2>1. k - 1 \in Int /\ 1..((k + 1) - 1) = (1..(k - 1)) \cup {k} /\ k \notin 1..(k - 1)
    OBVIOUS
  <2>2. IsFiniteSet(1..(k - 1)) /\ Before(t, k) \in SUBSET (1..(k - 1))
    BY <2>1, IntervalFinite DEF Before
  <2>3. IsFiniteSet(Before(t, k))
    BY <2>2, FS_Subset
  <2>4. Own(t, k) \in Nat
    BY <2>3, FS_CardinalityType DEF Own
  <2>5. t.outs[k] \in Flag => Before(t, k + 1) = Before(t, k)
    BY <2>1 DEF Before
  <2>6. t.outs[k] \notin Flag => Before(t, k + 1) = Before(t, k) \cup {k}
    BY <2>1 DEF Before
  <2>7. k \notin Before(t, k)
    BY <2>1 DEF Before
  <2>8. Cardinality(Before(t, k) \cup {k}) = Cardinality(Before(t, k)) + 1
    BY <2>3, <2>7, FS_AddElement
  <2>. QED
    BY <2>3, <2>4, <2>5, <2>6, <2>8 DEF Own
<1>. QED
  BY <1>2, <1>3

LEMMA OwnMonotone ==
    ASSUME NEW t, NEW j \in Nat \ {0}, NEW k \in Nat, j <= k
    PROVE  Own(t, j) <= Own(t, k)
<1>1. Before(t, j) \in SUBSET Before(t, k)
  BY DEF Before
<1>2. k \in Nat \ {0}
  OBVIOUS
<1>3. IsFiniteSet(Before(t, k))
  BY <1>2, OwnSteps
<1>. QED
  BY <1>1, <1>3, FS_Subset DEF Own

LEMMA NeededIs ==
    ASSUME NEW t \in Menu
    PROVE  LET n == Len(t.outs) IN
           /\ Needed(t) \in Nat
           /\ n = 0 => Needed(t) = 0
           /\ n # 0 /\ Own(t, n + 1) = 0 => Needed(t) = 1
           /\ Own(t, n + 1) # 0 => Needed(t) = Own(t, n + 1)
<1>. DEFINE n == Len(t.outs)
            c == Own(t, n + 1)
<1>1. n \in Nat /\ (t.outs = <<>> <=> n = 0)
  BY MenuTypes
<1>2. n + 1 \in Nat \ {0}
  BY <1>1
<1>3. c \in Nat
  <2>. HIDE DEF n
  <2>. QED
    BY <1>2, OwnSteps
<1>4. n = 0 => c = 0
  <2>1. n = 0 => n + 1 = 1
    OBVIOUS
  <2>. QED
    BY <2>1, OwnSteps
<1>5. Needed(t) = IF c = 0 /\ t.outs # <<>> THEN 1 ELSE c
  BY DEF Needed, Own
<1>. HIDE DEF n, c
<1>6. /\ Needed(t) \in Nat
      /\ n = 0 => Needed(t) = 0
      /\ n # 0 /\ c = 0 => Needed(t) = 1
      /\ c # 0 => Needed(t) = c
  BY <1>1, <1>3, <1>4, <1>5
<1>. QED
  BY <1>6 DEF n, c

\* Where in the free list output k finds its register, from the end.
Rank(t, k) == IF t.outs[k] \in Flag THEN 0 ELSE Own(t, k)

LEMMA RankIs ==
    ASSUME NEW t \in Menu
    PROVE  /\ \A k \in 1..Len(t.outs) : Rank(t, k) \in 0..(Needed(t) - 1)
           /\ \A v \in 0..(Needed(t) - 1) : \E k \in 1..Len(t.outs) : Rank(t, k) = v
<1>. DEFINE n == Len(t.outs)
            c == Own(t, n + 1)
            d == Needed(t)
<1>1. n \in Nat
  BY MenuTypes
<1>2. /\ d \in Nat /\ (n = 0 => d = 0) /\ (n # 0 /\ c = 0 => d = 1) /\ (c # 0 => d = c)
  BY NeededIs
<1>. HIDE DEF n, d
<1>3. n + 1 \in Nat \ {0} /\ c \in Nat
  <2>1. n + 1 \in Nat \ {0}
    BY <1>1
  <2>. QED
    BY <2>1, OwnSteps
<1>. HIDE DEF c
<1>4. ASSUME NEW k \in 1..n  PROVE Rank(t, k) \in 0..(d - 1)
  <2>1. k \in Nat \ {0} /\ k + 1 \in Nat \ {0} /\ k + 1 <= n + 1 /\ n # 0
    BY <1>1
  <2>2. d \in Nat /\ d >= 1
    BY <1>2, <1>3, <2>1
  <2>3. CASE t.outs[k] \in Flag
    <3>1. Rank(t, k) = 0
      BY <2>3 DEF Rank
    <3>. QED
      BY <2>2, <3>1
  <2>4. CASE t.outs[k] \notin Flag
    <3>1. Rank(t, k) = Own(t, k)
      BY <2>4 DEF Rank
    <3>2. Own(t, k) \in Nat /\ Own(t, k + 1) = Own(t, k) + 1
      BY <2>1, <2>4, OwnSteps
    <3>3. Own(t, k + 1) <= c
      BY <1>3, <2>1, OwnMonotone DEF c
    <3>4. d = c
      BY <1>2, <1>3, <3>2, <3>3
    <3>. QED
      BY <1>2, <3>1, <3>2, <3>3, <3>4
  <2>. QED
    BY <2>3, <2>4
<1>5. ASSUME NEW v \in 0..(d - 1)  PROVE \E k \in 1..n : Rank(t, k) = v
  <2>0. v \in Nat /\ n # 0
    BY <1>2
  <2>1. CASE c = 0
    <3>1. v = 0 /\ 1 \in 1..n
      BY <1>1, <1>2, <2>0, <2>1
    <3>2. Rank(t, 1) = 0
      BY OwnSteps DEF Rank
    <3>. QED
      BY <3>1, <3>2
  <2>2. CASE c # 0
    <3>1. v < c
      BY <1>2, <1>3, <2>2
    <3>. DEFINE T == {x \in 1..(n + 1) : v < Own(t, x)}
    <3>2. n + 1 \in T /\ T \in SUBSET Nat
      BY <1>1, <3>1 DEF c
    <3>3. PICK x \in T : \A y \in T : x <= y
      <4>. HIDE DEF T
      <4>. QED
        BY <3>2, Least
    <3>4. Own(t, 1) = 0
      BY OwnSteps
    <3>5. x # 1
      BY <2>0, <3>3, <3>4
    <3>6. x - 1 \in 1..n /\ (x - 1) + 1 = x /\ x - 1 \in 1..(n + 1) /\ x - 1 \in Nat \ {0}
      BY <1>1, <3>3, <3>5
    <3>7. x - 1 \notin T
      BY <3>3, <3>6
    <3>8. ~ (v < Own(t, x - 1)) /\ v < Own(t, x)
      BY <3>3, <3>6, <3>7
    <3>9. /\ Own(t, x - 1) \in Nat
          /\ t.outs[x - 1] \in Flag => Own(t, x) = Own(t, x - 1)
          /\ t.outs[x - 1] \notin Flag => Own(t, x) = Own(t, x - 1) + 1
      <4>1. /\ Own(t, x - 1) \in Nat
            /\ t.outs[x - 1] \in Flag => Own(t, (x - 1) + 1) = Own(t, x - 1)
            /\ t.outs[x - 1] \notin Flag => Own(t, (x - 1) + 1) = Own(t, x - 1) + 1
        BY <3>6, OwnSteps
      <4>. QED
        BY <3>6, <4>1
    <3>10. t.outs[x - 1] \notin Flag /\ Own(t, x - 1) = v
      BY <2>0, <3>8, <3>9
    <3>11. Rank(t, x - 1) = v
      BY <3>10 DEF Rank
    <3>. QED
      BY <3>6, <3>11
  <2>. QED
    BY <2>1, <2>2
<1>. QED
  BY <1>4, <1>5 DEF n, d

\* The outputs of a uop take the last registers of the free list, all of them.
LEMMA NewIs ==
    ASSUME FreeExact(busy, free), NEW t \in Menu, Needed(t) <= Len(free)
    PROVE  /\ \A k \in 1..Len(t.outs) : New(t, k) \in Phreg
           /\ \A j \in 1..Len(free) :
                 j > Len(free) - Needed(t) <=> \E k \in 1..Len(t.outs) : New(t, k) = free[j]
<1>. DEFINE L == Len(free)
            d == Needed(t)
            n == Len(t.outs)
<1>1. free \in Seq(Phreg) /\ L \in Nat /\ \A j \in 1..L : free[j] \in Phreg
  BY DEF FreeExact
<1>2. d \in Nat /\ d <= L
  BY NeededIs
<1>3. \A j, k \in 1..L : free[j] = free[k] => j = k
  BY DEF FreeExact
<1>4. ASSUME NEW k \in 1..n
      PROVE  New(t, k) = free[L - Rank(t, k)] /\ L - Rank(t, k) \in 1..L /\ L - Rank(t, k) > L - d
  <2>1. New(t, k) = free[L - Rank(t, k)]
    BY DEF New, Rank, Own
  <2>2. Rank(t, k) \in 0..(d - 1)
    BY RankIs
  <2>. HIDE DEF L, d
  <2>. QED
    BY <1>1, <1>2, <2>1, <2>2
<1>. HIDE DEF L, d, n
<1>5. ASSUME NEW j \in 1..L, j > L - d  PROVE \E k \in 1..n : New(t, k) = free[j]
  <2>1. L - j \in 0..(d - 1)
    BY <1>1, <1>2, <1>5
  <2>2. PICK k \in 1..n : Rank(t, k) = L - j
    BY <2>1, RankIs DEF d, n
  <2>3. L - (L - j) = j
    BY <1>1
  <2>4. New(t, k) = free[j]
    BY <1>4, <2>2, <2>3
  <2>. QED
    BY <2>4
<1>6. ASSUME NEW j \in 1..L, NEW k \in 1..n, New(t, k) = free[j]  PROVE j > L - d
  BY <1>3, <1>4, <1>6
<1>7. \A k \in 1..n : New(t, k) \in Phreg
  BY <1>1, <1>4
<1>. QED
  BY <1>5, <1>6, <1>7 DEF L, d, n

-----------------------------------------------------------------------------
(* Renaming *)

LEMMA MapBeforeIs ==
    ASSUME FreeExact(busy, free), rat \in [Loreg -> Phreg], NEW t \in Menu, Needed(t) <= Len(free),
           NEW l \in Loreg
    PROVE  /\ MapBefore(t, l, 1) = rat[l]
           /\ \A k \in 1..Len(t.outs) :
                 /\ t.outs[k] = l => MapBefore(t, l, k + 1) = New(t, k)
                 /\ t.outs[k] # l => MapBefore(t, l, k + 1) = MapBefore(t, l, k)
           /\ \A k \in 1..(Len(t.outs) + 1) : MapBefore(t, l, k) \in Phreg
<1>. DEFINE n == Len(t.outs)
            Js(k) == {j \in 1..(k - 1) : t.outs[j] = l}
            top(k) == CHOOSE j \in Js(k) : \A i \in Js(k) : i <= j
<1>1. n \in Nat /\ \A k \in 1..n : New(t, k) \in Phreg
  BY MenuTypes, NewIs
<1>2. \A k : MapBefore(t, l, k) = IF Js(k) = {} THEN rat[l] ELSE New(t, top(k))
  BY DEF MapBefore
<1>. HIDE DEF n
<1>3. MapBefore(t, l, 1) = rat[l]
  <2>1. Js(1) = {}
    OBVIOUS
  <2>. HIDE DEF Js, top
  <2>. QED
    BY <1>2, <2>1
<1>4. ASSUME NEW k \in 1..n
      PROVE  /\ t.outs[k] = l => MapBefore(t, l, k + 1) = New(t, k)
             /\ t.outs[k] # l => MapBefore(t, l, k + 1) = MapBefore(t, l, k)
  <2>1. 1..((k + 1) - 1) = (1..(k - 1)) \cup {k} /\ \A i \in 1..(k - 1) : i <= k /\ ~ (k <= i)
    BY <1>1
  <2>2. ASSUME t.outs[k] = l  PROVE MapBefore(t, l, k + 1) = New(t, k)
    <3>1. k \in Js(k + 1) /\ \A i \in Js(k + 1) : i <= k /\ (k <= i => i = k)
      BY <1>1, <2>1, <2>2
    <3>2. top(k + 1) = k
      <4>. HIDE DEF Js
      <4>1. \E j \in Js(k + 1) : \A i \in Js(k + 1) : i <= j
        BY <3>1
      <4>2. top(k + 1) \in Js(k + 1) /\ \A i \in Js(k + 1) : i <= top(k + 1)
        BY <4>1
      <4>. HIDE DEF top
      <4>. QED
        BY <3>1, <4>2
    <3>. HIDE DEF Js, top
    <3>. QED
      BY <1>2, <3>1, <3>2
  <2>3. ASSUME t.outs[k] # l  PROVE MapBefore(t, l, k + 1) = MapBefore(t, l, k)
    <3>1. Js(k + 1) = Js(k)
      BY <2>1, <2>3
    <3>2. top(k + 1) = top(k)
      BY <3>1
    <3>. HIDE DEF Js, top
    <3>. QED
      BY <1>2, <3>1, <3>2
  <2>. QED
    BY <2>2, <2>3
<1>5. ASSUME NEW k \in 1..(n + 1)  PROVE MapBefore(t, l, k) \in Phreg
  <2>1. CASE Js(k) = {}
    <3>. HIDE DEF Js, top
    <3>. QED
      BY <1>2, <2>1
  <2>2. CASE Js(k) # {}
    <3>1. Js(k) \in SUBSET (0..n) /\ Js(k) \subseteq 1..n
      BY <1>1
    <3>2. \E j \in Js(k) : \A i \in Js(k) : i <= j
      <4>. HIDE DEF Js
      <4>. QED
        BY <1>1, <2>2, <3>1, Greatest
    <3>3. top(k) \in Js(k)
      <4>. HIDE DEF Js
      <4>. QED
        BY <3>2
    <3>. HIDE DEF Js, top
    <3>. QED
      BY <1>1, <1>2, <2>2, <3>1, <3>3
  <2>. QED
    BY <2>1, <2>2
<1>. QED
  BY <1>3, <1>4, <1>5 DEF n

\* The outputs O lead from the mapping table a to the table b.
Leads(O, a, b) ==
    \E maps : Chained(O, maps) /\ maps[1] = a /\ maps[Len(O) + 1] = b

\* The outputs of the renamed uop, and the tables between them.
LEMMA RenamedChain ==
    ASSUME FreeExact(busy, free), rat \in [Loreg -> Phreg], NEW t \in Menu, Needed(t) <= Len(free)
    PROVE  /\ Renamed(t).outs \in Seq(OutRec) /\ Len(Renamed(t).outs) = Len(t.outs)
           /\ \A k \in 1..Len(t.outs) : Renamed(t).outs[k].ph = New(t, k)
           /\ Leads(Renamed(t).outs, rat, [l \in Loreg |-> MapBefore(t, l, Len(t.outs) + 1)])
<1>. DEFINE n == Len(t.outs)
            X == Renamed(t).outs
            more == [k \in 1..(n + 1) |-> [l \in Loreg |-> MapBefore(t, l, k)]]
<1>1. n \in Nat /\ \A k \in 1..n : t.outs[k] \in Loreg /\ New(t, k) \in Phreg
  BY MenuTypes, NewIs
<1>2. /\ \A l \in Loreg : MapBefore(t, l, 1) = rat[l]
      /\ \A l \in Loreg : \A k \in 1..n : /\ t.outs[k] = l => MapBefore(t, l, k + 1) = New(t, k)
                                          /\ t.outs[k] # l => MapBefore(t, l, k + 1) = MapBefore(t, l, k)
      /\ \A l \in Loreg : \A k \in 1..(n + 1) : MapBefore(t, l, k) \in Phreg
  BY MapBeforeIs
<1>3. X = [k \in 1..n |-> [lo |-> t.outs[k], ph |-> New(t, k), old |-> MapBefore(t, t.outs[k], k)]]
  BY DEF Renamed
<1>. HIDE DEF n, X
<1>4. \A k \in 1..n : k \in 1..(n + 1) /\ k + 1 \in 1..(n + 1)
  BY <1>1
<1>5. X \in [1..n -> OutRec]
  <2>1. ASSUME NEW k \in 1..n
        PROVE [lo |-> t.outs[k], ph |-> New(t, k), old |-> MapBefore(t, t.outs[k], k)] \in OutRec
    BY <1>1, <1>2, <1>4 DEF OutRec
  <2>. QED
    BY <1>3, <2>1
<1>6. X \in Seq(OutRec) /\ Len(X) = n
  BY <1>1, <1>5
<1>7. \A k \in 1..n : X[k].lo = t.outs[k] /\ X[k].ph = New(t, k) /\ X[k].old = MapBefore(t, t.outs[k], k)
  BY <1>3
<1>8. more \in [1..(n + 1) -> [Loreg -> Phreg]]
  BY <1>2
<1>9. ASSUME NEW q \in 1..n
      PROVE  X[q].old = more[q][X[q].lo] /\ more[q+1] = [more[q] EXCEPT ![X[q].lo] = X[q].ph]
  <2>1. /\ more[q] = [l \in Loreg |-> MapBefore(t, l, q)]
        /\ more[q+1] = [l \in Loreg |-> MapBefore(t, l, q + 1)]
    BY <1>4
  <2>. HIDE DEF more
  <2>2. X[q].lo = t.outs[q] /\ X[q].ph = New(t, q) /\ X[q].old = MapBefore(t, t.outs[q], q) /\ t.outs[q] \in Loreg
    BY <1>1, <1>7
  <2>3. X[q].old = more[q][X[q].lo]
    BY <2>1, <2>2
  <2>4. \A l \in Loreg : MapBefore(t, l, q + 1) = IF l = t.outs[q] THEN New(t, q) ELSE MapBefore(t, l, q)
    BY <1>2
  <2>5. more[q+1] = [more[q] EXCEPT ![t.outs[q]] = New(t, q)]
    BY <2>1, <2>4
  <2>. QED
    BY <2>2, <2>3, <2>5
<1>10. more[1] = rat
  <2>1. 1 \in 1..(n + 1)
    BY <1>1
  <2>. QED
    BY <1>2, <2>1
<1>11. more[n + 1] = [l \in Loreg |-> MapBefore(t, l, n + 1)]
  <2>1. n + 1 \in 1..(n + 1)
    BY <1>1
  <2>. QED
    BY <2>1
<1>. HIDE DEF more
<1>12. Chained(X, more)
  BY <1>6, <1>8, <1>9 DEF Chained
<1>13. Leads(X, rat, [l \in Loreg |-> MapBefore(t, l, n + 1)])
  BY <1>6, <1>10, <1>11, <1>12 DEF Leads
<1>. QED
  BY <1>6, <1>7, <1>13 DEF n, X

\* The registers that the outputs take leave the free list.
LEMMA RenameExact ==
    ASSUME busy \in [Phreg -> Nat], FreeExact(busy, free), rat \in [Loreg -> Phreg],
           NEW t \in Menu, Needed(t) <= Len(free), Rename(t)
    PROVE  /\ busy' \in [Phreg -> Nat]
           /\ \A p \in Phreg : busy'[p] = busy[p] + Count(Phs(Renamed(t).outs), 1..Len(t.outs), p)
           /\ FreeExact(busy', free')
           /\ Len(free') = Len(free) - Needed(t) /\ Needed(t) \in Nat
<1>. DEFINE n == Len(t.outs)
            L == Len(free)
            d == Needed(t)
            phs == Phs(Renamed(t).outs)
<1>1. n \in Nat /\ d \in Nat /\ L \in Nat /\ d <= L /\ free \in Seq(Phreg)
  BY MenuTypes, NeededIs DEF FreeExact
<1>2. \A k \in 1..n : phs[k] = New(t, k)
  BY RenamedChain, PhsAndOlds
<1>3. /\ busy' = [p \in Phreg |-> busy[p] + Cardinality({k \in 1..n : New(t, k) = p})]
      /\ free' = SubSeq(free, 1, L - d)
  BY DEF Rename
<1>4. /\ \A k \in 1..n : New(t, k) \in Phreg
      /\ \A j \in 1..L : j > L - d <=> \E k \in 1..n : New(t, k) = free[j]
  BY NewIs
<1>. HIDE DEF phs, n
<1>5. IsFiniteSet(1..n)
  BY <1>1, IntervalFinite
<1>6. \A p : Cardinality({k \in 1..n : New(t, k) = p}) = Count(phs, 1..n, p)
  <2>1. ASSUME NEW p  PROVE Cardinality({k \in 1..n : New(t, k) = p}) = Count(phs, 1..n, p)
    <3>1. {k \in 1..n : New(t, k) = p} = {k \in 1..n : phs[k] = p}
      BY <1>2
    <3>. QED
      BY <3>1 DEF Count
  <2>. QED
    BY <2>1
<1>7. \A p : /\ Count(phs, 1..n, p) \in Nat
             /\ Count(phs, 1..n, p) > 0 <=> \E k \in 1..n : New(t, k) = p
  <2>1. ASSUME NEW p  PROVE /\ Count(phs, 1..n, p) \in Nat
                            /\ Count(phs, 1..n, p) > 0 <=> \E k \in 1..n : phs[k] = p
    BY <1>5, CountType, CountPositive
  <2>. QED
    BY <1>2, <2>1
<1>8. \A p \in Phreg : busy'[p] = busy[p] + Count(phs, 1..n, p)
  BY <1>3, <1>6
<1>9. busy' \in [Phreg -> Nat]
  <2>1. \A p \in Phreg : busy[p] \in Nat /\ Count(phs, 1..n, p) \in Nat
    BY <1>7
  <2>2. busy' = [p \in Phreg |-> busy[p] + Count(phs, 1..n, p)]
    BY <1>3, <1>6
  <2>. QED
    BY <2>1, <2>2
<1>. HIDE DEF d, L
<1>10. /\ free' \in Seq(Phreg) /\ Len(free') = L - d
       /\ \A j \in 1..(L - d) : j \in 1..L /\ free'[j] = free[j]
  <2>. DEFINE M == L - d
              F == SubSeq(free, 1, M)
  <2>1. M \in Nat /\ M <= L /\ free \in Seq(Phreg) /\ L = Len(free)
    BY <1>1 DEF L
  <2>2. free' = F
    BY <1>3
  <2>. HIDE DEF M
  <2>3. \A j \in 1..M : j \in 1..L /\ free[j] \in Phreg
    BY <2>1
  <2>4. F = [j \in 1..M |-> free[j]]
    BY <2>1
  <2>. HIDE DEF F
  <2>5. F \in [1..M -> Phreg]
    BY <2>3, <2>4
  <2>6. F \in Seq(Phreg) /\ Len(F) = M
    BY <2>1, <2>5
  <2>7. \A j \in 1..M : F[j] = free[j]
    BY <2>4
  <2>. QED
    BY <2>2, <2>3, <2>6, <2>7 DEF M
<1>11. ASSUME NEW p \in Phreg  PROVE (\E j \in 1..Len(free') : free'[j] = p) <=> busy'[p] = 0
  <2>1. (\E j \in 1..L : free[j] = p) <=> busy[p] = 0
    BY DEF FreeExact, L
  <2>2. busy'[p] = 0 <=> busy[p] = 0 /\ ~ \E k \in 1..n : New(t, k) = p
    BY <1>7, <1>8
  <2>3. \A j \in 1..(L - d) : j \in 1..L /\ ~ (j > L - d) /\ free'[j] = free[j]
    BY <1>1, <1>10
  <2>4. \A j \in 1..L : free[j] = p /\ ~ (j > L - d) => j \in 1..(L - d)
    BY <1>1
  <2>5. (\E j \in 1..(L - d) : free'[j] = p) <=> \E j \in 1..L : free[j] = p /\ ~ (j > L - d)
    BY <1>10, <2>3, <2>4
  <2>. QED
    BY <1>4, <1>10, <2>1, <2>2, <2>5
<1>12. \A j, k \in 1..Len(free') : free'[j] = free'[k] => j = k
  BY <1>10 DEF FreeExact, L
<1>13. FreeExact(busy', free')
  BY <1>10, <1>11, <1>12 DEF FreeExact
<1>. QED
  BY <1>1, <1>8, <1>9, <1>10, <1>13 DEF n, d, L, phs
-----------------------------------------------------------------------------
(* The outputs of a sequence of uops *)

State == {"waiting", "executing", "memory", "arrived", "completed"}

Uop == [kind : Kind, spec : BOOLEAN, state : State,
        ins : UNION {[S -> Phreg] : S \in SUBSET Loreg}, outs : Seq(OutRec)]

OutsAt(r) == [i \in 1..Len(r) |-> r[i].outs]

LEMMA UopTypes ==
    ASSUME NEW u \in Uop
    PROVE  /\ u.kind \in Kind /\ u.spec \in BOOLEAN /\ u.state \in State
           /\ u.outs \in Seq(OutRec) /\ Len(u.outs) \in Nat /\ DOMAIN u.outs = 1..Len(u.outs)
           /\ DOMAIN u.ins \subseteq Loreg
           /\ \A l \in DOMAIN u.ins : u.ins[l] \in Phreg
<1>1. /\ u.kind \in Kind /\ u.state \in State /\ u.outs \in Seq(OutRec)
      /\ u.ins \in UNION {[S -> Phreg] : S \in SUBSET Loreg}
  BY DEF Uop
<1>2. u.spec \in BOOLEAN
  BY Zenon DEF Uop
<1>3. PICK S \in SUBSET Loreg : u.ins \in [S -> Phreg]
  BY <1>1
<1>4. Len(u.outs) \in Nat /\ DOMAIN u.outs = 1..Len(u.outs)
  BY <1>1, LenProperties
<1>5. DOMAIN u.ins \subseteq Loreg /\ \A l \in DOMAIN u.ins : u.ins[l] \in Phreg
  BY <1>3
<1>. QED
  BY <1>1, <1>2, <1>4, <1>5

LEMMA OutsAtType ==
    ASSUME NEW r \in Seq(Uop)
    PROVE  /\ Len(r) \in Nat /\ DOMAIN r = 1..Len(r)
           /\ OutsAt(r) \in Seq(Seq(OutRec)) /\ Len(OutsAt(r)) = Len(r)
           /\ \A i \in 1..Len(r) : r[i] \in Uop /\ OutsAt(r)[i] = r[i].outs
           /\ OutsOf(r) = FlattenSeq(OutsAt(r))
<1>1. Len(r) \in Nat /\ DOMAIN r = 1..Len(r) /\ \A i \in 1..Len(r) : r[i] \in Uop
  OBVIOUS
<1>. DEFINE n == Len(r)
<1>2. \A i \in 1..n : r[i].outs \in Seq(OutRec)
  BY <1>1, UopTypes
<1>. HIDE DEF n
<1>3. OutsAt(r) = [i \in 1..n |-> r[i].outs]
  BY DEF OutsAt, n
<1>4. OutsAt(r) \in [1..n -> Seq(OutRec)]
  BY <1>2, <1>3
<1>5. OutsAt(r) \in Seq(Seq(OutRec)) /\ Len(OutsAt(r)) = n
  BY <1>1, <1>4 DEF n
<1>6. OutsOf(r) = FlattenSeq(OutsAt(r))
  BY <1>1, <1>3 DEF OutsOf, n
<1>. QED
  BY <1>1, <1>3, <1>5, <1>6 DEF n

LEMMA OutsOfLayout ==
    ASSUME NEW r \in Seq(Uop)
    PROVE  \E off : Layout(OutsAt(r), OutsOf(r), off)
<1>1. OutsAt(r) \in Seq(Seq(OutRec)) /\ OutsOf(r) = FlattenSeq(OutsAt(r))
  BY OutsAtType
<1>2. \E off : Layout(OutsAt(r), FlattenSeq(OutsAt(r)), off)
  BY <1>1, LayoutOfFlatten
<1>. QED
  BY <1>1, <1>2

LEMMA OutsOfUnique ==
    ASSUME NEW r \in Seq(Uop), NEW O, NEW off, Layout(OutsAt(r), O, off)
    PROVE  O = OutsOf(r)
<1>1. PICK pff : Layout(OutsAt(r), OutsOf(r), pff)
  BY OutsOfLayout
<1>2. OutsAt(r) \in Seq(Seq(OutRec))
  BY OutsAtType
<1>. QED
  BY <1>1, <1>2, LayoutUnique

LEMMA OutsOfType ==
    ASSUME NEW r \in Seq(Uop)
    PROVE  OutsOf(r) \in Seq(OutRec) /\ Len(OutsOf(r)) \in Nat
<1>1. PICK off : Layout(OutsAt(r), OutsOf(r), off)
  BY OutsOfLayout
<1>2. OutsOf(r) \in Seq(OutRec)
  BY <1>1 DEF Layout
<1>. QED
  BY <1>2, LenProperties

LEMMA OutsOfOne ==
    ASSUME NEW r \in Seq(Uop), Len(r) = 1
    PROVE  OutsOf(r) = r[1].outs
<1>. DEFINE X == r[1].outs
            off == [i \in 1..2 |-> IF i = 1 THEN 0 ELSE Len(X)]
<1>1. /\ OutsAt(r) \in Seq(Seq(OutRec)) /\ Len(OutsAt(r)) = 1 /\ 1 \in 1..Len(r) /\ OutsAt(r)[1] = X
      /\ r[1] \in Uop
  BY OutsAtType
<1>2. X \in Seq(OutRec) /\ Len(X) \in Nat
  BY <1>1, UopTypes
<1>. HIDE DEF X
<1>3. off \in [1..2 -> Nat] /\ off[1] = 0 /\ off[2] = Len(X)
  BY <1>2
<1>. HIDE DEF off
<1>4. \A i \in 1..1 : /\ off[i+1] = off[i] + Len(OutsAt(r)[i])
                      /\ \A k \in 1..Len(OutsAt(r)[i]) : X[off[i] + k] = OutsAt(r)[i][k]
  BY <1>1, <1>2, <1>3
<1>5. Layout(OutsAt(r), X, off)
  BY <1>1, <1>2, <1>3, <1>4 DEF Layout
<1>6. X = OutsOf(r)
  BY <1>5, OutsOfUnique
<1>. QED
  BY <1>6 DEF X

\* Cutting a sequence of uops cuts the sequence of their outputs.
CutAt(r, off, m) ==
    /\ SubSeq(r, 1, m) \in Seq(Uop) /\ SubSeq(r, m + 1, Len(r)) \in Seq(Uop)
    /\ Len(SubSeq(r, 1, m)) = m /\ Len(SubSeq(r, m + 1, Len(r))) = Len(r) - m
    /\ \A i \in 1..m : SubSeq(r, 1, m)[i] = r[i]
    /\ \A i \in 1..(Len(r) - m) : SubSeq(r, m + 1, Len(r))[i] = r[i+m]
    /\ off[m+1] \in 0..Len(OutsOf(r))
    /\ Layout(OutsAt(SubSeq(r, 1, m)), OutsOf(SubSeq(r, 1, m)), [i \in 1..(m + 1) |-> off[i]])
    /\ Layout(OutsAt(SubSeq(r, m + 1, Len(r))), OutsOf(SubSeq(r, m + 1, Len(r))),
              [i \in 1..(Len(r) - m + 1) |-> off[i+m] - off[m+1]])
    /\ OutsOf(SubSeq(r, 1, m)) = SubSeq(OutsOf(r), 1, off[m+1])
    /\ OutsOf(SubSeq(r, m + 1, Len(r))) = SubSeq(OutsOf(r), off[m+1] + 1, Len(OutsOf(r)))

LEMMA OutsOfSplit ==
    ASSUME NEW r \in Seq(Uop), NEW off, Layout(OutsAt(r), OutsOf(r), off), NEW m \in 0..Len(r)
    PROVE  CutAt(r, off, m)
<1>. DEFINE N == Len(r)
            O == OutsOf(r)
            A == OutsAt(r)
            P == SubSeq(r, 1, m)
            S == SubSeq(r, m + 1, N)
            offP == [i \in 1..(m + 1) |-> off[i]]
            offS == [i \in 1..(N - m + 1) |-> off[i+m] - off[m+1]]
            OP == SubSeq(O, 1, off[m+1])
            OS == SubSeq(O, off[m+1] + 1, Len(O))
<1>1. /\ N \in Nat /\ m \in Nat /\ m <= N /\ N - m \in Nat
      /\ A \in Seq(Seq(OutRec)) /\ Len(A) = N
      /\ \A i \in 1..N : r[i] \in Uop /\ A[i] = r[i].outs
  BY OutsAtType
<1>2. P \in Seq(Uop) /\ Len(P) = m /\ \A i \in 1..m : P[i] = r[i]
  BY <1>1
<1>3. S \in Seq(Uop) /\ Len(S) = N - m /\ \A i \in 1..(N - m) : S[i] = r[i+m]
  <2>1. \A i \in (m + 1)..N : r[i] \in Uop
    BY <1>1
  <2>. HIDE DEF N
  <2>2. /\ S \in Seq(Uop) /\ Len(S) = IF m + 1 <= N THEN N - (m + 1) + 1 ELSE 0
        /\ \A i \in 1..(N - (m + 1) + 1) : S[i] = r[(m + 1) + i - 1]
    BY <1>1, <2>1, SubSeqProperties
  <2>. HIDE DEF S
  <2>3. N - (m + 1) + 1 = N - m /\ (~ (m + 1 <= N) => N - m = 0)
        /\ \A i \in 1..(N - m) : (m + 1) + i - 1 = i + m
    BY <1>1
  <2>. QED
    BY <2>2, <2>3
<1>. HIDE DEF N, A, O, P, S
<1>4. Layout(A, O, off)
  BY DEF A, O
<1>5. off[m+1] \in 0..Len(O) /\ Layout(SubSeq(A, 1, m), OP, offP)
  BY <1>1, <1>4, LayoutPrefix
<1>6. Layout(SubSeq(A, m + 1, N), OS, offS)
  <2>1. /\ m \in 0..Len(A)
        /\ Layout(A, O, off) /\ A \in Seq(Seq(OutRec))
    BY <1>1, <1>4
  <2>2. Layout(SubSeq(A, m + 1, Len(A)), OS, [i \in 1..(Len(A) - m + 1) |-> off[i+m] - off[m+1]])
    <3>. HIDE DEF OS
    <3>. QED
      BY <2>1, LayoutSuffix DEF OS
  <2>. QED
    BY <1>1, <2>2
<1>. HIDE DEF offP, offS, OP, OS
<1>7. OutsAt(P) = SubSeq(A, 1, m)
  <2>1. OutsAt(P) \in Seq(Seq(OutRec)) /\ Len(OutsAt(P)) = m /\ \A i \in 1..m : OutsAt(P)[i] = P[i].outs
    BY <1>2, OutsAtType
  <2>2. SubSeq(A, 1, m) \in Seq(Seq(OutRec)) /\ Len(SubSeq(A, 1, m)) = m
        /\ \A i \in 1..m : SubSeq(A, 1, m)[i] = A[i]
    BY <1>1
  <2>3. \A i \in 1..m : i \in 1..N
    BY <1>1
  <2>4. \A i \in 1..m : OutsAt(P)[i] = SubSeq(A, 1, m)[i]
    <3>. DEFINE B == SubSeq(A, 1, m)
    <3>. HIDE DEF B
    <3>1. \A i \in 1..m : OutsAt(P)[i] = B[i]
      BY <1>1, <1>2, <2>1, <2>2, <2>3 DEF B
    <3>. QED
      BY <3>1 DEF B
  <2>. QED
    BY <2>1, <2>2, <2>4, SeqEqual
<1>8. OutsAt(S) = SubSeq(A, m + 1, N)
  <2>1. OutsAt(S) \in Seq(Seq(OutRec)) /\ Len(OutsAt(S)) = N - m
        /\ \A i \in 1..(N - m) : OutsAt(S)[i] = S[i].outs
    BY <1>3, OutsAtType
  <2>2. SubSeq(A, m + 1, N) \in Seq(Seq(OutRec)) /\ Len(SubSeq(A, m + 1, N)) = N - m
        /\ \A i \in 1..(N - m) : SubSeq(A, m + 1, N)[i] = A[i+m]
    <3>1. \A i \in (m + 1)..N : A[i] \in Seq(OutRec)
      BY <1>1
    <3>. DEFINE B == SubSeq(A, m + 1, N)
    <3>2. /\ B \in Seq(Seq(OutRec)) /\ Len(B) = IF m + 1 <= N THEN N - (m + 1) + 1 ELSE 0
          /\ \A i \in 1..(N - (m + 1) + 1) : B[i] = A[(m + 1) + i - 1]
      BY <1>1, <3>1, SubSeqProperties
    <3>3. N - (m + 1) + 1 = N - m /\ (~ (m + 1 <= N) => N - m = 0)
          /\ \A i \in 1..(N - m) : (m + 1) + i - 1 = i + m
      BY <1>1
    <3>. HIDE DEF B
    <3>4. B \in Seq(Seq(OutRec)) /\ Len(B) = N - m /\ \A i \in 1..(N - m) : B[i] = A[i+m]
      BY <3>2, <3>3
    <3>. QED
      BY <3>4 DEF B
  <2>3. \A i \in 1..(N - m) : i + m \in 1..N
    BY <1>1
  <2>4. \A i \in 1..(N - m) : OutsAt(S)[i] = SubSeq(A, m + 1, N)[i]
    BY <1>1, <1>3, <2>1, <2>2, <2>3
  <2>. QED
    BY <2>1, <2>2, <2>4, SeqEqual
<1>9. OP = OutsOf(P)
  BY <1>2, <1>5, <1>7, OutsOfUnique
<1>10. OS = OutsOf(S)
  BY <1>3, <1>6, <1>8, OutsOfUnique
<1>11. Layout(OutsAt(P), OutsOf(P), offP) /\ Layout(OutsAt(S), OutsOf(S), offS)
  BY <1>5, <1>6, <1>7, <1>8, <1>9, <1>10
<1>. QED
  BY <1>2, <1>3, <1>5, <1>9, <1>10, <1>11 DEF CutAt, N, A, O, P, S, offP, offS, OP, OS
-----------------------------------------------------------------------------
(* What the reorder buffer remembers of the mapping table *)

LEMMA CountConcat ==
    ASSUME NEW V, NEW s \in Seq(V), NEW x \in Seq(V), NEW p
    PROVE  Count(s \o x, 1..Len(s \o x), p) = Count(s, 1..Len(s), p) + Count(x, 1..Len(x), p)
<1>. DEFINE L == Len(s)
            n == Len(x)
            c == s \o x
            T == (L + 1)..(L + n)
            h == [k \in 1..n |-> L + k]
<1>1. L \in Nat /\ n \in Nat
  BY LenProperties
<1>2. Len(c) = L + n /\ \A k \in 1..(L + n) : c[k] = IF k <= L THEN s[k] ELSE x[k - L]
  BY ConcatProperties
<1>. HIDE DEF L, n, c
<1>. DEFINE D == 1..L
            E == 1..n
<1>3. IsFiniteSet(D) /\ IsFiniteSet(T) /\ IsFiniteSet(E)
  BY <1>1, IntervalFinite
<1>4. D \cap T = {} /\ 1..(L + n) = D \cup T
  BY <1>1
<1>5. Count(c, D \cup T, p) = Count(c, D, p) + Count(c, T, p)
  <2>. HIDE DEF T, D
  <2>. QED
    BY <1>3, <1>4, CountUnion
<1>6. Count(c, D, p) = Count(s, D, p)
  <2>1. \A k \in D : c[k] = s[k]
    BY <1>1, <1>2
  <2>. HIDE DEF D
  <2>. QED
    BY <2>1, CountSame
<1>7. Count(c, T, p) = Count(x, E, p)
  <2>1. h \in [E -> T] /\ \A k \in E : h[k] = L + k
    BY <1>1
  <2>. HIDE DEF h
  <2>2. \A i, j \in E : h[i] = h[j] => i = j
    BY <1>1, <2>1
  <2>3. \A y \in T : \E k \in E : h[k] = y
    <3>1. ASSUME NEW y \in T  PROVE \E k \in E : h[k] = y
      <4>1. y - L \in E /\ L + (y - L) = y
        BY <1>1
      <4>. QED
        BY <2>1, <4>1
    <3>. QED
      BY <3>1
  <2>4. \A k \in E : c[h[k]] = x[k]
    <3>1. ASSUME NEW k \in E  PROVE c[h[k]] = x[k]
      <4>1. L + k \in 1..(L + n) /\ ~ (L + k <= L) /\ (L + k) - L = k
        BY <1>1
      <4>. QED
        BY <1>2, <2>1, <4>1
    <3>. QED
      BY <3>1
  <2>5. Moves(h, x, E, c, T)
    BY <2>1, <2>2, <2>3, <2>4 DEF Moves
  <2>. HIDE DEF T, E
  <2>. QED
    BY <1>3, <2>5, CountMoved
<1>8. Count(c, 1..Len(c), p) = Count(c, D \cup T, p)
  BY <1>2, <1>4
<1>. HIDE DEF T
<1>. QED
  BY <1>5, <1>6, <1>7, <1>8 DEF L, n, c

\* The table before output q of the reorder buffer r is maps[q], the last one is
\* map, and off[i] outputs come before uop i, which has read the table there.
History(r, map, off, maps) ==
    /\ Layout(OutsAt(r), OutsOf(r), off)
    /\ Chained(OutsOf(r), maps)
    /\ maps[Len(OutsOf(r)) + 1] = map
    /\ \A i \in 1..Len(r) : \A l \in DOMAIN r[i].ins : r[i].ins[l] = maps[off[i] + 1][l]

Recorded(r, map) == \E off, maps : History(r, map, off, maps)

\* How many logical registers are mapped to p, and how many outputs of r may
\* have to restore p.
Uses(map, p) == Count(map, Loreg, p)
Held(r, p) == Count(Olds(OutsOf(r)), 1..Len(OutsOf(r)), p)

LEMMA UsesHeldType ==
    ASSUME NEW r \in Seq(Uop), NEW map, NEW p
    PROVE  Uses(map, p) \in Nat /\ Held(r, p) \in Nat
<1>1. Len(OutsOf(r)) \in Nat
  BY OutsOfType
<1>2. IsFiniteSet(1..Len(OutsOf(r)))
  BY <1>1, IntervalFinite
<1>. QED
  BY <1>2, LoregFinite, CountType DEF Uses, Held

\* The outputs of r are those of s, then those of u.
Joined(r, s, u) == OutsOf(r) = OutsOf(s) \o OutsOf(u)

LEMMA HeldConcat ==
    ASSUME NEW r \in Seq(Uop), NEW s \in Seq(Uop), NEW u \in Seq(Uop), Joined(r, s, u), NEW p
    PROVE  Held(r, p) = Held(s, p) + Held(u, p)
<1>. DEFINE O == OutsOf(r)
            A == OutsOf(s)
            B == OutsOf(u)
<1>1. A \in Seq(OutRec) /\ B \in Seq(OutRec) /\ O \in Seq(OutRec)
  BY OutsOfType
<1>. HIDE DEF A, B, O
<1>2. /\ Olds(A) \in Seq(Phreg) /\ Len(Olds(A)) = Len(A) /\ Olds(B) \in Seq(Phreg) /\ Len(Olds(B)) = Len(B)
      /\ \A q \in 1..Len(A) : Olds(A)[q] = A[q].old
      /\ \A q \in 1..Len(B) : Olds(B)[q] = B[q].old
      /\ \A q \in 1..Len(O) : Olds(O)[q] = O[q].old
      /\ Olds(O) \in Seq(Phreg) /\ Len(Olds(O)) = Len(O)
  BY <1>1, PhsAndOlds
<1>3. O = A \o B
  BY DEF Joined, O, A, B
<1>4. Len(A) \in Nat /\ Len(B) \in Nat
  BY <1>1, LenProperties
<1>5. Len(O) = Len(A) + Len(B)
      /\ \A q \in 1..(Len(A) + Len(B)) : O[q] = IF q <= Len(A) THEN A[q] ELSE B[q - Len(A)]
  BY <1>1, <1>3, ConcatProperties
<1>. DEFINE oA == Olds(A)
            oB == Olds(B)
<1>6. Len(oA \o oB) = Len(A) + Len(B)
      /\ \A q \in 1..(Len(A) + Len(B)) :
            (oA \o oB)[q] = IF q <= Len(A) THEN oA[q] ELSE oB[q - Len(A)]
  <2>1. oA \in Seq(Phreg) /\ Len(oA) = Len(A) /\ oB \in Seq(Phreg) /\ Len(oB) = Len(B)
    BY <1>2
  <2>. HIDE DEF oA, oB
  <2>2. Len(oA \o oB) = Len(oA) + Len(oB)
        /\ \A q \in 1..(Len(oA) + Len(oB)) :
              (oA \o oB)[q] = IF q <= Len(oA) THEN oA[q] ELSE oB[q - Len(oA)]
    BY <2>1, ConcatProperties
  <2>. QED
    BY <2>1, <2>2
<1>7. \A q \in 1..Len(O) : Olds(O)[q] = (Olds(A) \o Olds(B))[q]
  <2>. DEFINE a == Len(A)
              b == Len(B)
  <2>1. ASSUME NEW q \in 1..(a + b)  PROVE Olds(O)[q] = (Olds(A) \o Olds(B))[q]
    <3>. HIDE DEF a, b
    <3>1. CASE q <= a
      <4>1. q \in 1..a
        BY <1>4, <3>1 DEF a, b
      <4>. QED
        BY <1>2, <1>5, <1>6, <3>1, <4>1 DEF a, b
    <3>2. CASE ~ (q <= a)
      <4>1. q - a \in 1..b
        BY <1>4, <3>2 DEF a, b
      <4>. QED
        BY <1>2, <1>5, <1>6, <3>2, <4>1 DEF a, b
    <3>. QED
      BY <3>1, <3>2
  <2>. QED
    BY <1>5, <2>1
<1>8. Count(Olds(O), 1..Len(O), p) = Count(Olds(A) \o Olds(B), 1..Len(Olds(A) \o Olds(B)), p)
  <2>1. Len(O) = Len(Olds(A) \o Olds(B))
    BY <1>5, <1>6
  <2>. DEFINE D == 1..Len(O)
              c == Olds(A) \o Olds(B)
              o == Olds(O)
  <2>2. Count(Olds(O), D, p) = Count(Olds(A) \o Olds(B), D, p)
    <3>1. \A q \in D : o[q] = c[q]
      BY <1>7
    <3>. HIDE DEF D, c, o
    <3>2. Count(o, D, p) = Count(c, D, p)
      BY <3>1, CountSame
    <3>. QED
      BY <3>2 DEF o, c
  <2>. QED
    BY <2>1, <2>2
<1>9. Count(Olds(A) \o Olds(B), 1..Len(Olds(A) \o Olds(B)), p)
      = Count(Olds(A), 1..Len(Olds(A)), p) + Count(Olds(B), 1..Len(Olds(B)), p)
  BY <1>2, CountConcat
<1>. QED
  BY <1>2, <1>8, <1>9 DEF Held, O, A, B

LEMMA RecordedEmpty ==
    ASSUME NEW map \in [Loreg -> Phreg]
    PROVE  /\ <<>> \in Seq(Uop) /\ Recorded(<<>>, map) /\ \A p : Held(<<>>, p) = 0
<1>. DEFINE e == <<>>
            maps == [q \in 1..1 |-> map]
<1>1. e \in Seq(Uop) /\ Len(e) = 0
  OBVIOUS
<1>. HIDE DEF e
<1>2. PICK off : Layout(OutsAt(e), OutsOf(e), off)
  BY <1>1, OutsOfLayout
<1>3. Len(OutsAt(e)) = 0
  BY <1>1, OutsAtType
<1>4. Len(OutsOf(e)) = 0
  BY <1>2, <1>3 DEF Layout
<1>5. maps \in [1..(0 + 1) -> [Loreg -> Phreg]] /\ maps[1] = map
  OBVIOUS
<1>. HIDE DEF maps
<1>6. Chained(OutsOf(e), maps)
  BY <1>4, <1>5 DEF Chained
<1>7. History(e, map, off, maps)
  BY <1>1, <1>2, <1>4, <1>5, <1>6 DEF History
<1>8. Recorded(e, map)
  BY <1>7 DEF Recorded
<1>9. \A p : Held(e, p) = 0
  <2>1. 1..0 = {}
    OBVIOUS
  <2>. QED
    BY <1>4, <2>1, CountEmpty DEF Held
<1>. QED
  BY <1>1, <1>8, <1>9 DEF e

\* Stages that do not rename leave the history alone.
LEMMA RecordedSame ==
    ASSUME NEW r \in Seq(Uop), NEW s \in Seq(Uop), Len(s) = Len(r),
           \A i \in 1..Len(r) : s[i].outs = r[i].outs /\ s[i].ins = r[i].ins,
           NEW map
    PROVE  /\ Recorded(r, map) => Recorded(s, map)
           /\ \A p : Held(s, p) = Held(r, p)
           /\ OutsOf(s) = OutsOf(r)
<1>1. OutsAt(s) = OutsAt(r)
  BY DEF OutsAt
<1>2. OutsOf(s) = OutsOf(r)
  BY <1>1, OutsAtType
<1>3. \A p : Held(s, p) = Held(r, p)
  BY <1>2 DEF Held
<1>4. ASSUME NEW off, NEW maps, History(r, map, off, maps)  PROVE History(s, map, off, maps)
  BY <1>1, <1>2, <1>4 DEF History
<1>. QED
  BY <1>2, <1>3, <1>4 DEF Recorded
\* From the first table to the last one.
LEMMA Balance ==
    ASSUME NEW O \in Seq(OutRec), NEW maps, Chained(O, maps), NEW p
    PROVE  Uses(maps[Len(O) + 1], p) + Count(Olds(O), 1..Len(O), p)
           = Uses(maps[1], p) + Count(Phs(O), 1..Len(O), p)
<1>. DEFINE b == Len(O) + 1
<1>1. Len(O) \in Nat
  BY LenProperties
<1>2. 1 \in 1..b /\ b \in 1..b /\ b - 1 = Len(O) /\ b = Len(O) + 1
  BY <1>1
<1>. HIDE DEF b
<1>3. Count(maps[b], Loreg, p) + Count(Olds(O), 1..(b - 1), p)
      = Count(maps[1], Loreg, p) + Count(Phs(O), 1..(b - 1), p)
  BY <1>2, Exchange
<1>. QED
  BY <1>2, <1>3 DEF Uses

\* The inputs of u are as map has them.
Reads(u, map) == \A l \in DOMAIN u.ins : u.ins[l] = map[l]

\* Appending u to r, whose outputs go from map to map1.
Appended(r, u, map, map1) ==
    /\ Recorded(Append(r, u), map1)
    /\ \A p : Uses(map1, p) + Held(Append(r, u), p)
              = Uses(map, p) + Held(r, p) + Count(Phs(u.outs), 1..Len(u.outs), p)

LEMMA RecordedAppend ==
    ASSUME NEW r \in Seq(Uop), NEW u \in Uop, NEW map, NEW map1, Recorded(r, map),
           Leads(u.outs, map, map1), Reads(u, map)
    PROVE  Appended(r, u, map, map1)
<1>. DEFINE O == OutsOf(r)
            L == Len(O)
            x == u.outs
            n == Len(x)
            N == Len(r)
            s == Append(r, u)
            P == O \o x
<1>0. PICK more : Chained(u.outs, more) /\ more[1] = map /\ more[Len(u.outs) + 1] = map1
  BY DEF Leads
<1>1. PICK off, maps : History(r, map, off, maps)
  BY DEF Recorded
<1>2. /\ Layout(OutsAt(r), O, off) /\ Chained(O, maps) /\ maps[L + 1] = map
      /\ \A i \in 1..N : \A l \in DOMAIN r[i].ins : r[i].ins[l] = maps[off[i] + 1][l]
  BY <1>1 DEF History
<1>3. /\ O \in Seq(OutRec) /\ L \in Nat /\ x \in Seq(OutRec) /\ n \in Nat
      /\ N \in Nat /\ OutsAt(r) \in Seq(Seq(OutRec)) /\ Len(OutsAt(r)) = N
      /\ \A i \in 1..N : r[i] \in Uop /\ OutsAt(r)[i] = r[i].outs
  BY OutsOfType, OutsAtType, UopTypes
<1>4. s \in Seq(Uop) /\ Len(s) = N + 1 /\ s[N + 1] = u /\ \A i \in 1..N : s[i] = r[i]
  BY <1>3
<1>. DEFINE off1 == [i \in 1..(N + 2) |-> IF i <= N + 1 THEN off[i] ELSE L + n]
            maps1 == [q \in 1..(L + n + 1) |-> IF q <= L + 1 THEN maps[q] ELSE more[q - L]]
<1>. HIDE DEF O, L, x, n, N, s, P
<1>5. OutsAt(s) = Append(OutsAt(r), x)
  <2>1. OutsAt(s) \in Seq(Seq(OutRec)) /\ Len(OutsAt(s)) = N + 1
        /\ \A i \in 1..(N + 1) : OutsAt(s)[i] = s[i].outs
    BY <1>4, OutsAtType
  <2>2. /\ Append(OutsAt(r), x) \in Seq(Seq(OutRec)) /\ Len(Append(OutsAt(r), x)) = N + 1
        /\ \A i \in 1..N : Append(OutsAt(r), x)[i] = OutsAt(r)[i]
        /\ Append(OutsAt(r), x)[N + 1] = x
    BY <1>3
  <2>3. \A i \in 1..(N + 1) : i \in 1..N \/ i = N + 1
    BY <1>3
  <2>4. \A i \in 1..(N + 1) : OutsAt(s)[i] = Append(OutsAt(r), x)[i]
    <3>. DEFINE B == Append(OutsAt(r), x)
    <3>1. \A i \in 1..N : B[i] = OutsAt(r)[i]
      BY <2>2
    <3>2. B[N + 1] = x
      BY <2>2
    <3>. HIDE DEF B
    <3>0. \A i \in 1..N : i \in 1..(N + 1)
      BY <1>3
    <3>3. ASSUME NEW i \in 1..N  PROVE OutsAt(s)[i] = B[i]
      <4>1. s[i] = r[i] /\ OutsAt(s)[i] = s[i].outs
        BY <1>4, <2>1, <3>0
      <4>2. OutsAt(r)[i] = r[i].outs /\ B[i] = OutsAt(r)[i]
        BY <1>3, <3>1
      <4>. QED
        BY <4>1, <4>2
    <3>4. OutsAt(s)[N + 1] = B[N + 1]
      <4>1. N + 1 \in 1..(N + 1)
        BY <1>3
      <4>. QED
        BY <1>4, <2>1, <3>2, <4>1 DEF x
    <3>5. \A i \in 1..(N + 1) : OutsAt(s)[i] = B[i]
      BY <2>3, <3>3, <3>4
    <3>. QED
      BY <3>5 DEF B
  <2>. QED
    BY <2>1, <2>2, <2>4, SeqEqual
<1>6. Layout(OutsAt(s), P, off1)
  <2>1. Layout(Append(OutsAt(r), x), O \o x,
               [i \in 1..(Len(OutsAt(r)) + 2) |-> IF i <= Len(OutsAt(r)) + 1 THEN off[i] ELSE Len(O) + Len(x)])
    BY <1>2, <1>3, LayoutAppend
  <2>. QED
    BY <1>3, <1>5, <2>1 DEF P, L, n
<1>7. P = OutsOf(s)
  BY <1>4, <1>6, OutsOfUnique
<1>8. Chained(P, maps1)
  <2>1. Chained(x, more) /\ more[1] = maps[Len(O) + 1]
    BY <1>0, <1>2 DEF x, L
  <2>2. Chained(O \o x, [q \in 1..(Len(O) + Len(x) + 1) |->
                            IF q <= Len(O) + 1 THEN maps[q] ELSE more[q - Len(O)]])
    BY <1>2, <1>3, <2>1, ChainJoin
  <2>. QED
    BY <2>2 DEF P, L, n
<1>9. P \in Seq(OutRec) /\ Len(P) = L + n
      /\ \A q \in 1..(L + n) : P[q] = IF q <= L THEN O[q] ELSE x[q - L]
  BY <1>3, ConcatProperties DEF P, L, n
<1>10. maps1[L + n + 1] = map1
  <2>1. L + n + 1 \in 1..(L + n + 1)
    BY <1>3
  <2>2. CASE n = 0
    <3>1. L + n + 1 = L + 1 /\ L + 1 <= L + 1 /\ n + 1 = 1
      BY <1>3, <2>2
    <3>2. map1 = map
      BY <1>0, <3>1 DEF n, x
    <3>3. maps1[L + n + 1] = maps[L + 1]
      BY <2>1, <3>1
    <3>. QED
      BY <1>2, <3>2, <3>3
  <2>3. CASE n # 0
    <3>1. ~ (L + n + 1 <= L + 1) /\ (L + n + 1) - L = n + 1
      BY <1>3, <2>3
    <3>2. maps1[L + n + 1] = more[n + 1]
      BY <2>1, <3>1
    <3>. QED
      BY <1>0, <3>2 DEF n, x
  <2>. QED
    BY <2>2, <2>3
<1>11. ASSUME NEW q \in 1..(L + 1)  PROVE maps1[q] = maps[q]
  <2>1. q \in 1..(L + n + 1) /\ q <= L + 1
    BY <1>3
  <2>. QED
    BY <2>1
<1>12. ASSUME NEW i \in 1..(N + 1), NEW l \in DOMAIN s[i].ins
       PROVE  s[i].ins[l] = maps1[off1[i] + 1][l]
  <2>1. /\ off[i] \in Nat /\ off[i] <= L /\ off[N + 1] = L
    <3>1. Len(O) = off[N + 1] /\ \A j \in 1..(N + 1) : off[j] \in Nat
      BY <1>2, <1>3, LayoutLengths DEF Layout
    <3>2. i \in 1..(Len(OutsAt(r)) + 1) /\ N + 1 \in i..(Len(OutsAt(r)) + 1)
      BY <1>3
    <3>3. off[i] <= off[N + 1]
      BY <1>2, <1>3, <3>2, LayoutMonotone
    <3>. QED
      BY <3>1, <3>3 DEF L
  <2>2. off1[i] = off[i]
    <3>1. i \in 1..(N + 2) /\ i <= N + 1
      BY <1>3
    <3>. QED
      BY <3>1
  <2>. HIDE DEF off1, maps1
  <2>3. off[i] + 1 \in 1..(L + 1)
    BY <1>3, <2>1
  <2>4. maps1[off[i] + 1] = maps[off[i] + 1]
    BY <1>11, <2>3
  <2>5. CASE i \in 1..N
    <3>1. s[i] = r[i]
      BY <1>4, <2>5
    <3>2. r[i].ins[l] = maps[off[i] + 1][l]
      BY <1>2, <2>5, <3>1
    <3>. QED
      BY <2>2, <2>4, <3>1, <3>2
  <2>6. CASE i = N + 1
    <3>1. s[i] = u /\ maps[off[i] + 1] = map
      BY <1>2, <1>4, <2>1, <2>6
    <3>2. u.ins[l] = map[l]
      BY <3>1 DEF Reads
    <3>. QED
      BY <2>2, <2>4, <3>1, <3>2
  <2>. QED
    BY <1>3, <2>5, <2>6
<1>. HIDE DEF off1, maps1
<1>13. History(s, map1, off1, maps1)
  BY <1>4, <1>6, <1>7, <1>8, <1>9, <1>10, <1>12 DEF History
<1>14. Recorded(s, map1)
  BY <1>13 DEF Recorded
<1>15. ASSUME NEW p  PROVE Uses(map1, p) + Held(s, p) = Uses(map, p) + Held(r, p) + Count(Phs(x), 1..n, p)
  <2>. DEFINE ux == Uses(map1, p)
              hx == Held(s, p)
              um == Uses(map, p)
              hm == Held(r, p)
              cx == Count(Phs(x), 1..n, p)
              cO == Count(Phs(O), 1..L, p)
              cP == Count(Phs(P), 1..(L + n), p)
              u0 == Uses(maps[1], p)
  <2>1. ux + hx = u0 + cP
    <3>2. Uses(maps1[Len(P) + 1], p) + Count(Olds(P), 1..Len(P), p)
          = Uses(maps1[1], p) + Count(Phs(P), 1..Len(P), p)
      BY <1>8, <1>9, Balance
    <3>3. maps1[1] = maps[1]
      <4>1. 1 \in 1..(L + 1)
        BY <1>3
      <4>. QED
        BY <1>11, <4>1
    <3>4. hx = Count(Olds(P), 1..(L + n), p)
      BY <1>7, <1>9 DEF Held
    <3>. QED
      BY <1>9, <1>10, <3>2, <3>3, <3>4
  <2>2. um + hm = u0 + cO
    <3>1. Uses(maps[Len(O) + 1], p) + Count(Olds(O), 1..Len(O), p)
          = Uses(maps[1], p) + Count(Phs(O), 1..Len(O), p)
      BY <1>2, <1>3, Balance
    <3>. QED
      BY <1>2, <3>1 DEF Held, O, L
  <2>3. cP = cO + cx
    <3>. DEFINE A == Phs(O)
                B == Phs(x)
    <3>1. /\ A \in Seq(Phreg) /\ Len(A) = L /\ B \in Seq(Phreg) /\ Len(B) = n
          /\ \A q \in 1..L : A[q] = O[q].ph
          /\ \A q \in 1..n : B[q] = x[q].ph
          /\ \A q \in 1..(L + n) : Phs(P)[q] = P[q].ph
      BY <1>3, <1>9, PhsAndOlds DEF L, n
    <3>. HIDE DEF A, B
    <3>2. Len(A \o B) = L + n /\ \A q \in 1..(L + n) : (A \o B)[q] = IF q <= L THEN A[q] ELSE B[q - L]
      <4>1. Len(A \o B) = Len(A) + Len(B)
            /\ \A q \in 1..(Len(A) + Len(B)) : (A \o B)[q] = IF q <= Len(A) THEN A[q] ELSE B[q - Len(A)]
        BY <3>1, ConcatProperties
      <4>. QED
        BY <3>1, <4>1
    <3>. DEFINE c == A \o B
                D == 1..(L + n)
    <3>3. \A q \in D : Phs(P)[q] = c[q]
      <4>1. ASSUME NEW q \in D  PROVE Phs(P)[q] = c[q]
        <5>1. (q <= L => q \in 1..L) /\ (~ (q <= L) => q - L \in 1..n)
          BY <1>3
        <5>. HIDE DEF c
        <5>2. c[q] = IF q <= L THEN A[q] ELSE B[q - L]
          BY <3>2 DEF c
        <5>. QED
          BY <1>9, <3>1, <5>1, <5>2
      <4>. QED
        BY <4>1
    <3>4. Count(Phs(P), D, p) = Count(c, D, p)
      <4>. DEFINE ph == Phs(P)
      <4>1. \A q \in D : ph[q] = c[q]
        BY <3>3
      <4>. HIDE DEF c, D, ph
      <4>2. Count(ph, D, p) = Count(c, D, p)
        BY <4>1, CountSame
      <4>. QED
        BY <4>2 DEF ph
    <3>5. Count(A \o B, 1..Len(A \o B), p) = Count(A, 1..Len(A), p) + Count(B, 1..Len(B), p)
      BY <3>1, CountConcat
    <3>6. Count(c, D, p) = Count(A, 1..L, p) + Count(B, 1..n, p)
      BY <3>1, <3>2, <3>5
    <3>. QED
      BY <3>4, <3>6 DEF A, B
  <2>4. ux \in Nat /\ hx \in Nat /\ um \in Nat /\ hm \in Nat
    BY <1>4, UsesHeldType
  <2>5. cx \in Nat /\ cO \in Nat /\ u0 \in Nat
    <3>1. IsFiniteSet(1..n) /\ IsFiniteSet(1..L)
      BY <1>3, IntervalFinite
    <3>. QED
      BY <3>1, CountType, LoregFinite DEF Uses
  <2>. HIDE DEF ux, hx, um, hm, cx, cO, cP, u0
  <2>6. ux + hx = um + hm + cx
    BY <2>1, <2>2, <2>3, <2>4, <2>5
  <2>. QED
    BY <2>6 DEF ux, hx, um, hm, cx
<1>. QED
  BY <1>14, <1>15 DEF Appended, s, x, n

\* The reorder buffer is cut after m uops.
LEMMA RecordedCut ==
    ASSUME NEW r \in Seq(Uop), NEW map, Recorded(r, map), NEW m \in 0..Len(r)
    PROVE  /\ SubSeq(r, 1, m) \in Seq(Uop) /\ SubSeq(r, m + 1, Len(r)) \in Seq(Uop)
           /\ Joined(r, SubSeq(r, 1, m), SubSeq(r, m + 1, Len(r)))
           /\ Recorded(SubSeq(r, m + 1, Len(r)), map)
           /\ \E map0 \in [Loreg -> Phreg] :
                 /\ Recorded(SubSeq(r, 1, m), map0)
                 /\ Leads(OutsOf(SubSeq(r, m + 1, Len(r))), map0, map)
<1>. DEFINE N == Len(r)
            O == OutsOf(r)
            L == Len(O)
            P == SubSeq(r, 1, m)
            S == SubSeq(r, m + 1, N)
            X == OutsOf(S)
<1>1. PICK off, maps : History(r, map, off, maps)
  BY DEF Recorded
<1>. DEFINE M == off[m+1]
            offP == [i \in 1..(m + 1) |-> off[i]]
            offS == [i \in 1..(N - m + 1) |-> off[i+m] - M]
            mapsP == [q \in 1..(M + 1) |-> maps[q]]
            mapsS == [q \in 1..(L - M + 1) |-> maps[q+M]]
<1>2. /\ Layout(OutsAt(r), O, off) /\ Chained(O, maps) /\ maps[L + 1] = map
      /\ \A i \in 1..N : \A l \in DOMAIN r[i].ins : r[i].ins[l] = maps[off[i] + 1][l]
  BY <1>1 DEF History
<1>3. /\ O \in Seq(OutRec) /\ L \in Nat /\ N \in Nat /\ m \in Nat /\ m <= N
      /\ OutsAt(r) \in Seq(Seq(OutRec)) /\ Len(OutsAt(r)) = N
  BY OutsOfType, OutsAtType
<1>4. /\ P \in Seq(Uop) /\ S \in Seq(Uop) /\ Len(P) = m /\ Len(S) = N - m
      /\ \A i \in 1..m : P[i] = r[i]
      /\ \A i \in 1..(N - m) : S[i] = r[i+m]
      /\ M \in 0..L
      /\ Layout(OutsAt(P), OutsOf(P), offP) /\ Layout(OutsAt(S), X, offS)
      /\ OutsOf(P) = SubSeq(O, 1, M)
      /\ X = SubSeq(O, M + 1, L)
  <2>1. Layout(OutsAt(r), OutsOf(r), off)
    BY <1>2
  <2>2. CutAt(r, off, m)
    BY <2>1, OutsOfSplit
  <2>. QED
    BY <2>2 DEF CutAt
<1>5. Chained(OutsOf(P), mapsP)
  <2>1. Chained(SubSeq(O, 1, M), [q \in 1..(M + 1) |-> maps[q]])
    BY <1>2, <1>3, <1>4, ChainPrefix
  <2>. QED
    BY <1>4, <2>1
<1>6. Chained(X, mapsS)
  <2>1. Chained(SubSeq(O, M + 1, Len(O)), [q \in 1..(Len(O) - M + 1) |-> maps[q+M]])
    BY <1>2, <1>3, <1>4, ChainSuffix
  <2>. QED
    BY <1>4, <2>1
<1>7. \A i \in 1..(N + 1) : off[i] \in Nat
  BY <1>2, <1>3, LayoutLengths
<1>. HIDE DEF N, L, O, P, S, X, M
<1>8. Len(OutsOf(P)) = M /\ M \in Nat
  BY <1>3, <1>4 DEF L
<1>9. Len(X) = L - M /\ \A q \in 1..(L - M) : X[q] = O[q+M]
  <2>1. \A i \in (M + 1)..L : O[i] \in OutRec
    BY <1>3, <1>8 DEF L
  <2>2. /\ Len(X) = IF M + 1 <= L THEN L - (M + 1) + 1 ELSE 0
        /\ \A i \in 1..(L - (M + 1) + 1) : X[i] = O[(M + 1) + i - 1]
    BY <1>3, <1>4, <1>8, <2>1, SubSeqProperties
  <2>3. L - (M + 1) + 1 = L - M /\ (~ (M + 1 <= L) => L - M = 0)
        /\ \A i \in 1..(L - M) : (M + 1) + i - 1 = i + M
    BY <1>3, <1>4
  <2>. QED
    BY <2>2, <2>3
<1>10. Recorded(P, maps[M + 1])
  <2>1. mapsP[M + 1] = maps[M + 1]
    <3>1. M + 1 \in 1..(M + 1)
      BY <1>8
    <3>. QED
      BY <3>1
  <2>2. ASSUME NEW i \in 1..m, NEW l \in DOMAIN P[i].ins  PROVE P[i].ins[l] = mapsP[offP[i] + 1][l]
    <3>1. i \in 1..N /\ i \in 1..(m + 1) /\ m + 1 \in i..(N + 1) /\ i \in 1..(N + 1)
      BY <1>3
    <3>2. P[i] = r[i] /\ offP[i] = off[i]
      BY <1>4, <3>1
    <3>3. off[i] <= off[m+1]
      BY <1>2, <1>3, <3>1, LayoutMonotone
    <3>4. off[i] + 1 \in 1..(M + 1)
      BY <1>7, <1>8, <3>1, <3>3 DEF M
    <3>5. mapsP[off[i] + 1] = maps[off[i] + 1]
      BY <3>4
    <3>. QED
      BY <1>2, <3>1, <3>2, <3>5
  <2>. HIDE DEF mapsP, offP
  <2>3. History(P, maps[M + 1], offP, mapsP)
    BY <1>4, <1>5, <1>8, <2>1, <2>2 DEF History
  <2>. QED
    BY <2>3 DEF Recorded
<1>11. mapsS[1] = maps[M + 1] /\ mapsS[Len(X) + 1] = map
  <2>1. 1 \in 1..(L - M + 1) /\ L - M + 1 \in 1..(L - M + 1) /\ 1 + M = M + 1 /\ (L - M + 1) + M = L + 1
    BY <1>3, <1>4
  <2>2. mapsS[1] = maps[M + 1] /\ mapsS[L - M + 1] = maps[L + 1]
    BY <2>1
  <2>. HIDE DEF mapsS
  <2>. QED
    BY <1>2, <1>9, <2>2
<1>12. Recorded(S, map)
  <2>2. ASSUME NEW i \in 1..(N - m), NEW l \in DOMAIN S[i].ins  PROVE S[i].ins[l] = mapsS[offS[i] + 1][l]
    <3>1. i + m \in 1..N /\ i \in 1..(N - m + 1) /\ m + 1 \in 1..(N + 1) /\ i + m \in (m + 1)..(N + 1)
          /\ i + m \in 1..(N + 1) /\ N + 1 \in (i + m)..(N + 1)
      BY <1>3
    <3>2. S[i] = r[i+m] /\ offS[i] = off[i+m] - M
      BY <1>4, <3>1
    <3>3. off[m+1] <= off[i+m] /\ off[i+m] <= off[N+1]
      BY <1>2, <1>3, <3>1, LayoutMonotone
    <3>4. off[N+1] = L
      BY <1>2, <1>3 DEF Layout, L
    <3>5. off[i+m] - M + 1 \in 1..(L - M + 1) /\ (off[i+m] - M + 1) + M = off[i+m] + 1
      <4>. DEFINE x == off[i+m]
      <4>1. x \in Nat /\ M <= x /\ x <= L
        BY <1>7, <3>1, <3>3, <3>4 DEF M
      <4>. HIDE DEF x
      <4>2. x - M + 1 \in 1..(L - M + 1) /\ (x - M + 1) + M = x + 1
        BY <1>3, <1>8, <4>1
      <4>. QED
        BY <4>2 DEF x
    <3>6. mapsS[off[i+m] - M + 1] = maps[off[i+m] + 1]
      BY <3>5
    <3>. QED
      BY <1>2, <3>1, <3>2, <3>6
  <2>. HIDE DEF mapsS, offS
  <2>3. History(S, map, offS, mapsS)
    BY <1>4, <1>6, <1>11, <2>2 DEF History, X
  <2>. QED
    BY <2>3 DEF Recorded
<1>13. Leads(X, maps[M + 1], map)
  <2>. HIDE DEF mapsS
  <2>. QED
    BY <1>6, <1>11 DEF Leads
<1>14. maps[M + 1] \in [Loreg -> Phreg]
  <2>1. M + 1 \in 1..(L + 1)
    BY <1>3, <1>4
  <2>. QED
    BY <1>2, <1>3, <2>1, ChainTypes DEF L
<1>15. O = OutsOf(P) \o X
  <2>. DEFINE A == OutsOf(P)
  <2>1. A \in Seq(OutRec) /\ X \in Seq(OutRec)
    BY <1>4, OutsOfType DEF X
  <2>2. \A q \in 1..M : A[q] = O[q]
    BY <1>3, <1>4, <1>8
  <2>. HIDE DEF A
  <2>3. A \o X \in Seq(OutRec) /\ Len(A \o X) = L
        /\ \A q \in 1..L : (A \o X)[q] = IF q <= M THEN A[q] ELSE X[q - M]
    <3>1. A \o X \in Seq(OutRec) /\ Len(A \o X) = Len(A) + Len(X)
          /\ \A q \in 1..(Len(A) + Len(X)) : (A \o X)[q] = IF q <= Len(A) THEN A[q] ELSE X[q - Len(A)]
      BY <2>1, ConcatProperties
    <3>2. Len(A) = M /\ Len(A) + Len(X) = L
      BY <1>3, <1>4, <1>8, <1>9 DEF A
    <3>. QED
      BY <3>1, <3>2
  <2>4. \A q \in 1..L : (A \o X)[q] = O[q]
    <3>1. ASSUME NEW q \in 1..L  PROVE (A \o X)[q] = O[q]
      <4>1. CASE q <= M
        <5>1. q \in 1..M
          BY <1>3, <1>4, <4>1
        <5>. QED
          BY <2>2, <2>3, <4>1, <5>1
      <4>2. CASE ~ (q <= M)
        <5>1. q - M \in 1..(L - M) /\ (q - M) + M = q
          BY <1>3, <1>4, <4>2
        <5>. QED
          BY <1>9, <2>3, <4>2, <5>1
      <4>. QED
        BY <4>1, <4>2
    <3>. QED
      BY <3>1
  <2>5. O = A \o X
    BY <1>3, <2>3, <2>4, SeqEqual DEF L
  <2>. QED
    BY <2>5 DEF A
<1>16. Joined(r, P, S)
  BY <1>15 DEF Joined, O, X
<1>. QED
  BY <1>4, <1>10, <1>12, <1>13, <1>14, <1>16 DEF N, O, P, S, X

LEMMA LeadsBalance ==
    ASSUME NEW O \in Seq(OutRec), NEW a, NEW b, Leads(O, a, b), NEW p
    PROVE  Uses(b, p) + Count(Olds(O), 1..Len(O), p) = Uses(a, p) + Count(Phs(O), 1..Len(O), p)
<1>1. PICK maps : Chained(O, maps) /\ maps[1] = a /\ maps[Len(O) + 1] = b
  BY DEF Leads
<1>2. Uses(maps[Len(O) + 1], p) + Count(Olds(O), 1..Len(O), p)
      = Uses(maps[1], p) + Count(Phs(O), 1..Len(O), p)
  BY <1>1, Balance
<1>. QED
  BY <1>1, <1>2

\* Undoing the outputs gives the table before them back.
LEMMA RestoreIs ==
    ASSUME NEW O \in Seq(OutRec), NEW a, Leads(O, a, rat), Restore(O)
    PROVE  a \in [Loreg -> Phreg] /\ rat' = a
<1>. DEFINE n == Len(O)
            Ks(l) == {k \in DOMAIN O : O[k].lo = l}
            first(l) == CHOOSE k \in Ks(l) : \A j \in Ks(l) : k <= j
<1>1. PICK maps : Chained(O, maps) /\ maps[1] = a /\ maps[n + 1] = rat
  BY DEF Leads
<1>2. n \in Nat /\ DOMAIN O = 1..n
  BY LenProperties
<1>3. a \in [Loreg -> Phreg]
  <2>1. 1 \in 1..(n + 1)
    BY <1>2
  <2>. QED
    BY <1>1, <2>1, ChainTypes
<1>4. rat' = [l \in Loreg |-> IF Ks(l) = {} THEN rat[l] ELSE O[first(l)].old]
  BY DEF Restore
<1>. HIDE DEF n
<1>5. ASSUME NEW l \in Loreg  PROVE (IF Ks(l) = {} THEN rat[l] ELSE O[first(l)].old) = a[l]
  <2>1. CASE Ks(l) = {}
    <3>1. 1 \in 1..(n + 1) /\ n + 1 \in 1..(n + 1) /\ (n + 1) - 1 = n
      BY <1>2
    <3>2. \A q \in 1..n : O[q].lo # l
      BY <1>2, <2>1
    <3>3. maps[n + 1][l] = maps[1][l]
      BY <1>1, <3>1, <3>2, Unwritten DEF n
    <3>. HIDE DEF Ks, first
    <3>. QED
      BY <1>1, <2>1, <3>3
  <2>2. CASE Ks(l) # {}
    <3>1. Ks(l) \subseteq 1..n /\ Ks(l) \in SUBSET Nat
      BY <1>2
    <3>2. \E k \in Ks(l) : \A j \in Ks(l) : k <= j
      <4>. HIDE DEF Ks
      <4>. QED
        BY <2>2, <3>1, Least
    <3>. DEFINE k == first(l)
    <3>3. k \in Ks(l) /\ \A j \in Ks(l) : k <= j
      <4>. HIDE DEF Ks
      <4>. QED
        BY <3>2
    <3>. HIDE DEF first, k
    <3>4. k \in 1..n /\ O[k].lo = l
      BY <1>2, <3>3
    <3>5. k \in 1..(n + 1) /\ 1 \in 1..(n + 1) /\ \A q \in 1..(k - 1) : O[q].lo # l
      <4>1. k \in 1..(n + 1) /\ 1 \in 1..(n + 1)
        BY <1>2, <3>4
      <4>2. ASSUME NEW q \in 1..(k - 1)  PROVE O[q].lo # l
        <5>1. q \in 1..n /\ ~ (k <= q)
          BY <1>2, <3>4
        <5>. QED
          BY <1>2, <3>3, <5>1
      <4>. QED
        BY <4>1, <4>2
    <3>6. maps[k][l] = maps[1][l]
      BY <1>1, <3>5, Unwritten DEF n
    <3>7. O[k].old = maps[k][l]
      BY <1>1, <3>4, ChainStep DEF n
    <3>. HIDE DEF Ks
    <3>. QED
      BY <1>1, <2>2, <3>6, <3>7 DEF k
  <2>. QED
    BY <2>1, <2>2
<1>. HIDE DEF Ks, first
<1>6. rat' = [l \in Loreg |-> a[l]]
  BY <1>4, <1>5
<1>. QED
  BY <1>3, <1>6

LEMMA LastKeptIs ==
    ASSUME NEW r \in Seq(Uop)
    PROVE  /\ LastKept(r) \in 0..Len(r)
           /\ \A i \in 1..Len(r) : i > LastKept(r) => r[i].spec
           /\ LastKept(r) # 0 => ~ r[LastKept(r)].spec
<1>. DEFINE n == Len(r)
            T == {0} \cup {i \in DOMAIN r : ~ r[i].spec}
            k == LastKept(r)
<1>1. n \in Nat /\ DOMAIN r = 1..n
  BY OutsAtType
<1>. HIDE DEF n
<1>2. T \in SUBSET (0..n) /\ T # {}
  <2>1. \A i \in 1..n : i \in 0..n
    BY <1>1
  <2>2. 0 \in 0..n
    BY <1>1
  <2>. QED
    BY <1>1, <2>1, <2>2
<1>3. \E x \in T : \A y \in T : y <= x
  <2>. HIDE DEF T
  <2>. QED
    BY <1>1, <1>2, Greatest
<1>4. k = CHOOSE x \in T : \A y \in T : x >= y
  BY DEF LastKept, Max
<1>5. k \in T /\ \A y \in T : k >= y
  <2>. HIDE DEF T, k
  <2>1. \E x \in T : \A y \in T : x >= y
    BY <1>1, <1>2, <1>3
  <2>. QED
    BY <1>4, <2>1
<1>. HIDE DEF k
<1>6. \A i \in 1..n : i > k => r[i].spec
  <2>1. ASSUME NEW i \in 1..n, i > k  PROVE i \notin T
    BY <1>1, <1>2, <1>5, <2>1
  <2>. QED
    BY <1>1, <2>1
<1>7. k # 0 => ~ r[k].spec
  BY <1>5
<1>8. k \in 0..n
  BY <1>2, <1>5
<1>. QED
  BY <1>6, <1>7, <1>8 DEF k, n

\* The speculative uops at the tail are squashed.
LEMMA Squash ==
    ASSUME NEW r \in Seq(Uop), Recorded(r, rat), Restore(OutsOf(Squashed(r)))
    PROVE  /\ Kept(r) \in Seq(Uop) /\ Squashed(r) \in Seq(Uop)
           /\ rat' \in [Loreg -> Phreg] /\ Recorded(Kept(r), rat')
           /\ \A p : Uses(rat, p) + Held(r, p)
                     = Uses(rat', p) + Held(Kept(r), p)
                       + Count(Phs(OutsOf(Squashed(r))), 1..Len(OutsOf(Squashed(r))), p)
<1>. DEFINE m == LastKept(r)
            P == Kept(r)
            S == Squashed(r)
            X == OutsOf(S)
<1>1. m \in 0..Len(r)
  BY LastKeptIs
<1>2. P = SubSeq(r, 1, m) /\ S = SubSeq(r, m + 1, Len(r))
  BY DEF Kept, Squashed
<1>. HIDE DEF m
<1>3. /\ SubSeq(r, 1, m) \in Seq(Uop) /\ SubSeq(r, m + 1, Len(r)) \in Seq(Uop)
      /\ Joined(r, SubSeq(r, 1, m), SubSeq(r, m + 1, Len(r)))
      /\ \E map0 \in [Loreg -> Phreg] :
                 /\ Recorded(SubSeq(r, 1, m), map0)
                 /\ Leads(OutsOf(SubSeq(r, m + 1, Len(r))), map0, rat)
  BY <1>1, RecordedCut
<1>. HIDE DEF P, S
<1>4. P \in Seq(Uop) /\ S \in Seq(Uop) /\ Joined(r, P, S)
  BY <1>2, <1>3
<1>5. PICK map0 \in [Loreg -> Phreg] : Recorded(P, map0) /\ Leads(X, map0, rat)
  BY <1>2, <1>3
<1>6. X \in Seq(OutRec)
  BY <1>4, OutsOfType
<1>7. rat' = map0
  BY <1>5, <1>6, RestoreIs DEF S
<1>8. ASSUME NEW p  PROVE Uses(rat, p) + Held(r, p) = Uses(rat', p) + Held(P, p) + Count(Phs(X), 1..Len(X), p)
  <2>. DEFINE ur == Uses(rat, p)
              u0 == Uses(map0, p)
              hr == Held(r, p)
              hp == Held(P, p)
              hs == Held(S, p)
              c == Count(Phs(X), 1..Len(X), p)
  <2>1. hr = hp + hs
    BY <1>4, HeldConcat
  <2>2. ur + hs = u0 + c
    BY <1>5, <1>6, LeadsBalance DEF Held
  <2>3. ur \in Nat /\ u0 \in Nat /\ hp \in Nat /\ hs \in Nat
    BY <1>4, UsesHeldType
  <2>4. c \in Nat
    <3>1. IsFiniteSet(1..Len(X))
      BY <1>6, LenProperties, IntervalFinite
    <3>. QED
      BY <3>1, CountType
  <2>. HIDE DEF ur, u0, hr, hp, hs, c
  <2>5. ur + hr = u0 + hp + c
    BY <2>1, <2>2, <2>3, <2>4
  <2>. QED
    BY <1>7, <2>5 DEF ur, u0, hr, hp, c
<1>. QED
  BY <1>4, <1>5, <1>7, <1>8 DEF P, S, X

\* The oldest uop leaves.
LEMMA RecordedTail ==
    ASSUME NEW r \in Seq(Uop), r # <<>>, NEW map, Recorded(r, map)
    PROVE  /\ Head(r) \in Uop /\ Head(r) = r[1] /\ Tail(r) \in Seq(Uop)
           /\ Len(Tail(r)) = Len(r) - 1 /\ Len(r) \in Nat \ {0}
           /\ \A i \in 1..(Len(r) - 1) : Tail(r)[i] = r[i+1]
           /\ Recorded(Tail(r), map)
           /\ \A p : Held(r, p) = Held(Tail(r), p)
                                  + Count(Olds(Head(r).outs), 1..Len(Head(r).outs), p)
<1>. DEFINE n == Len(r)
            H == SubSeq(r, 1, 1)
            T == Tail(r)
<1>1. n \in Nat /\ n # 0 /\ 1 \in 1..n /\ 1 \in 0..n
  BY OutsAtType, EmptySeq
<1>2. Head(r) = r[1] /\ r[1] \in Uop
  BY <1>1, OutsAtType
<1>3. T \in Seq(Uop) /\ Len(T) = n - 1 /\ \A i \in 1..(n - 1) : T[i] = r[i+1]
  BY <1>1
<1>4. T = SubSeq(r, 1 + 1, n)
  OBVIOUS
<1>5. /\ H \in Seq(Uop) /\ SubSeq(r, 1 + 1, n) \in Seq(Uop)
      /\ Joined(r, H, SubSeq(r, 1 + 1, n))
      /\ Recorded(SubSeq(r, 1 + 1, n), map)
  BY <1>1, RecordedCut
<1>6. Len(H) = 1 /\ H[1] = r[1]
  BY <1>1
<1>. HIDE DEF H, T, n
<1>7. OutsOf(H) = r[1].outs
  BY <1>5, <1>6, OutsOfOne
<1>8. ASSUME NEW p  PROVE Held(r, p) = Held(T, p) + Count(Olds(r[1].outs), 1..Len(r[1].outs), p)
  <2>0. H \in Seq(Uop) /\ T \in Seq(Uop) /\ Joined(r, H, T)
    BY <1>3, <1>4, <1>5
  <2>1. Held(r, p) = Held(H, p) + Held(T, p)
    BY <2>0, HeldConcat
  <2>2. Held(H, p) \in Nat /\ Held(T, p) \in Nat
    BY <1>3, <1>5, UsesHeldType
  <2>3. Held(H, p) = Count(Olds(r[1].outs), 1..Len(r[1].outs), p)
    BY <1>7 DEF Held
  <2>. QED
    BY <2>1, <2>2, <2>3
<1>. QED
  BY <1>1, <1>2, <1>3, <1>4, <1>5, <1>8 DEF T, n

\* Giving up olds and, from the tail, phs.
LEMMA TimesDropped ==
    ASSUME NEW olds \in Seq(Phreg), NEW phs \in Seq(Phreg), NEW p
    PROVE  /\ olds \o Reverse(phs) \in Seq(Phreg)
           /\ Times(olds \o Reverse(phs), p)
              = Count(olds, 1..Len(olds), p) + Count(phs, 1..Len(phs), p)
<1>. DEFINE n == Len(phs)
            R == Reverse(phs)
            c == olds \o R
            D == 1..n
            h == [k \in D |-> (n - k) + 1]
<1>1. n \in Nat /\ \A k \in 1..n : phs[k] \in Phreg
  OBVIOUS
<1>2. R = [k \in 1..n |-> phs[(n - k) + 1]]
  BY DEF Reverse
<1>. HIDE DEF n, R
<1>3. R \in Seq(Phreg) /\ Len(R) = n
  <2>1. \A k \in 1..n : (n - k) + 1 \in 1..n
    BY <1>1
  <2>2. R \in [1..n -> Phreg]
    BY <1>1, <1>2, <2>1
  <2>. QED
    BY <1>1, <2>2
<1>4. c \in Seq(Phreg)
  BY <1>3, ConcatProperties
<1>5. Times(c, p) = Count(c, 1..Len(c), p)
  <2>. HIDE DEF c
  <2>. QED
    BY <1>4, TimesIsCount
<1>6. Count(c, 1..Len(c), p) = Count(olds, 1..Len(olds), p) + Count(R, 1..Len(R), p)
  BY <1>3, CountConcat
<1>7. Count(phs, D, p) = Count(R, D, p)
  <2>1. h \in [D -> D] /\ \A k \in D : h[k] = (n - k) + 1
    BY <1>1
  <2>. HIDE DEF h
  <2>2. \A i, j \in D : h[i] = h[j] => i = j
    BY <1>1, <2>1
  <2>3. ASSUME NEW y \in D  PROVE \E k \in D : h[k] = y
    <3>1. (n - y) + 1 \in D /\ (n - ((n - y) + 1)) + 1 = y
      BY <1>1
    <3>. QED
      BY <2>1, <3>1
  <2>4. \A k \in D : phs[h[k]] = R[k]
    BY <1>2, <2>1
  <2>5. Moves(h, R, D, phs, D)
    BY <2>1, <2>2, <2>3, <2>4 DEF Moves
  <2>6. IsFiniteSet(D)
    BY <1>1, IntervalFinite
  <2>. HIDE DEF D
  <2>. QED
    BY <2>5, <2>6, CountMoved
<1>. QED
  BY <1>3, <1>4, <1>5, <1>6, <1>7 DEF R, n
-----------------------------------------------------------------------------
(* The register file and the reorder buffer agree *)

Registers ==
    /\ rat \in [Loreg -> Phreg] /\ busy \in [Phreg -> Nat]
    /\ FreeExact(busy, free) /\ count = Size - Len(free)
    /\ Recorded(rob, rat)
    /\ \A p \in Phreg : busy[p] = Uses(rat, p) + Held(rob, p)

LEMMA RegistersInit == ASSUME Init PROVE Registers
<1>. DEFINE s == [k \in 1..Size |-> k - 1]
            S == {p \in Phreg : Mapped(p) = {}}
<1>1. Size \in Nat /\ Start \in [Loreg -> Phreg]
  BY PipelineAssumption
<1>2. /\ rob = <<>> /\ rat = Start /\ busy = [p \in Phreg |-> Cardinality(Mapped(p))]
      /\ free = Among(s, S) /\ count = Size - Len(free)
  BY DEF Init
<1>3. s \in Seq(Phreg) /\ Len(s) = Size /\ \A k \in 1..Size : s[k] = k - 1
  <2>1. \A k \in 1..Size : k - 1 \in Phreg
    BY <1>1 DEF Phreg
  <2>2. s \in [1..Size -> Phreg]
    BY <2>1
  <2>. QED
    BY <1>1, <2>2
<1>. HIDE DEF s
<1>4. \A j, k \in 1..Len(s) : s[j] = s[k] => j = k
  BY <1>1, <1>3
<1>5. /\ free \in Seq(Phreg)
      /\ \A v : (\E j \in 1..Len(free) : free[j] = v) <=> (v \in S /\ \E k \in 1..Len(s) : s[k] = v)
      /\ \A i, j \in 1..Len(free) : free[i] = free[j] => i = j
  <2>. HIDE DEF S
  <2>1. /\ Among(s, S) \in Seq(Phreg)
        /\ \A v : (\E j \in 1..Len(Among(s, S)) : Among(s, S)[j] = v)
                  <=> (v \in S /\ \E k \in 1..Len(s) : s[k] = v)
        /\ \A i, j \in 1..Len(Among(s, S)) : Among(s, S)[i] = Among(s, S)[j] => i = j
    BY <1>3, <1>4, AmongIs
  <2>. QED
    BY <1>2, <2>1
<1>6. \A p : Cardinality(Mapped(p)) = Uses(rat, p)
  BY <1>2 DEF Mapped, Uses, Count
<1>7. \A p : /\ Uses(rat, p) \in Nat
             /\ Uses(rat, p) > 0 <=> \E l \in Loreg : rat[l] = p
  BY LoregFinite, CountType, CountPositive DEF Uses
<1>8. busy \in [Phreg -> Nat] /\ \A p \in Phreg : busy[p] = Uses(rat, p)
  BY <1>2, <1>6, <1>7
<1>9. ASSUME NEW p \in Phreg  PROVE (\E j \in 1..Len(free) : free[j] = p) <=> busy[p] = 0
  <2>1. p + 1 \in 1..Size /\ (p + 1) - 1 = p
    BY <1>1 DEF Phreg
  <2>2. \E k \in 1..Len(s) : s[k] = p
    BY <1>3, <2>1
  <2>3. p \in S <=> ~ \E l \in Loreg : rat[l] = p
    BY <1>2 DEF Mapped
  <2>4. Uses(rat, p) = 0 <=> ~ \E l \in Loreg : rat[l] = p
    BY <1>7
  <2>. HIDE DEF S
  <2>. QED
    BY <1>5, <1>8, <2>2, <2>3, <2>4
<1>10. FreeExact(busy, free)
  BY <1>5, <1>9 DEF FreeExact
<1>11. Recorded(rob, rat) /\ \A p : Held(rob, p) = 0
  BY <1>1, <1>2, RecordedEmpty
<1>12. \A p \in Phreg : busy[p] = Uses(rat, p) + Held(rob, p)
  BY <1>7, <1>8, <1>11
<1>. QED
  BY <1>1, <1>2, <1>8, <1>10, <1>11, <1>12 DEF Registers

\* A stage changes the state of a uop.
Becomes(s, r, i, v) == s = [r EXCEPT ![i].state = v]

LEMMA RobAdvance ==
    ASSUME NEW r \in Seq(Uop), NEW i \in 1..Len(r), NEW v \in State, NEW s, Becomes(s, r, i, v)
    PROVE  /\ s \in Seq(Uop) /\ Len(s) = Len(r) /\ Len(r) \in Nat
           /\ s[i].state = v
           /\ \A j \in 1..Len(r) : j # i => s[j] = r[j]
           /\ \A j \in 1..Len(r) : /\ s[j].kind = r[j].kind /\ s[j].spec = r[j].spec
                                   /\ s[j].ins = r[j].ins /\ s[j].outs = r[j].outs
<1>. DEFINE n == Len(r)
            u == [r[i] EXCEPT !.state = v]
<1>1. n \in Nat /\ r \in [1..n -> Uop]
  OBVIOUS
<1>. HIDE DEF n
<1>2. r[i] \in Uop /\ i \in 1..n
  BY <1>1 DEF n
<1>3. u \in Uop
  BY <1>2 DEF Uop
<1>4. u.state = v /\ u.kind = r[i].kind /\ u.spec = r[i].spec /\ u.ins = r[i].ins /\ u.outs = r[i].outs
  BY <1>2 DEF Uop
<1>5. s = [r EXCEPT ![i] = u]
  BY DEF Becomes
<1>. HIDE DEF u
<1>6. s \in [1..n -> Uop]
  BY <1>1, <1>2, <1>3, <1>5
<1>7. s[i] = u /\ \A j \in 1..n : j # i => s[j] = r[j]
  BY <1>1, <1>2, <1>5
<1>8. s \in Seq(Uop) /\ Len(s) = n
  BY <1>1, <1>6
<1>9. \A j \in 1..n : /\ s[j].kind = r[j].kind /\ s[j].spec = r[j].spec
                      /\ s[j].ins = r[j].ins /\ s[j].outs = r[j].outs
  BY <1>4, <1>7
<1>. QED
  BY <1>1, <1>4, <1>7, <1>8, <1>9 DEF n

LEMMA RegistersDispatch ==
    ASSUME Registers, rob \in Seq(Uop), spec \in BOOLEAN, NEW t \in Menu, Dispatch(t)
    PROVE  Registers' /\ rob' \in Seq(Uop) /\ Renamed(t) \in Uop
<1>. DEFINE u == Renamed(t)
            n == Len(t.outs)
<1>1. /\ rat \in [Loreg -> Phreg] /\ busy \in [Phreg -> Nat] /\ FreeExact(busy, free)
      /\ count = Size - Len(free) /\ Recorded(rob, rat)
      /\ \A p \in Phreg : busy[p] = Uses(rat, p) + Held(rob, p)
  BY DEF Registers
<1>2. count + Needed(t) <= Size /\ Rename(t) /\ rob' = Append(rob, u)
  BY DEF Dispatch, CanDispatch
<1>3. Needed(t) \in Nat /\ Len(free) \in Nat /\ Size \in Nat
  BY <1>1, NeededIs, PipelineAssumption DEF FreeExact
<1>4. Needed(t) <= Len(free)
  BY <1>1, <1>2, <1>3
<1>5. /\ busy' \in [Phreg -> Nat]
      /\ \A p \in Phreg : busy'[p] = busy[p] + Count(Phs(u.outs), 1..n, p)
      /\ FreeExact(busy', free')
      /\ Len(free') = Len(free) - Needed(t)
  BY <1>1, <1>2, <1>4, RenameExact
<1>6. /\ u.outs \in Seq(OutRec) /\ Len(u.outs) = n
      /\ Leads(u.outs, rat, [l \in Loreg |-> MapBefore(t, l, n + 1)])
  BY <1>1, <1>4, RenamedChain
<1>7. rat' = [l \in Loreg |-> MapBefore(t, l, n + 1)] /\ count' = count + Needed(t)
  BY <1>2 DEF Rename
<1>8. rat' \in [Loreg -> Phreg]
  <2>1. n + 1 \in 1..(n + 1)
    BY MenuTypes
  <2>2. \A l \in Loreg : MapBefore(t, l, n + 1) \in Phreg
    BY <1>1, <1>4, <2>1, MapBeforeIs
  <2>. QED
    BY <1>7, <2>2
<1>9. /\ u.kind = t.kind /\ u.spec = spec /\ u.state = "waiting" /\ u.ins = [l \in t.ins |-> rat[l]]
      /\ u = [kind |-> u.kind, spec |-> u.spec, state |-> u.state, ins |-> u.ins, outs |-> u.outs]
  BY DEF Renamed
<1>. HIDE DEF u
<1>10. u \in Uop
  <2>1. t.ins \in SUBSET Loreg /\ t.kind \in Kind
    BY MenuTypes
  <2>2. u.ins \in [t.ins -> Phreg]
    BY <1>1, <1>9, <2>1
  <2>3. u.ins \in UNION {[S -> Phreg] : S \in SUBSET Loreg}
    BY <2>1, <2>2
  <2>4. u.state \in State /\ u.kind \in Kind
    BY <1>9, <2>1 DEF State
  <2>5. u.spec \in BOOLEAN
    BY <1>9
  <2>. QED
    BY <1>6, <1>9, <2>3, <2>4, <2>5 DEF Uop
<1>11. Reads(u, rat)
  BY <1>9 DEF Reads
<1>12. Recorded(rob', rat') /\ \A p : Uses(rat', p) + Held(rob', p) = Uses(rat, p) + Held(rob, p) + Count(Phs(u.outs), 1..n, p)
  <2>1. Leads(u.outs, rat, rat')
    BY <1>6, <1>7
  <2>2. /\ Recorded(Append(rob, u), rat')
        /\ \A p : Uses(rat', p) + Held(Append(rob, u), p)
                  = Uses(rat, p) + Held(rob, p) + Count(Phs(u.outs), 1..Len(u.outs), p)
    <3>1. rob \in Seq(Uop) /\ Recorded(rob, rat)
      BY <1>1
    <3>2. Appended(rob, u, rat, rat')
      BY <3>1, <1>10, <1>11, <2>1, RecordedAppend
    <3>. QED
      BY <3>2 DEF Appended
  <2>. QED
    BY <1>2, <1>6, <2>2
<1>13. rob' \in Seq(Uop)
  BY <1>2, <1>10
<1>14. \A p \in Phreg : busy'[p] = Uses(rat', p) + Held(rob', p)
  BY <1>1, <1>5, <1>12
<1>15. count' = Size - Len(free')
  BY <1>1, <1>3, <1>5, <1>7
<1>. QED
  BY <1>5, <1>8, <1>10, <1>12, <1>13, <1>14, <1>15 DEF Registers, u

\* Dropping the references that the reorder buffer no longer holds.
LEMMA RegistersDrop ==
    ASSUME busy \in [Phreg -> Nat], FreeExact(busy, free), count = Size - Len(free),
           rob' \in Seq(Uop), rat' \in [Loreg -> Phreg], Recorded(rob', rat'),
           NEW refs \in Seq(Phreg), Drop(refs),
           \A p \in Phreg : busy[p] = Uses(rat', p) + Held(rob', p) + Times(refs, p)
    PROVE  Registers'
<1>1. \A p \in Phreg : Uses(rat', p) \in Nat /\ Held(rob', p) \in Nat /\ Times(refs, p) \in Nat
  BY UsesHeldType, TimesIsCount
<1>2. \A p \in Phreg : Times(refs, p) <= busy[p]
  BY <1>1
<1>3. /\ busy' \in [Phreg -> Nat]
      /\ \A p \in Phreg : busy'[p] = busy[p] - Times(refs, p)
      /\ FreeExact(busy', free')
      /\ Len(free') \in Nat /\ count' = count - (Len(free') - Len(free))
  BY <1>2, DropExact
<1>4. \A p \in Phreg : busy'[p] = Uses(rat', p) + Held(rob', p)
  BY <1>1, <1>3
<1>5. count' = Size - Len(free')
  <2>1. Size \in Nat /\ Len(free) \in Nat
    BY PipelineAssumption DEF FreeExact
  <2>. QED
    BY <1>3, <2>1
<1>. QED
  BY <1>3, <1>4, <1>5 DEF Registers

\* What a recovery does to the registers.
Recovered(uops, olds) ==
    /\ rob' = Kept(uops)
    /\ Restore(OutsOf(Squashed(uops)))
    /\ Drop(olds \o Reverse(Phs(OutsOf(Squashed(uops)))))

LEMMA RegistersRecover ==
    ASSUME rat \in [Loreg -> Phreg], busy \in [Phreg -> Nat], FreeExact(busy, free), count = Size - Len(free),
           NEW uops \in Seq(Uop), NEW olds \in Seq(Phreg), Recovered(uops, olds),
           Recorded(uops, rat),
           \A p \in Phreg : busy[p] = Uses(rat, p) + Held(uops, p) + Count(olds, 1..Len(olds), p)
    PROVE  Registers' /\ rob' \in Seq(Uop)
<1>. DEFINE X == OutsOf(Squashed(uops))
            phs == Phs(X)
            refs == olds \o Reverse(phs)
<1>1. rob' = Kept(uops) /\ Restore(X) /\ Drop(refs)
  BY DEF Recovered
<1>2. /\ Kept(uops) \in Seq(Uop) /\ Squashed(uops) \in Seq(Uop)
      /\ rat' \in [Loreg -> Phreg] /\ Recorded(Kept(uops), rat')
      /\ \A p : Uses(rat, p) + Held(uops, p)
                = Uses(rat', p) + Held(Kept(uops), p) + Count(phs, 1..Len(X), p)
  BY <1>1, Squash
<1>3. phs \in Seq(Phreg) /\ Len(phs) = Len(X)
  BY <1>2, OutsOfType, PhsAndOlds
<1>. HIDE DEF X, phs
<1>4. refs \in Seq(Phreg) /\ \A p : Times(refs, p) = Count(olds, 1..Len(olds), p) + Count(phs, 1..Len(phs), p)
  BY <1>3, TimesDropped
<1>. HIDE DEF refs
<1>5. ASSUME NEW p \in Phreg  PROVE busy[p] = Uses(rat', p) + Held(rob', p) + Times(refs, p)
  <2>. DEFINE a == Uses(rat, p)
              b == Held(uops, p)
              c == Count(olds, 1..Len(olds), p)
              d == Count(phs, 1..Len(phs), p)
              e == Uses(rat', p)
              f == Held(rob', p)
  <2>1. busy[p] = a + b + c /\ a + b = e + f + d /\ Times(refs, p) = c + d
    BY <1>1, <1>2, <1>3, <1>4
  <2>2. a \in Nat /\ b \in Nat /\ e \in Nat /\ f \in Nat
    BY <1>1, <1>2, UsesHeldType
  <2>3. c \in Nat /\ d \in Nat
    <3>1. Len(olds) \in Nat /\ Len(phs) \in Nat
      BY <1>3, LenProperties
    <3>2. IsFiniteSet(1..Len(olds)) /\ IsFiniteSet(1..Len(phs))
      BY <3>1, IntervalFinite
    <3>. QED
      BY <3>2, CountType
  <2>. HIDE DEF a, b, c, d, e, f
  <2>4. a + b + c = e + f + (c + d)
    BY <2>1, <2>2, <2>3
  <2>. QED
    BY <2>1, <2>4 DEF e, f
<1>6. rob' \in Seq(Uop) /\ Recorded(rob', rat')
  BY <1>1, <1>2
<1>7. Registers'
  BY <1>1, <1>2, <1>4, <1>5, <1>6, RegistersDrop
<1>. QED
  BY <1>6, <1>7
-----------------------------------------------------------------------------
(* The queues *)

\* The loads and stores of r that wait in their queues, and the loads of r that
\* the memory system has.
Waiting(r) == {i \in 1..Len(r) : r[i].state = "waiting" /\ Mem(r[i])}
Loading(r) == {i \in 1..Len(r) : r[i].state = "memory"}

\* Stores wait until they commit.
StoresWait(r) ==
    \A i \in 1..Len(r) : r[i].kind = "store" => r[i].state = "waiting" /\ r[i].outs = <<>>

\* The queues hold r, s committed stores and d[p] squashed loads of register p.
Fits(r, s, d) ==
    /\ Len(r) <= RobSize
    /\ StoresWait(r)
    /\ s \in Nat /\ s + Cardinality(Waiting(r)) <= LsqSize
    /\ d \in [Phreg -> Nat]
    /\ \A p \in Phreg : d[p] + Cardinality(Loading(r)) <= MaxAccess

LEMMA Fewer ==
    ASSUME NEW S, IsFiniteSet(S), NEW T, NEW h \in [T -> S], \A x, y \in T : h[x] = h[y] => x = y
    PROVE  IsFiniteSet(T) /\ Cardinality(T) \in Nat /\ Cardinality(S) \in Nat
           /\ Cardinality(T) <= Cardinality(S)
<1>1. h \in Injection(T, S)
  BY DEF Injection, IsInjective
<1>2. IsFiniteSet(T) /\ Cardinality(T) <= Cardinality(S)
  BY <1>1, FS_Injection
<1>. QED
  BY <1>2, FS_CardinalityType

LEMMA FewerSubset ==
    ASSUME NEW S, IsFiniteSet(S), NEW T \in SUBSET S
    PROVE  IsFiniteSet(T) /\ Cardinality(T) \in Nat /\ Cardinality(S) \in Nat
           /\ Cardinality(T) <= Cardinality(S)
BY FS_Subset, FS_CardinalityType

LEMMA PositionsFinite ==
    ASSUME NEW r \in Seq(Uop)
    PROVE  /\ IsFiniteSet(Waiting(r)) /\ Cardinality(Waiting(r)) \in Nat
           /\ IsFiniteSet(Loading(r)) /\ Cardinality(Loading(r)) \in Nat
<1>1. Len(r) \in Nat
  BY LenProperties
<1>2. IsFiniteSet(1..Len(r))
  BY <1>1, IntervalFinite
<1>3. Waiting(r) \in SUBSET (1..Len(r)) /\ Loading(r) \in SUBSET (1..Len(r))
  BY DEF Waiting, Loading
<1>. QED
  BY <1>2, <1>3, FewerSubset

LEMMA QueueSizes == RobSize \in Nat /\ LsqSize \in Nat /\ MaxAccess \in Nat
BY PipelineAssumption

LEMMA FitsFewer ==
    ASSUME NEW r \in Seq(Uop), NEW q \in Seq(Uop), NEW s, NEW d, Fits(r, s, d),
           Len(q) <= Len(r), StoresWait(q),
           Waiting(q) \subseteq Waiting(r), Loading(q) \subseteq Loading(r)
    PROVE  Fits(q, s, d)
<1>1. Len(q) \in Nat /\ Len(r) \in Nat
  BY LenProperties
<1>2. /\ Cardinality(Waiting(q)) \in Nat /\ Cardinality(Waiting(r)) \in Nat
      /\ Cardinality(Waiting(q)) <= Cardinality(Waiting(r))
  BY PositionsFinite, FewerSubset
<1>3. /\ Cardinality(Loading(q)) \in Nat /\ Cardinality(Loading(r)) \in Nat
      /\ Cardinality(Loading(q)) <= Cardinality(Loading(r))
  BY PositionsFinite, FewerSubset
<1>4. /\ Len(r) <= RobSize /\ s \in Nat /\ s + Cardinality(Waiting(r)) <= LsqSize
      /\ d \in [Phreg -> Nat]
      /\ \A p \in Phreg : d[p] + Cardinality(Loading(r)) <= MaxAccess
  BY DEF Fits
<1>5. Len(q) <= RobSize /\ s + Cardinality(Waiting(q)) <= LsqSize
  BY <1>1, <1>2, <1>4, QueueSizes
<1>6. \A p \in Phreg : d[p] + Cardinality(Loading(q)) <= MaxAccess
  BY <1>3, <1>4, QueueSizes
<1>. QED
  BY <1>4, <1>5, <1>6 DEF Fits

LEMMA FitsAppend ==
    ASSUME NEW r \in Seq(Uop), NEW u \in Uop, NEW s, NEW d, Fits(r, s, d), Len(r) < RobSize,
           u.state = "waiting", u.kind = "store" => u.outs = <<>>,
           Mem(u) => s + Cardinality(Waiting(r)) < LsqSize
    PROVE  Fits(Append(r, u), s, d)
<1>. DEFINE n == Len(r)
            q == Append(r, u)
            w == Cardinality(Waiting(r))
<1>1. n \in Nat /\ q \in Seq(Uop) /\ Len(q) = n + 1 /\ q[n + 1] = u /\ \A i \in 1..n : q[i] = r[i]
  BY LenProperties
<1>. HIDE DEF q, n
<1>2. /\ n <= RobSize /\ s \in Nat /\ s + w <= LsqSize /\ d \in [Phreg -> Nat]
      /\ \A p \in Phreg : d[p] + Cardinality(Loading(r)) <= MaxAccess
      /\ \A i \in 1..n : r[i].kind = "store" => r[i].state = "waiting" /\ r[i].outs = <<>>
  BY DEF Fits, StoresWait, n
<1>3. \A i \in 1..(n + 1) : i \in 1..n \/ i = n + 1
  BY <1>1
<1>4. Loading(q) \subseteq Loading(r)
  <2>1. ASSUME NEW i \in 1..(n + 1), q[i].state = "memory"  PROVE i \in 1..n /\ r[i].state = "memory"
    BY <1>1, <1>3, <2>1
  <2>. QED
    BY <1>1, <2>1 DEF Loading, n
<1>5. Cardinality(Loading(q)) \in Nat /\ Cardinality(Loading(r)) \in Nat
      /\ Cardinality(Loading(q)) <= Cardinality(Loading(r))
  BY <1>4, PositionsFinite, FewerSubset
<1>6. StoresWait(q)
  <2>1. \A i \in 1..n : q[i].kind = "store" => q[i].state = "waiting" /\ q[i].outs = <<>>
    BY <1>1, <1>2
  <2>. QED
    BY <1>1, <1>3, <2>1 DEF StoresWait
<1>7. w \in Nat /\ Cardinality(Waiting(q)) \in Nat
  BY <1>1, PositionsFinite
<1>8. CASE Mem(u)
  <2>1. Waiting(q) \in SUBSET (Waiting(r) \cup {n + 1})
    <3>1. ASSUME NEW i \in 1..(n + 1), q[i].state = "waiting" /\ Mem(q[i]), i # n + 1
          PROVE i \in 1..n /\ r[i].state = "waiting" /\ Mem(r[i])
      BY <1>1, <1>3, <3>1
    <3>. QED
      BY <1>1, <3>1 DEF Waiting, n
  <2>2. n + 1 \notin Waiting(r)
    BY <1>1 DEF Waiting, n
  <2>3. IsFiniteSet(Waiting(r) \cup {n + 1}) /\ Cardinality(Waiting(r) \cup {n + 1}) = w + 1
    BY <2>2, PositionsFinite, FS_AddElement
  <2>4. Cardinality(Waiting(q)) <= w + 1
    BY <2>1, <2>3, FewerSubset
  <2>5. s + w < LsqSize
    BY <1>8
  <2>. HIDE DEF w
  <2>6. s + Cardinality(Waiting(q)) <= LsqSize
    BY <1>2, <1>7, <2>4, <2>5, QueueSizes
  <2>7. Len(q) <= RobSize
    BY <1>1, QueueSizes DEF n
  <2>8. \A p \in Phreg : d[p] + Cardinality(Loading(q)) <= MaxAccess
    BY <1>2, <1>5, QueueSizes
  <2>. QED
    BY <1>2, <1>6, <2>6, <2>7, <2>8 DEF Fits, q
<1>9. CASE ~ Mem(u)
  <2>1. Waiting(q) \in SUBSET Waiting(r)
    <3>1. ASSUME NEW i \in 1..(n + 1), q[i].state = "waiting" /\ Mem(q[i])
          PROVE i \in 1..n /\ r[i].state = "waiting" /\ Mem(r[i])
      BY <1>1, <1>3, <1>9, <3>1
    <3>. QED
      BY <1>1, <3>1 DEF Waiting, n
  <2>2. Cardinality(Waiting(q)) <= w
    BY <2>1, PositionsFinite, FewerSubset
  <2>. HIDE DEF w
  <2>6. s + Cardinality(Waiting(q)) <= LsqSize
    BY <1>2, <1>7, <2>2, QueueSizes
  <2>7. Len(q) <= RobSize
    BY <1>1, QueueSizes DEF n
  <2>8. \A p \in Phreg : d[p] + Cardinality(Loading(q)) <= MaxAccess
    BY <1>2, <1>5, QueueSizes
  <2>. QED
    BY <1>2, <1>6, <2>6, <2>7, <2>8 DEF Fits, q
<1>. QED
  BY <1>8, <1>9

LEMMA FitsTail ==
    ASSUME NEW r \in Seq(Uop), r # <<>>, NEW s, NEW d, Fits(r, s, d)
    PROVE  /\ Fits(Tail(r), s, d)
           /\ Head(r).kind = "store" => Fits(Tail(r), s + 1, d)
<1>. DEFINE n == Len(r)
            q == Tail(r)
            w == Cardinality(Waiting(r))
            v == Cardinality(Waiting(q))
<1>1. n \in Nat /\ n # 0 /\ q \in Seq(Uop) /\ Len(q) = n - 1 /\ Head(r) = r[1] /\ 1 \in 1..n
      /\ \A i \in 1..(n - 1) : q[i] = r[i+1] /\ i + 1 \in 1..n /\ i + 1 # 1
  BY EmptySeq
<1>. HIDE DEF q, n
<1>2. /\ n <= RobSize /\ s \in Nat /\ s + w <= LsqSize /\ d \in [Phreg -> Nat]
      /\ \A p \in Phreg : d[p] + Cardinality(Loading(r)) <= MaxAccess
      /\ \A i \in 1..n : r[i].kind = "store" => r[i].state = "waiting" /\ r[i].outs = <<>>
  BY DEF Fits, StoresWait, n
<1>3. StoresWait(q)
  <2>1. ASSUME NEW i \in 1..(n - 1)
        PROVE q[i].kind = "store" => q[i].state = "waiting" /\ q[i].outs = <<>>
    <3>1. q[i] = r[i+1] /\ i + 1 \in 1..n
      BY <1>1
    <3>. QED
      BY <1>2, <3>1
  <2>. QED
    BY <1>1, <2>1 DEF StoresWait
<1>4. /\ IsFiniteSet(Waiting(r)) /\ w \in Nat /\ v \in Nat
      /\ IsFiniteSet(Loading(r)) /\ Cardinality(Loading(r)) \in Nat
  BY <1>1, PositionsFinite
<1>5. Cardinality(Loading(q)) \in Nat /\ Cardinality(Loading(q)) <= Cardinality(Loading(r))
  <2>. DEFINE h == [i \in Loading(q) |-> i + 1]
  <2>1. h \in [Loading(q) -> Loading(r)]
    BY <1>1 DEF Loading, n
  <2>2. \A x, y \in Loading(q) : h[x] = h[y] => x = y
    BY DEF Loading
  <2>. HIDE DEF h
  <2>. QED
    BY <1>4, <2>1, <2>2, Fewer
<1>6. v <= w
  <2>. DEFINE h == [i \in Waiting(q) |-> i + 1]
  <2>1. h \in [Waiting(q) -> Waiting(r)]
    BY <1>1 DEF Waiting, n
  <2>2. \A x, y \in Waiting(q) : h[x] = h[y] => x = y
    BY DEF Waiting
  <2>. HIDE DEF h
  <2>. QED
    BY <1>4, <2>1, <2>2, Fewer
<1>7. ASSUME r[1].kind = "store"  PROVE v + 1 <= w
  <2>. DEFINE h == [i \in Waiting(q) |-> i + 1]
              S == Waiting(r) \ {1}
  <2>0. 1 \in Waiting(r)
    BY <1>1, <1>2, <1>7 DEF Waiting, Mem, n
  <2>1. h \in [Waiting(q) -> S]
    BY <1>1 DEF Waiting, n
  <2>2. \A x, y \in Waiting(q) : h[x] = h[y] => x = y
    BY DEF Waiting
  <2>3. IsFiniteSet(S) /\ Cardinality(S) = w - 1
    BY <1>4, <2>0, FS_RemoveElement
  <2>4. v <= Cardinality(S)
    <3>. HIDE DEF h, S
    <3>. QED
      BY <2>1, <2>2, <2>3, Fewer
  <2>. HIDE DEF w, v, S
  <2>. QED
    BY <1>4, <2>3, <2>4
<1>8. Len(q) <= RobSize /\ Len(q) = n - 1
  BY <1>1, <1>2, QueueSizes
<1>9. \A p \in Phreg : d[p] + Cardinality(Loading(q)) <= MaxAccess
  BY <1>2, <1>4, <1>5, QueueSizes
<1>10. s + v <= LsqSize
  <2>. HIDE DEF w, v
  <2>. QED
    BY <1>2, <1>4, <1>6, QueueSizes
<1>11. ASSUME r[1].kind = "store"  PROVE (s + 1) + v <= LsqSize /\ s + 1 \in Nat
  <2>1. v + 1 <= w
    BY <1>7, <1>11
  <2>. HIDE DEF w, v
  <2>. QED
    BY <1>2, <1>4, <2>1, QueueSizes
<1>12. Fits(q, s, d)
  BY <1>2, <1>3, <1>8, <1>9, <1>10 DEF Fits
<1>13. ASSUME r[1].kind = "store"  PROVE Fits(q, s + 1, d)
  <2>1. (s + 1) + v <= LsqSize /\ s + 1 \in Nat
    BY <1>11, <1>13
  <2>. QED
    BY <1>2, <1>3, <1>8, <1>9, <2>1 DEF Fits
<1>. QED
  BY <1>1, <1>12, <1>13 DEF q

\* A stage changes the state of a uop.
LEMMA FitsAdvance ==
    ASSUME NEW r \in Seq(Uop), NEW i \in 1..Len(r), NEW v \in State, NEW q, Becomes(q, r, i, v),
           NEW s, NEW d, Fits(r, s, d), v # "waiting", r[i].kind # "store"
    PROVE  /\ v # "memory" => Fits(q, s, d) /\ Loading(q) \subseteq Loading(r)
           /\ (\A p \in Phreg : d[p] + Cardinality(Loading(r)) < MaxAccess) => Fits(q, s, d)
<1>. DEFINE n == Len(r)
<1>1. /\ q \in Seq(Uop) /\ Len(q) = n /\ n \in Nat /\ q[i].state = v /\ i \in 1..n
      /\ \A j \in 1..n : j # i => q[j] = r[j]
      /\ \A j \in 1..n : /\ q[j].kind = r[j].kind /\ q[j].spec = r[j].spec
                         /\ q[j].ins = r[j].ins /\ q[j].outs = r[j].outs
  BY RobAdvance
<1>. HIDE DEF n
<1>2. /\ n <= RobSize /\ s \in Nat /\ s + Cardinality(Waiting(r)) <= LsqSize /\ d \in [Phreg -> Nat]
      /\ \A p \in Phreg : d[p] + Cardinality(Loading(r)) <= MaxAccess
      /\ \A j \in 1..n : r[j].kind = "store" => r[j].state = "waiting" /\ r[j].outs = <<>>
  BY DEF Fits, StoresWait, n
<1>3. StoresWait(q)
  <2>1. ASSUME NEW j \in 1..n, q[j].kind = "store"  PROVE q[j].state = "waiting" /\ q[j].outs = <<>>
    <3>1. j # i
      BY <1>1, <2>1
    <3>2. q[j] = r[j]
      BY <1>1, <3>1
    <3>. QED
      BY <1>2, <2>1, <3>2
  <2>. QED
    BY <1>1, <2>1 DEF StoresWait
<1>4. Waiting(q) \subseteq Waiting(r)
  <2>1. ASSUME NEW j \in 1..n, q[j].state = "waiting" /\ Mem(q[j])  PROVE j # i /\ q[j] = r[j]
    <3>1. j # i
      BY <1>1, <2>1
    <3>. QED
      BY <1>1, <3>1
  <2>. QED
    BY <1>1, <2>1 DEF Waiting, n
<1>5. ASSUME v # "memory"  PROVE Loading(q) \subseteq Loading(r)
  <2>1. ASSUME NEW j \in 1..n, q[j].state = "memory"  PROVE j # i /\ q[j] = r[j]
    <3>1. j # i
      BY <1>1, <1>5, <2>1
    <3>. QED
      BY <1>1, <3>1
  <2>. QED
    BY <1>1, <2>1 DEF Loading, n
<1>6. ASSUME v # "memory"  PROVE Fits(q, s, d)
  <2>1. Len(q) <= Len(r)
    BY <1>1 DEF n
  <2>2. Loading(q) \subseteq Loading(r)
    BY <1>5, <1>6
  <2>. QED
    BY <1>1, <1>3, <1>4, <2>1, <2>2, FitsFewer DEF n
<1>7. ASSUME \A p \in Phreg : d[p] + Cardinality(Loading(r)) < MaxAccess  PROVE Fits(q, s, d)
  <2>. DEFINE a == Cardinality(Loading(r))
              b == Cardinality(Loading(q))
  <2>1. Loading(q) \in SUBSET (Loading(r) \cup {i})
    <3>1. \A j \in 1..n : q[j].state = "memory" => j = i \/ (q[j] = r[j])
      BY <1>1
    <3>. QED
      BY <1>1, <3>1 DEF Loading, n
  <2>2. IsFiniteSet(Loading(r)) /\ a \in Nat /\ b \in Nat
    BY <1>1, PositionsFinite
  <2>3. IsFiniteSet(Loading(r) \cup {i}) /\ Cardinality(Loading(r) \cup {i}) \in Nat
        /\ Cardinality(Loading(r) \cup {i}) <= a + 1
    <3>1. CASE i \in Loading(r)
      <4>1. Loading(r) \cup {i} = Loading(r)
        BY <3>1
      <4>2. a <= a + 1
        BY <2>2
      <4>. QED
        BY <2>2, <4>1, <4>2
    <3>2. CASE i \notin Loading(r)
      <4>1. IsFiniteSet(Loading(r) \cup {i}) /\ Cardinality(Loading(r) \cup {i}) = a + 1
        BY <2>2, <3>2, FS_AddElement
      <4>. HIDE DEF a
      <4>. QED
        BY <2>2, <4>1
    <3>. QED
      BY <3>1, <3>2
  <2>4. b <= Cardinality(Loading(r) \cup {i})
    BY <2>1, <2>3, FewerSubset
  <2>5. \A p \in Phreg : d[p] + b <= MaxAccess
    <3>1. \A p \in Phreg : d[p] \in Nat /\ d[p] + a < MaxAccess
      BY <1>2, <1>7
    <3>2. b <= a + 1
      <4>. HIDE DEF a, b
      <4>. QED
        BY <2>2, <2>3, <2>4
    <3>. HIDE DEF a, b
    <3>. QED
      BY <2>2, <3>1, <3>2, QueueSizes
  <2>6. Cardinality(Waiting(q)) \in Nat /\ Cardinality(Waiting(r)) \in Nat
        /\ Cardinality(Waiting(q)) <= Cardinality(Waiting(r))
    BY <1>1, <1>4, PositionsFinite, FewerSubset
  <2>7. s + Cardinality(Waiting(q)) <= LsqSize
    BY <1>2, <2>6, QueueSizes
  <2>8. Len(q) <= RobSize
    BY <1>1, <1>2
  <2>. HIDE DEF b
  <2>. QED
    BY <1>1, <1>2, <1>3, <2>5, <2>7, <2>8 DEF Fits, b
<1>. QED
  BY <1>5, <1>6, <1>7

LEMMA KeptIs ==
    ASSUME NEW r \in Seq(Uop)
    PROVE  /\ Kept(r) \in Seq(Uop) /\ Squashed(r) \in Seq(Uop)
           /\ LastKept(r) \in 0..Len(r) /\ Len(r) \in Nat
           /\ Len(Kept(r)) = LastKept(r) /\ Len(Squashed(r)) = Len(r) - LastKept(r)
           /\ \A i \in 1..LastKept(r) : i \in 1..Len(r) /\ Kept(r)[i] = r[i]
           /\ \A i \in 1..(Len(r) - LastKept(r)) :
                 i + LastKept(r) \in 1..Len(r) /\ Squashed(r)[i] = r[i + LastKept(r)]
<1>. DEFINE m == LastKept(r)
            n == Len(r)
<1>1. m \in 0..n /\ n \in Nat
  BY LastKeptIs, LenProperties
<1>2. PICK off : Layout(OutsAt(r), OutsOf(r), off)
  BY OutsOfLayout
<1>. HIDE DEF m
<1>3. CutAt(r, off, m)
  BY <1>1, <1>2, OutsOfSplit
<1>4. Kept(r) = SubSeq(r, 1, m) /\ Squashed(r) = SubSeq(r, m + 1, Len(r))
  BY DEF Kept, Squashed, m
<1>5. /\ Kept(r) \in Seq(Uop) /\ Squashed(r) \in Seq(Uop)
      /\ Len(Kept(r)) = m /\ Len(Squashed(r)) = n - m
      /\ \A i \in 1..m : Kept(r)[i] = r[i]
      /\ \A i \in 1..(n - m) : Squashed(r)[i] = r[i+m]
  BY <1>3, <1>4 DEF CutAt
<1>6. (\A i \in 1..m : i \in 1..n) /\ \A i \in 1..(n - m) : i + m \in 1..n
  BY <1>1
<1>. QED
  BY <1>1, <1>5, <1>6 DEF m

\* What is squashed makes room for the loads that stay in flight.
LEMMA FitsRecover ==
    ASSUME NEW r \in Seq(Uop), NEW s, Fits(r, s, stale), Abandon(Squashed(r))
    PROVE  Fits(Kept(r), s, stale')
<1>. DEFINE n == Len(r)
            m == LastKept(r)
            P == Kept(r)
            S == Squashed(r)
            B == {i \in Loading(r) : i > m}
            C(p) == {i \in DOMAIN S : S[i].state = "memory" /\ p \in ToSet(Phs(S[i].outs))}
<1>1. /\ P \in Seq(Uop) /\ S \in Seq(Uop) /\ m \in 0..n /\ n \in Nat /\ Len(P) = m /\ Len(S) = n - m
      /\ \A i \in 1..m : i \in 1..n /\ P[i] = r[i]
      /\ \A i \in 1..(n - m) : i + m \in 1..n /\ S[i] = r[i+m]
  BY KeptIs
<1>2. DOMAIN S = 1..(n - m)
  BY <1>1, LenProperties
<1>3. PICK dropped \in [Phreg -> 0..MaxAccess] :
         /\ stale' = [p \in Phreg |-> stale[p] + Cardinality(C(p)) - dropped[p]]
         /\ \A p \in Phreg : dropped[p] <= stale[p]
  BY DEF Abandon
<1>. HIDE DEF P, S, m, n
<1>4. /\ n <= RobSize /\ s \in Nat /\ s + Cardinality(Waiting(r)) <= LsqSize
      /\ stale \in [Phreg -> Nat]
      /\ \A p \in Phreg : stale[p] + Cardinality(Loading(r)) <= MaxAccess
      /\ \A i \in 1..n : r[i].kind = "store" => r[i].state = "waiting" /\ r[i].outs = <<>>
  BY DEF Fits, StoresWait, n
<1>5. StoresWait(P)
  BY <1>1, <1>4 DEF StoresWait
<1>6. Waiting(P) \in SUBSET Waiting(r)
  BY <1>1 DEF Waiting, n
<1>7. Cardinality(Waiting(P)) \in Nat /\ Cardinality(Waiting(r)) \in Nat
      /\ Cardinality(Waiting(P)) <= Cardinality(Waiting(r))
  BY <1>6, PositionsFinite, FewerSubset
<1>8. s + Cardinality(Waiting(P)) <= LsqSize
  BY <1>4, <1>7, QueueSizes
<1>9. Len(P) <= RobSize
  BY <1>1, <1>4, QueueSizes
\* The loads that are kept and those that are squashed.
<1>10. IsFiniteSet(Loading(r)) /\ IsFiniteSet(Loading(P)) /\ Cardinality(Loading(P)) \in Nat
       /\ Cardinality(Loading(r)) \in Nat
  BY <1>1, PositionsFinite
<1>11. B \in SUBSET Loading(r)
  OBVIOUS
<1>12. IsFiniteSet(B) /\ Cardinality(B) \in Nat
  <2>. HIDE DEF B
  <2>. QED
    BY <1>10, <1>11, FewerSubset
<1>13. Loading(P) \subseteq Loading(r) /\ Loading(P) \cap B = {}
  <2>1. \A i \in Loading(P) : i \in 1..m /\ P[i].state = "memory"
    BY <1>1 DEF Loading
  <2>2. \A i \in Loading(P) : i \in Loading(r)
    BY <1>1, <2>1 DEF Loading, n
  <2>3. \A i \in 1..m : ~ (i > m)
    BY <1>1
  <2>. QED
    BY <2>1, <2>2, <2>3
<1>14. Cardinality(Loading(P)) + Cardinality(B) <= Cardinality(Loading(r))
  <2>. HIDE DEF B
  <2>1. Loading(P) \cup B \in SUBSET Loading(r)
    BY <1>11, <1>13
  <2>2. Cardinality(Loading(P) \cup B) <= Cardinality(Loading(r))
    BY <1>10, <2>1, FewerSubset
  <2>3. Cardinality(Loading(P) \cup B) = Cardinality(Loading(P)) + Cardinality(B)
    <3>1. Cardinality(Loading(P) \cup B)
          = Cardinality(Loading(P)) + Cardinality(B) - Cardinality(Loading(P) \cap B)
      BY <1>10, <1>12, FS_Union
    <3>2. Cardinality(Loading(P) \cap B) = 0
      BY <1>13, FS_EmptySet
    <3>. QED
      BY <1>10, <1>12, <3>1, <3>2
  <2>. QED
    BY <2>2, <2>3
<1>15. ASSUME NEW p \in Phreg
       PROVE  stale'[p] \in Nat /\ stale'[p] + Cardinality(Loading(P)) <= MaxAccess
  <2>. DEFINE h == [i \in C(p) |-> i + m]
  <2>1. C(p) \subseteq 1..(n - m)
    BY <1>2
  <2>2. h \in [C(p) -> B]
    <3>1. ASSUME NEW i \in C(p)  PROVE i + m \in B
      <4>1. i \in 1..(n - m) /\ i + m \in 1..n /\ S[i] = r[i+m] /\ S[i].state = "memory"
        BY <1>1, <2>1
      <4>2. i + m > m
        BY <1>1, <4>1
      <4>. QED
        BY <4>1, <4>2 DEF Loading, n
    <3>. HIDE DEF B, C
    <3>. QED
      BY <3>1
  <2>3. \A x, y \in C(p) : h[x] = h[y] => x = y
    <3>1. \A x \in C(p) : h[x] = x + m /\ x \in Nat
      <4>1. \A x \in 1..(n - m) : x \in Nat
        BY <1>1
      <4>. HIDE DEF C
      <4>. QED
        BY <2>1, <4>1
    <3>. HIDE DEF h, C
    <3>. QED
      BY <1>1, <3>1
  <2>. DEFINE c == Cardinality(C(p))
              b == Cardinality(B)
              a == Cardinality(Loading(P))
              e == Cardinality(Loading(r))
  <2>4. c \in Nat /\ c <= b
    <3>. HIDE DEF h, C, B
    <3>. QED
      BY <1>12, <2>2, <2>3, Fewer
  <2>5. a \in Nat /\ b \in Nat /\ e \in Nat /\ a + b <= e
    BY <1>10, <1>12, <1>14
  <2>6. stale'[p] = stale[p] + c - dropped[p]
    BY <1>3
  <2>. HIDE DEF c, b, a, e, B, C
  <2>7. stale[p] \in Nat /\ dropped[p] \in Nat /\ dropped[p] <= stale[p] /\ stale[p] + e <= MaxAccess
    <3>1. dropped[p] \in 0..MaxAccess
      BY <1>3
    <3>2. stale[p] \in Nat /\ stale[p] + e <= MaxAccess
      BY <1>4 DEF e
    <3>. QED
      BY <1>3, <3>1, <3>2
  <2>. DEFINE st == stale[p]
              dr == dropped[p]
  <2>8. st + c - dr \in Nat /\ st + c - dr + a <= MaxAccess
    <3>. HIDE DEF st, dr
    <3>. QED
      BY <2>4, <2>5, <2>7, QueueSizes DEF st, dr
  <2>. QED
    BY <2>6, <2>8 DEF a
<1>16. stale' \in [Phreg -> Nat]
  <2>1. stale' = [p \in Phreg |-> stale'[p]]
    BY <1>3
  <2>. QED
    BY <1>15, <2>1
<1>. QED
  BY <1>4, <1>5, <1>8, <1>9, <1>15, <1>16 DEF Fits, P

\* The memory system has at least the squashed loads of each register.
LEMMA InFlightIs ==
    ASSUME rob \in Seq(Uop), Fits(rob, stores, stale)
    PROVE  \A p \in Phreg : stale[p] + Cardinality(Loading(rob)) <= InFlight /\ InFlight \in Nat
<1>1. InMemory = Loading(rob)
  BY DEF InMemory, Loading, Entry
<1>2. stale \in [Phreg -> Nat] /\ \A p \in Phreg : stale[p] + Cardinality(Loading(rob)) <= MaxAccess
  BY DEF Fits
<1>3. Cardinality(Loading(rob)) \in Nat
  BY PositionsFinite
<1>4. IsFiniteSet(StaleLoads)
  <2>1. Size \in Nat /\ MaxAccess \in Nat
    BY PipelineAssumption
  <2>2. IsFiniteSet(Phreg) /\ IsFiniteSet(1..MaxAccess)
    BY <2>1, IntervalFinite DEF Phreg
  <2>3. IsFiniteSet(Phreg \X (1..MaxAccess))
    BY <2>2, FS_Product
  <2>4. StaleLoads \in SUBSET (Phreg \X (1..MaxAccess))
    BY DEF StaleLoads
  <2>. QED
    BY <2>3, <2>4, FewerSubset
<1>5. ASSUME NEW p \in Phreg  PROVE stale[p] <= Cardinality(StaleLoads)
  <2>. DEFINE n == stale[p]
              T == 1..n
              h == [k \in T |-> <<p, k>>]
  <2>1. n \in Nat /\ n <= MaxAccess /\ MaxAccess \in Nat
    BY <1>2, <1>3, QueueSizes
  <2>2. \A k \in T : <<p, k>> \in StaleLoads
    BY <2>1 DEF StaleLoads
  <2>3. Cardinality(T) = n
    <3>. HIDE DEF n
    <3>1. Cardinality(1..n) = IF 1 > n THEN 0 ELSE n - 1 + 1
      BY <2>1, FS_Interval
    <3>. QED
      BY <2>1, <3>1
  <2>. HIDE DEF T, n
  <2>4. h \in [T -> StaleLoads] /\ \A x, y \in T : h[x] = h[y] => x = y
    BY <2>2
  <2>. HIDE DEF h
  <2>5. Cardinality(T) <= Cardinality(StaleLoads)
    BY <1>4, <2>4, Fewer
  <2>. QED
    BY <2>3, <2>5 DEF n
<1>6. Cardinality(StaleLoads) \in Nat
  BY <1>4, FS_CardinalityType
<1>7. InFlight = Cardinality(Loading(rob)) + Cardinality(StaleLoads)
  BY <1>1 DEF InFlight
<1>. QED
  BY <1>2, <1>3, <1>5, <1>6, <1>7

-----------------------------------------------------------------------------
(* What is waited for will be written *)

Produces(u, p) == u.state # "completed" /\ \E k \in 1..Len(u.outs) : u.outs[k].ph = p

ProducedBy(r, pend) == \A p \in Phreg : pend[p] => \E i \in 1..Len(r) : Produces(r[i], p)

LEMMA ToSetPhs ==
    ASSUME NEW O \in Seq(OutRec), NEW p
    PROVE  p \in ToSet(Phs(O)) <=> \E k \in 1..Len(O) : O[k].ph = p
<1>1. DOMAIN O = 1..Len(O)
  BY LenProperties
<1>2. Phs(O) = [k \in 1..Len(O) |-> O[k].ph]
  BY <1>1 DEF Phs
<1>. QED
  BY <1>2 DEF ToSet

LEMMA ProducedWriteback ==
    ASSUME NEW r \in Seq(Uop), NEW pend, ProducedBy(r, pend), NEW i \in 1..Len(r), NEW q,
           Becomes(q, r, i, "completed"),
           NEW p \in Phreg, pend[p], p \notin ToSet(Phs(r[i].outs))
    PROVE  \E j \in 1..Len(q) : Produces(q[j], p)
<1>1. "completed" \in State
  BY DEF State
<1>2. /\ Len(q) = Len(r) /\ \A j \in 1..Len(r) : j # i => q[j] = r[j]
  BY <1>1, RobAdvance
<1>3. PICK j \in 1..Len(r) : Produces(r[j], p)
  BY DEF ProducedBy
<1>4. j # i
  <2>1. r[i].outs \in Seq(OutRec)
    BY OutsAtType, UopTypes
  <2>2. ~ \E k \in 1..Len(r[i].outs) : r[i].outs[k].ph = p
    BY <2>1, ToSetPhs
  <2>. QED
    BY <1>3, <2>2 DEF Produces
<1>5. q[j] = r[j] /\ j \in 1..Len(q)
  BY <1>2, <1>4
<1>. QED
  BY <1>3, <1>5

LEMMA ProducedAdvance ==
    ASSUME NEW r \in Seq(Uop), NEW pend, ProducedBy(r, pend), NEW i \in 1..Len(r), NEW q,
           NEW v \in State, v # "completed", Becomes(q, r, i, v)
    PROVE  ProducedBy(q, pend)
<1>1. /\ Len(q) = Len(r) /\ \A j \in 1..Len(r) : j # i => q[j] = r[j]
      /\ q[i].state = v /\ \A j \in 1..Len(r) : q[j].outs = r[j].outs
  BY RobAdvance
<1>2. ASSUME NEW p, NEW j \in 1..Len(r), Produces(r[j], p)  PROVE Produces(q[j], p)
  <2>1. CASE j = i
    BY <1>1, <1>2, <2>1 DEF Produces
  <2>2. CASE j # i
    BY <1>1, <1>2, <2>2
  <2>. QED
    BY <2>1, <2>2
<1>. QED
  BY <1>1, <1>2 DEF ProducedBy

LEMMA ProducedTail ==
    ASSUME NEW r \in Seq(Uop), r # <<>>, NEW pend, ProducedBy(r, pend),
           \A p : ~ Produces(Head(r), p)
    PROVE  ProducedBy(Tail(r), pend)
<1>. DEFINE n == Len(r)
            q == Tail(r)
<1>1. n \in Nat /\ n # 0 /\ Len(q) = n - 1 /\ Head(r) = r[1] /\ \A i \in 1..(n - 1) : q[i] = r[i+1]
  BY EmptySeq
<1>. HIDE DEF q, n
<1>2. ASSUME NEW p \in Phreg, pend[p]  PROVE \E i \in 1..(n - 1) : Produces(q[i], p)
  <2>1. PICK j \in 1..n : Produces(r[j], p)
    BY <1>2 DEF ProducedBy, n
  <2>2. j # 1
    BY <1>1, <2>1
  <2>3. j - 1 \in 1..(n - 1) /\ (j - 1) + 1 = j
    BY <1>1, <2>2
  <2>4. q[j - 1] = r[j]
    BY <1>1, <2>3
  <2>. QED
    BY <2>1, <2>3, <2>4
<1>3. ProducedBy(q, pend)
  BY <1>1, <1>2 DEF ProducedBy
<1>. QED
  BY <1>3 DEF q

\* A recovery writes the outputs of u, and of what it squashes those that are
\* not completed.
LEMMA ProducedRecover ==
    ASSUME NEW r \in Seq(Uop), NEW u \in Uop, Write(Written(u, Squashed(r))),
           \A p \in Phreg : pending[p] /\ p \notin ToSet(Phs(u.outs)) =>
                \E i \in 1..Len(r) : Produces(r[i], p)
    PROVE  ProducedBy(Kept(r), pending')
<1>. DEFINE n == Len(r)
            m == LastKept(r)
            P == Kept(r)
            S == Squashed(r)
<1>1. /\ S \in Seq(Uop) /\ m \in 0..n /\ n \in Nat /\ Len(P) = m /\ Len(S) = n - m
      /\ \A i \in 1..m : i \in 1..n /\ P[i] = r[i]
      /\ \A i \in 1..(n - m) : i + m \in 1..n /\ S[i] = r[i+m]
  BY KeptIs
<1>2. DOMAIN S = 1..(n - m) /\ \A i \in 1..(n - m) : S[i] \in Uop
  BY <1>1, OutsAtType
<1>3. pending' = [p \in Phreg |-> pending[p] /\ p \notin Written(u, S)]
  BY DEF Write
<1>. HIDE DEF P, S, m, n
<1>4. ASSUME NEW p \in Phreg, pending'[p]  PROVE \E i \in 1..m : Produces(P[i], p)
  <2>1. pending[p] /\ p \notin Written(u, S)
    BY <1>3, <1>4
  <2>2. p \notin ToSet(Phs(u.outs))
    BY <2>1 DEF Written
  <2>3. PICK i \in 1..n : Produces(r[i], p)
    BY <2>1, <2>2 DEF n
  <2>4. CASE i <= m
    <3>1. i \in 1..m
      BY <1>1, <2>4
    <3>. QED
      BY <1>1, <2>3, <3>1
  <2>5. CASE ~ (i <= m)
    <3>1. i - m \in 1..(n - m) /\ (i - m) + m = i
      BY <1>1, <2>5
    <3>2. S[i - m] = r[i] /\ S[i - m] \in Uop
      BY <1>1, <1>2, <3>1
    <3>. DEFINE v == S[i - m]
    <3>3. v.state # "completed" /\ v \in ToSet(S) /\ \E k \in 1..Len(v.outs) : v.outs[k].ph = p
      BY <1>2, <2>3, <3>1, <3>2 DEF Produces, ToSet
    <3>4. v.outs \in Seq(OutRec)
      BY <3>2, UopTypes
    <3>. HIDE DEF v
    <3>5. p \in ToSet(Phs(v.outs))
      BY <3>3, <3>4, ToSetPhs
    <3>6. p \in Written(u, S)
      BY <3>3, <3>5 DEF Written
    <3>. QED
      BY <2>1, <3>6
  <2>. QED
    BY <2>4, <2>5
<1>5. \A p \in Phreg : pending'[p] => \E i \in 1..Len(P) : Produces(P[i], p)
  BY <1>1, <1>4
<1>. QED
  BY <1>5 DEF ProducedBy, P

-----------------------------------------------------------------------------
(* The inductive invariant *)

Typing ==
    /\ rob \in Seq(Uop) /\ pending \in [Phreg -> BOOLEAN]
    /\ spec \in BOOLEAN /\ recover \in {"writeback", "commit"}

PipelineInv ==
    /\ Typing
    /\ Registers
    /\ Fits(rob, stores, stale)
    /\ ProducedBy(rob, pending)

LEMMA InvInit == ASSUME Init PROVE PipelineInv
<1>1. /\ rob = <<>> /\ pending = [p \in Phreg |-> FALSE] /\ stores = 0
      /\ stale = [p \in Phreg |-> 0] /\ spec = FALSE /\ recover \in {"writeback", "commit"}
  BY DEF Init
<1>2. rob \in Seq(Uop) /\ Len(rob) = 0 /\ 1..0 = {}
  BY <1>1
<1>3. Typing
  BY <1>1, <1>2 DEF Typing
<1>4. Registers
  BY RegistersInit
<1>5. Waiting(rob) = {} /\ Loading(rob) = {}
  BY <1>2 DEF Waiting, Loading
<1>6. Cardinality(Waiting(rob)) = 0 /\ Cardinality(Loading(rob)) = 0
  BY <1>5, FS_EmptySet
<1>7. StoresWait(rob)
  BY <1>2 DEF StoresWait
<1>8. Fits(rob, stores, stale)
  BY <1>1, <1>2, <1>6, <1>7, QueueSizes DEF Fits
<1>9. ProducedBy(rob, pending)
  BY <1>1 DEF ProducedBy
<1>. QED
  BY <1>3, <1>4, <1>8, <1>9 DEF PipelineInv

LEMMA WriteType ==
    ASSUME pending \in [Phreg -> BOOLEAN], NEW S, Write(S)
    PROVE  /\ pending' \in [Phreg -> BOOLEAN]
           /\ \A p \in Phreg : pending'[p] <=> pending[p] /\ p \notin S
<1>1. pending' = [p \in Phreg |-> pending[p] /\ p \notin S]
  BY DEF Write
<1>2. \A p \in Phreg : (pending[p] /\ p \notin S) \in BOOLEAN
  OBVIOUS
<1>. QED
  BY <1>1, <1>2, Zenon

LEMMA InvDispatch ==
    ASSUME PipelineInv, NEW t \in Menu, Dispatch(t)
    PROVE  PipelineInv'
<1>. DEFINE u == Renamed(t)
<1>1. /\ rob \in Seq(Uop) /\ pending \in [Phreg -> BOOLEAN] /\ spec \in BOOLEAN
      /\ recover \in {"writeback", "commit"} /\ Registers /\ Fits(rob, stores, stale)
      /\ ProducedBy(rob, pending)
  BY DEF PipelineInv, Typing
<1>2. Registers' /\ rob' \in Seq(Uop) /\ u \in Uop
  BY <1>1, RegistersDispatch
<1>3. /\ CanDispatch(t) /\ Rename(t) /\ rob' = Append(rob, u) /\ spec' = (spec \/ t.kind = "missed")
      /\ stores' = stores /\ stale' = stale /\ recover' = recover
  BY DEF Dispatch
<1>4. /\ u.state = "waiting" /\ u.kind = t.kind
      /\ u.outs = [k \in 1..Len(t.outs) |->
                     [lo |-> t.outs[k], ph |-> New(t, k), old |-> MapBefore(t, t.outs[k], k)]]
  BY DEF Renamed
<1>. HIDE DEF u
<1>5. u.kind = "store" => u.outs = <<>>
  <2>1. ASSUME u.kind = "store"  PROVE u.outs = <<>>
    <3>1. t.outs = <<>>
      BY <1>4, <2>1, MenuTypes
    <3>2. u.outs \in Seq(OutRec) /\ DOMAIN u.outs = 1..Len(t.outs) /\ Len(t.outs) = 0
      BY <1>2, <1>4, <3>1, UopTypes
    <3>3. Len(u.outs) = 0
      <4>1. Len(u.outs) \in Nat /\ 1..Len(u.outs) = 1..0
        BY <3>2, LenProperties
      <4>2. 1 \notin 1..Len(u.outs)
        BY <4>1
      <4>. QED
        BY <4>1, <4>2
    <3>. QED
      BY <3>2, <3>3, EmptySeq
  <2>. QED
    BY <2>1
<1>6. Fits(Append(rob, u), stores, stale)
  <2>1. Len(rob) < RobSize
    BY <1>3 DEF CanDispatch
  <2>2. InLsq = Waiting(rob)
    BY DEF InLsq, Waiting, Entry
  <2>3. Mem(u) <=> Mem(t)
    BY <1>4 DEF Mem
  <2>4. Mem(u) => stores + Cardinality(Waiting(rob)) < LsqSize
    BY <1>3, <2>2, <2>3 DEF CanDispatch
  <2>. QED
    BY <1>1, <1>2, <1>4, <1>5, <2>1, <2>4, FitsAppend
<1>7. pending' = [p \in Phreg |-> pending[p] \/ p \in {New(t, k) : k \in 1..Len(t.outs)}]
  BY <1>3 DEF Rename
<1>8. Typing'
  <2>1. pending' \in [Phreg -> BOOLEAN]
    <3>1. \A p \in Phreg : (pending[p] \/ p \in {New(t, k) : k \in 1..Len(t.outs)}) \in BOOLEAN
      OBVIOUS
    <3>. QED
      BY <1>7, <3>1, Zenon
  <2>2. spec' \in BOOLEAN
    <3>1. (spec \/ t.kind = "missed") \in BOOLEAN
      OBVIOUS
    <3>. QED
      BY <1>3, <3>1, Zenon
  <2>. QED
    BY <1>1, <1>2, <1>3, <2>1, <2>2 DEF Typing
<1>9. ProducedBy(rob', pending')
  <2>1. /\ Len(rob') = Len(rob) + 1 /\ rob'[Len(rob) + 1] = u /\ Len(rob) \in Nat
        /\ \A i \in 1..Len(rob) : rob'[i] = rob[i]
    BY <1>1, <1>3
  <2>2. Len(rob) + 1 \in 1..Len(rob') /\ \A i \in 1..Len(rob) : i \in 1..Len(rob')
    BY <2>1
  <2>3. ASSUME NEW p \in Phreg, pending'[p]  PROVE \E i \in 1..Len(rob') : Produces(rob'[i], p)
    <3>1. CASE pending[p]
      <4>1. PICK i \in 1..Len(rob) : Produces(rob[i], p)
        BY <1>1, <3>1 DEF ProducedBy
      <4>. QED
        BY <2>1, <2>2, <4>1
    <3>2. CASE ~ pending[p]
      <4>1. PICK k \in 1..Len(t.outs) : New(t, k) = p
        BY <1>7, <2>3, <3>2
      <4>2. Len(u.outs) = Len(t.outs) /\ u.outs[k].ph = p
        <5>1. u.outs \in Seq(OutRec) /\ DOMAIN u.outs = 1..Len(t.outs)
          BY <1>2, <1>4, UopTypes
        <5>2. Len(u.outs) = Len(t.outs)
          BY <5>1, MenuTypes, LenProperties
        <5>. QED
          BY <1>4, <4>1, <5>2
      <4>3. Produces(u, p)
        BY <1>4, <4>2 DEF Produces
      <4>. QED
        BY <2>1, <2>2, <4>3
    <3>. QED
      BY <3>1, <3>2
  <2>. QED
    BY <2>3 DEF ProducedBy
<1>10. Fits(rob', stores', stale')
  BY <1>3, <1>6
<1>. QED
  BY <1>2, <1>8, <1>9, <1>10 DEF PipelineInv

\* The stages that touch no register.
LEMMA InvAdvance ==
    ASSUME PipelineInv, NEW i \in Entry, NEW v \in State, v # "completed",
           Becomes(rob', rob, i, v), Fits(rob', stores, stale),
           UNCHANGED <<regs, stores, stale, spec, recover>>
    PROVE  PipelineInv'
<1>1. /\ rob \in Seq(Uop) /\ Typing /\ Registers /\ ProducedBy(rob, pending) /\ i \in 1..Len(rob)
  BY DEF PipelineInv, Typing, Entry
<1>2. /\ rat' = rat /\ busy' = busy /\ pending' = pending /\ free' = free /\ count' = count
      /\ stores' = stores /\ stale' = stale /\ spec' = spec /\ recover' = recover
  BY DEF regs
<1>3. /\ rob' \in Seq(Uop) /\ Len(rob') = Len(rob)
      /\ \A j \in 1..Len(rob) : rob'[j].ins = rob[j].ins /\ rob'[j].outs = rob[j].outs
  BY <1>1, RobAdvance
<1>4. Typing'
  BY <1>1, <1>2, <1>3 DEF Typing
<1>5. Registers'
  <2>1. (Recorded(rob, rat) => Recorded(rob', rat)) /\ \A p : Held(rob', p) = Held(rob, p)
    BY <1>1, <1>3, RecordedSame
  <2>. QED
    BY <1>1, <1>2, <2>1 DEF Registers
<1>6. ProducedBy(rob', pending')
  BY <1>1, <1>2, ProducedAdvance
<1>. QED
  BY <1>2, <1>4, <1>5, <1>6 DEF PipelineInv

LEMMA InvIssue ==
    ASSUME PipelineInv, NEW i \in Entry, Issue(i)
    PROVE  PipelineInv'
<1>1. rob \in Seq(Uop) /\ Fits(rob, stores, stale) /\ i \in 1..Len(rob)
  BY DEF PipelineInv, Typing, Entry
<1>2. /\ CanIssue(rob[i]) /\ UNCHANGED <<regs, stores, stale, spec, recover>>
      /\ \/ ~ Mem(rob[i]) /\ Becomes(rob', rob, i, "executing")
         \/ rob[i].kind = "load" /\ Becomes(rob', rob, i, "memory")
  BY DEF Issue, Advance, Becomes
<1>3. "executing" \in State /\ "memory" \in State
  BY DEF State
<1>4. CASE ~ Mem(rob[i]) /\ Becomes(rob', rob, i, "executing")
  <2>1. rob[i].kind # "store"
    BY <1>4 DEF Mem
  <2>2. Fits(rob', stores, stale)
    BY <1>1, <1>3, <1>4, <2>1, FitsAdvance
  <2>. QED
    BY <1>2, <1>3, <1>4, <2>2, InvAdvance
<1>5. CASE rob[i].kind = "load" /\ Becomes(rob', rob, i, "memory")
  <2>1. rob[i].kind # "store"
    BY <1>5
  <2>2. InFlight < MaxAccess
    BY <1>2, <1>5 DEF CanIssue
  <2>3. \A p \in Phreg : stale[p] \in Nat /\ Cardinality(Loading(rob)) \in Nat
    BY <1>1, PositionsFinite DEF Fits
  <2>4. \A p \in Phreg : stale[p] + Cardinality(Loading(rob)) < MaxAccess
    BY <1>1, <2>2, <2>3, InFlightIs, QueueSizes
  <2>5. Fits(rob', stores, stale)
    BY <1>1, <1>3, <1>5, <2>1, <2>4, FitsAdvance
  <2>. QED
    BY <1>2, <1>3, <1>5, <2>5, InvAdvance
<1>. QED
  BY <1>2, <1>4, <1>5

LEMMA InvAnswer ==
    ASSUME PipelineInv, NEW i \in Entry, Answer(i)
    PROVE  PipelineInv'
<1>1. rob \in Seq(Uop) /\ Fits(rob, stores, stale) /\ i \in 1..Len(rob)
  BY DEF PipelineInv, Typing, Entry
<1>2. /\ UNCHANGED <<regs, stores, stale, spec, recover>>
      /\ rob[i].state = "memory" /\ Becomes(rob', rob, i, "arrived")
  BY DEF Answer, Advance, Becomes
<1>3. "arrived" \in State
  BY DEF State
<1>4. rob[i].kind # "store"
  BY <1>1, <1>2 DEF Fits, StoresWait
<1>5. Fits(rob', stores, stale)
  BY <1>1, <1>2, <1>3, <1>4, FitsAdvance
<1>. QED
  BY <1>2, <1>3, <1>5, InvAdvance

LEMMA InvIssueStore ==
    ASSUME PipelineInv, IssueStore
    PROVE  PipelineInv'
<1>1. /\ Typing /\ Registers /\ ProducedBy(rob, pending) /\ rob \in Seq(Uop) /\ Fits(rob, stores, stale)
  BY DEF PipelineInv, Typing
<1>2. /\ stores > 0 /\ stores' = stores - 1 /\ rob' = rob
      /\ rat' = rat /\ busy' = busy /\ pending' = pending /\ free' = free /\ count' = count
      /\ stale' = stale /\ spec' = spec /\ recover' = recover
  BY DEF IssueStore, regs
<1>3. Typing' /\ Registers'
  BY <1>1, <1>2 DEF Typing, Registers
<1>4. ProducedBy(rob', pending')
  BY <1>1, <1>2
<1>5. stores \in Nat /\ Cardinality(Waiting(rob)) \in Nat /\ stores + Cardinality(Waiting(rob)) <= LsqSize
  BY <1>1, PositionsFinite DEF Fits
<1>6. stores' \in Nat /\ stores' + Cardinality(Waiting(rob)) <= LsqSize
  BY <1>2, <1>5, QueueSizes
<1>7. Fits(rob, stores', stale)
  BY <1>1, <1>6 DEF Fits
<1>. QED
  BY <1>2, <1>3, <1>4, <1>7 DEF PipelineInv

LEMMA InvStale ==
    ASSUME PipelineInv, NEW p \in Phreg, StaleWriteback(p)
    PROVE  PipelineInv'
<1>1. /\ Typing /\ Registers /\ ProducedBy(rob, pending) /\ rob \in Seq(Uop) /\ Fits(rob, stores, stale)
      /\ pending \in [Phreg -> BOOLEAN]
  BY DEF PipelineInv, Typing
<1>2. /\ stale[p] > 0 /\ stale' = [stale EXCEPT ![p] = @ - 1] /\ Write({p})
      /\ rob' = rob /\ rat' = rat /\ busy' = busy /\ free' = free /\ count' = count
      /\ stores' = stores /\ spec' = spec /\ recover' = recover
  BY DEF StaleWriteback
<1>3. pending' \in [Phreg -> BOOLEAN] /\ \A x \in Phreg : pending'[x] => pending[x]
  BY <1>1, <1>2, WriteType
<1>4. Typing' /\ Registers'
  BY <1>1, <1>2, <1>3 DEF Typing, Registers
<1>5. ProducedBy(rob', pending')
  BY <1>1, <1>2, <1>3 DEF ProducedBy
<1>6. stale \in [Phreg -> Nat] /\ \A x \in Phreg : stale[x] + Cardinality(Loading(rob)) <= MaxAccess
  BY <1>1 DEF Fits
<1>7. stale' \in [Phreg -> Nat] /\ \A x \in Phreg : stale'[x] <= stale[x]
  BY <1>2, <1>6
<1>8. \A x \in Phreg : stale'[x] + Cardinality(Loading(rob)) <= MaxAccess
  BY <1>1, <1>6, <1>7, PositionsFinite, QueueSizes
<1>9. Fits(rob, stores, stale')
  BY <1>1, <1>7, <1>8 DEF Fits
<1>. QED
  BY <1>2, <1>4, <1>5, <1>9 DEF PipelineInv

\* The busy counters, when the reorder buffer has become r and olds are to be
\* given up; the producers, when the registers of S have been written.
Owed(r, olds) ==
    \A p \in Phreg : busy[p] = Uses(rat, p) + Held(r, p) + Count(olds, 1..Len(olds), p)
ProducedBut(r, S) ==
    \A p \in Phreg : pending[p] /\ p \notin S => \E i \in 1..Len(r) : Produces(r[i], p)

\* Recovery, once uop u is written and olds are given up.
LEMMA InvRecover ==
    ASSUME rat \in [Loreg -> Phreg], busy \in [Phreg -> Nat], FreeExact(busy, free), count = Size - Len(free),
           pending \in [Phreg -> BOOLEAN], recover \in {"writeback", "commit"},
           NEW u \in Uop, NEW uops \in Seq(Uop), NEW olds \in Seq(Phreg), Recover(u, uops, olds),
           Recorded(uops, rat),
           Owed(uops, olds), ProducedBut(uops, ToSet(Phs(u.outs))),
           Fits(uops, stores, stale), UNCHANGED <<stores, recover>>
    PROVE  PipelineInv'
<1>1. /\ rob' = Kept(uops) /\ Write(Written(u, Squashed(uops))) /\ Restore(OutsOf(Squashed(uops)))
      /\ Drop(olds \o Reverse(Phs(OutsOf(Squashed(uops))))) /\ Abandon(Squashed(uops)) /\ spec' = FALSE
  BY DEF Recover
<1>2. Recovered(uops, olds)
  BY <1>1 DEF Recovered
<1>3. Registers' /\ rob' \in Seq(Uop)
  BY <1>2, RegistersRecover DEF Owed
<1>4. Fits(rob', stores, stale')
  BY <1>1, FitsRecover
<1>5. ProducedBy(rob', pending')
  BY <1>1, ProducedRecover DEF ProducedBut
<1>6. pending' \in [Phreg -> BOOLEAN]
  BY <1>1, WriteType
<1>7. Typing'
  BY <1>1, <1>3, <1>6 DEF Typing
<1>. QED
  BY <1>3, <1>4, <1>5, <1>7 DEF PipelineInv

LEMMA InvWriteback ==
    ASSUME PipelineInv, NEW i \in Entry, Writeback(i)
    PROVE  PipelineInv'
<1>. DEFINE u == rob[i]
            uops == [rob EXCEPT ![i].state = "completed"]
<1>1. /\ rob \in Seq(Uop) /\ i \in 1..Len(rob) /\ pending \in [Phreg -> BOOLEAN]
      /\ Typing /\ Registers /\ Fits(rob, stores, stale) /\ ProducedBy(rob, pending)
  BY DEF PipelineInv, Typing, Entry
<1>2. /\ rob[i].state \in {"executing", "arrived"}
      /\ \/ Recover(u, uops, <<>>)
         \/ /\ rob' = uops /\ Write(ToSet(Phs(u.outs)))
            /\ UNCHANGED <<rat, busy, free, count, stale, spec>>
      /\ UNCHANGED <<stores, recover>>
  BY DEF Writeback
<1>3. Becomes(uops, rob, i, "completed") /\ "completed" \in State
  BY DEF Becomes, State
<1>4. u \in Uop
  BY <1>1, OutsAtType
<1>5. u.kind # "store"
  BY <1>1, <1>2 DEF Fits, StoresWait
<1>. HIDE DEF u, uops
<1>6. /\ uops \in Seq(Uop) /\ Len(uops) = Len(rob)
      /\ \A j \in 1..Len(rob) : uops[j].ins = rob[j].ins /\ uops[j].outs = rob[j].outs
  BY <1>1, <1>3, RobAdvance
<1>7. Fits(uops, stores, stale)
  <2>1. "completed" # "waiting" /\ "completed" # "memory" /\ rob[i].kind # "store"
    BY <1>5 DEF u
  <2>. QED
    BY <1>1, <1>3, <2>1, FitsAdvance
<1>8. /\ Recorded(rob, rat) => Recorded(uops, rat)
      /\ \A p : Held(uops, p) = Held(rob, p)
  BY <1>1, <1>6, RecordedSame
<1>9. /\ rat \in [Loreg -> Phreg] /\ busy \in [Phreg -> Nat] /\ FreeExact(busy, free)
      /\ count = Size - Len(free) /\ Recorded(uops, rat)
      /\ \A p \in Phreg : busy[p] = Uses(rat, p) + Held(uops, p)
  BY <1>1, <1>8 DEF Registers
<1>10. \A p \in Phreg : pending[p] /\ p \notin ToSet(Phs(u.outs)) =>
           \E j \in 1..Len(uops) : Produces(uops[j], p)
  BY <1>1, <1>3, ProducedWriteback DEF u
<1>11. recover \in {"writeback", "commit"}
  BY <1>1 DEF Typing
<1>12. CASE Recover(u, uops, <<>>)
  <2>. DEFINE none == <<>>
  <2>1. none \in Seq(Phreg) /\ Len(none) = 0 /\ 1..0 = {}
    OBVIOUS
  <2>. HIDE DEF none
  <2>2. \A p : Count(none, 1..Len(none), p) = 0
    BY <2>1, CountEmpty
  <2>3. \A p \in Phreg : busy[p] = Uses(rat, p) + Held(uops, p) + Count(none, 1..Len(none), p)
    BY <1>6, <1>9, <2>2, UsesHeldType
  <2>4. Recover(u, uops, none)
    BY <1>12 DEF none
  <2>5. UNCHANGED <<stores, recover>>
    BY <1>2
  <2>6. Owed(uops, none) /\ ProducedBut(uops, ToSet(Phs(u.outs)))
    BY <1>10, <2>3 DEF Owed, ProducedBut
  <2>7. rat \in [Loreg -> Phreg] /\ busy \in [Phreg -> Nat] /\ FreeExact(busy, free) /\ count = Size - Len(free)
    BY <1>9
  <2>. QED
    BY <1>1, <1>4, <1>6, <1>7, <1>9, <1>11, <2>1, <2>4, <2>5, <2>6, <2>7, InvRecover
<1>13. CASE /\ rob' = uops /\ Write(ToSet(Phs(u.outs)))
            /\ UNCHANGED <<rat, busy, free, count, stale, spec>>
  <2>1. /\ rob' = uops /\ rat' = rat /\ busy' = busy /\ free' = free /\ count' = count
        /\ stale' = stale /\ spec' = spec /\ stores' = stores /\ recover' = recover
    BY <1>2, <1>13
  <2>2. /\ pending' \in [Phreg -> BOOLEAN]
        /\ \A p \in Phreg : pending'[p] <=> pending[p] /\ p \notin ToSet(Phs(u.outs))
    BY <1>1, <1>13, WriteType
  <2>3. ProducedBy(rob', pending')
    BY <1>10, <2>1, <2>2 DEF ProducedBy
  <2>4. Typing'
    BY <1>1, <1>6, <2>1, <2>2 DEF Typing
  <2>5. Registers'
    BY <1>9, <2>1 DEF Registers
  <2>6. Fits(rob', stores', stale')
    BY <1>7, <2>1
  <2>. QED
    BY <2>3, <2>4, <2>5, <2>6 DEF PipelineInv
<1>. QED
  BY <1>2, <1>12, <1>13

LEMMA InvCommit ==
    ASSUME PipelineInv, Commit
    PROVE  PipelineInv'
<1>. DEFINE u == Head(rob)
            olds == Olds(u.outs)
            uops == Tail(rob)
<1>1. /\ rob \in Seq(Uop) /\ pending \in [Phreg -> BOOLEAN] /\ recover \in {"writeback", "commit"}
      /\ Typing /\ Registers /\ Fits(rob, stores, stale) /\ ProducedBy(rob, pending)
  BY DEF PipelineInv, Typing
<1>2. /\ rob # <<>> /\ CanCommit(u)
      /\ \/ u.kind = "missed" /\ Recover(u, uops, olds)
         \/ /\ rob' = uops /\ Drop(olds) /\ UNCHANGED <<rat, pending, stale, spec>>
      /\ stores' = IF u.kind = "store" THEN stores + 1 ELSE stores
      /\ recover' = recover
  BY DEF Commit
<1>3. /\ rat \in [Loreg -> Phreg] /\ busy \in [Phreg -> Nat] /\ FreeExact(busy, free)
      /\ count = Size - Len(free) /\ Recorded(rob, rat)
      /\ \A p \in Phreg : busy[p] = Uses(rat, p) + Held(rob, p)
  BY <1>1 DEF Registers
<1>4. /\ u \in Uop /\ u = rob[1] /\ uops \in Seq(Uop) /\ Len(rob) \in Nat \ {0} /\ Recorded(uops, rat)
      /\ \A p : Held(rob, p) = Held(uops, p) + Count(olds, 1..Len(u.outs), p)
  BY <1>1, <1>2, <1>3, RecordedTail
<1>5. u.outs \in Seq(OutRec) /\ Len(u.outs) \in Nat
  BY <1>4, UopTypes
<1>6. olds \in Seq(Phreg) /\ Len(olds) = Len(u.outs)
  BY <1>5, PhsAndOlds
\* The head has no output to write any more.
<1>7. \A p : ~ Produces(u, p)
  <2>1. CASE u.kind = "store"
    <3>1. u.outs = <<>>
      BY <1>1, <1>4, <2>1 DEF Fits, StoresWait
    <3>2. 1..Len(u.outs) = {}
      BY <3>1
    <3>. QED
      BY <3>2 DEF Produces
  <2>2. CASE u.kind # "store"
    BY <1>2, <2>2 DEF CanCommit, Produces
  <2>. QED
    BY <2>1, <2>2
<1>8. ProducedBy(uops, pending)
  BY <1>1, <1>2, <1>7, ProducedTail
<1>9. Fits(uops, stores, stale) /\ (u.kind = "store" => Fits(uops, stores + 1, stale))
  BY <1>1, <1>2, FitsTail
<1>. HIDE DEF u, olds, uops
<1>10. ASSUME NEW p \in Phreg
       PROVE  busy[p] = Uses(rat, p) + Held(uops, p) + Count(olds, 1..Len(olds), p)
  <2>1. Uses(rat, p) \in Nat /\ Held(uops, p) \in Nat
    BY <1>4, UsesHeldType
  <2>2. Count(olds, 1..Len(olds), p) \in Nat
    <3>1. IsFiniteSet(1..Len(olds))
      BY <1>5, <1>6, IntervalFinite
    <3>. QED
      BY <3>1, CountType
  <2>3. busy[p] = Uses(rat, p) + Held(rob, p) /\ Held(rob, p) = Held(uops, p) + Count(olds, 1..Len(olds), p)
    BY <1>3, <1>4, <1>6
  <2>. QED
    BY <2>1, <2>2, <2>3
<1>11. CASE u.kind = "missed" /\ Recover(u, uops, olds)
  <2>1. UNCHANGED <<stores, recover>>
    BY <1>2, <1>11
  <2>2. Owed(uops, olds) /\ ProducedBut(uops, ToSet(Phs(u.outs)))
    BY <1>8, <1>10 DEF ProducedBy, Owed, ProducedBut
  <2>. QED
    BY <1>1, <1>3, <1>4, <1>6, <1>9, <1>11, <2>1, <2>2, InvRecover
<1>12. CASE rob' = uops /\ Drop(olds) /\ UNCHANGED <<rat, pending, stale, spec>>
  <2>1. /\ rob' = uops /\ rat' = rat /\ pending' = pending /\ stale' = stale /\ spec' = spec
        /\ recover' = recover /\ stores' = IF u.kind = "store" THEN stores + 1 ELSE stores
    BY <1>2, <1>12
  <2>2. ASSUME NEW p \in Phreg  PROVE busy[p] = Uses(rat', p) + Held(rob', p) + Times(olds, p)
    <3>1. Times(olds, p) = Count(olds, 1..Len(olds), p)
      BY <1>6, TimesIsCount
    <3>. QED
      BY <1>10, <2>1, <3>1
  <2>3. Registers'
    <3>1. rob' \in Seq(Uop) /\ rat' \in [Loreg -> Phreg] /\ Recorded(rob', rat') /\ Drop(olds)
      BY <1>3, <1>4, <1>12, <2>1
    <3>. QED
      BY <1>3, <1>6, <2>2, <3>1, RegistersDrop
  <2>4. Typing'
    BY <1>1, <1>4, <2>1 DEF Typing
  <2>5. Fits(rob', stores', stale')
    BY <1>9, <2>1
  <2>6. ProducedBy(rob', pending')
    BY <1>8, <2>1
  <2>. QED
    BY <2>3, <2>4, <2>5, <2>6 DEF PipelineInv
<1>. QED
  BY <1>2, <1>11, <1>12

LEMMA InvNext == ASSUME PipelineInv, [Next]_vars PROVE PipelineInv'
<1>1. ASSUME NEW t \in Menu, Dispatch(t)  PROVE PipelineInv'
  BY <1>1, InvDispatch
<1>2. ASSUME NEW i \in Entry, Issue(i)  PROVE PipelineInv'
  BY <1>2, InvIssue
<1>3. ASSUME NEW i \in Entry, Answer(i)  PROVE PipelineInv'
  BY <1>3, InvAnswer
<1>4. ASSUME NEW i \in Entry, Writeback(i)  PROVE PipelineInv'
  BY <1>4, InvWriteback
<1>5. ASSUME NEW p \in Phreg, StaleWriteback(p)  PROVE PipelineInv'
  BY <1>5, InvStale
<1>6. CASE IssueStore
  BY <1>6, InvIssueStore
<1>7. CASE Commit
  BY <1>7, InvCommit
<1>8. CASE UNCHANGED vars
  BY <1>8 DEF vars, regs, PipelineInv, Typing, Registers, Fits, ProducedBy
<1>. QED
  BY <1>1, <1>2, <1>3, <1>4, <1>5, <1>6, <1>7, <1>8 DEF Next

\* The inductive invariant of the pipeline: dispatch, issue, write-back, commit
\* and recovery keep the types, the register file in step with the reorder
\* buffer, the queues within their sizes, and a producer for what is pending.
THEOREM PipelineInvariant == Spec => []PipelineInv
<1>1. Init => PipelineInv
  BY InvInit
<1>2. PipelineInv /\ [Next]_vars => PipelineInv'
  BY InvNext
<1>. QED
  BY <1>1, <1>2, PTL DEF Spec
-----------------------------------------------------------------------------
(* What the invariant says of the properties of the model *)

LEMMA TypesFollow == PipelineInv => TypeOK
<1>. SUFFICES ASSUME PipelineInv PROVE TypeOK
  OBVIOUS
<1>1. /\ rob \in Seq(Uop) /\ pending \in [Phreg -> BOOLEAN] /\ recover \in {"writeback", "commit"}
      /\ Registers /\ Fits(rob, stores, stale)
  BY DEF PipelineInv, Typing
<1>2. spec \in BOOLEAN
  BY Zenon DEF PipelineInv, Typing
<1>3. /\ rat \in [Loreg -> Phreg] /\ busy \in [Phreg -> Nat]
      /\ free \in Seq(Phreg) /\ count = Size - Len(free)
      /\ \A j, k \in 1..Len(free) : free[j] = free[k] => j = k
  BY <1>1 DEF Registers, FreeExact
<1>4. count \in 0..Size
  <2>1. Len(free) \in 0..Size
    BY <1>3, FreeFits
  <2>2. Size \in Nat
    BY PipelineAssumption
  <2>. QED
    BY <1>3, <2>1, <2>2
<1>5. Len(rob) <= RobSize /\ stores \in 0..LsqSize /\ stale \in [Phreg -> 0..MaxAccess]
  <2>1. /\ Len(rob) <= RobSize /\ stores \in Nat /\ stores + Cardinality(Waiting(rob)) <= LsqSize
        /\ stale \in [Phreg -> Nat]
        /\ \A p \in Phreg : stale[p] + Cardinality(Loading(rob)) <= MaxAccess
    BY <1>1 DEF Fits
  <2>2. Cardinality(Waiting(rob)) \in Nat /\ Cardinality(Loading(rob)) \in Nat
    BY <1>1, PositionsFinite
  <2>3. stores \in 0..LsqSize
    BY <2>1, <2>2, QueueSizes
  <2>4. \A p \in Phreg : stale[p] \in 0..MaxAccess
    BY <2>1, <2>2, QueueSizes
  <2>. QED
    BY <2>1, <2>3, <2>4
<1>6. ASSUME NEW i \in Entry
      PROVE  /\ rob[i].kind \in Kind /\ rob[i].spec \in BOOLEAN
             /\ rob[i].state \in {"waiting", "executing", "memory", "arrived", "completed"}
             /\ \A l \in DOMAIN rob[i].ins : rob[i].ins[l] \in Phreg
             /\ \A k \in Outs(i) : rob[i].outs[k].ph \in Phreg /\ rob[i].outs[k].old \in Phreg
  <2>. DEFINE u == rob[i]
  <2>1. u \in Uop
    BY <1>1, OutsAtType DEF Entry
  <2>. HIDE DEF u
  <2>2. /\ u.kind \in Kind /\ u.state \in State /\ u.outs \in Seq(OutRec) /\ DOMAIN u.outs = 1..Len(u.outs)
        /\ \A l \in DOMAIN u.ins : u.ins[l] \in Phreg
    BY <2>1, UopTypes
  <2>3. u.spec \in BOOLEAN
    BY <2>1, UopTypes, Zenon
  <2>4. \A k \in DOMAIN u.outs : u.outs[k] \in OutRec
    BY <2>2
  <2>5. \A k \in DOMAIN u.outs : u.outs[k].ph \in Phreg /\ u.outs[k].old \in Phreg
    BY <2>4 DEF OutRec
  <2>. QED
    BY <2>2, <2>3, <2>5, Zenon DEF u, State, Outs
<1>. QED
  BY <1>1, <1>2, <1>3, <1>4, <1>5, <1>6, Zenon DEF TypeOK

\* Where output a = <<i, k>> stands among all of them.
Place(off, a) == off[a[1]] + a[2]

LEMMA Places ==
    ASSUME rob \in Seq(Uop), NEW off, Layout(OutsAt(rob), OutsOf(rob), off)
    PROVE  /\ \A a \in Output : /\ a[1] \in Entry /\ a[2] \in Outs(a[1]) /\ a = <<a[1], a[2]>>
                                /\ Place(off, a) \in 1..Len(OutsOf(rob))
                                /\ OutsOf(rob)[Place(off, a)] = OutAt(a)
           /\ \A a \in Output : \A i \in 1..(Len(rob) + 1) : Place(off, a) <= off[i] <=> a[1] < i
           /\ \A q \in 1..Len(OutsOf(rob)) : \E a \in Output : Place(off, a) = q
           /\ \A a, b \in Output : Place(off, a) = Place(off, b) => a = b
           /\ \A a, b \in Output :
                 Place(off, a) < Place(off, b) <=> a[1] < b[1] \/ (a[1] = b[1] /\ a[2] < b[2])
<1>. DEFINE O == OutsOf(rob)
            A == OutsAt(rob)
            N == Len(rob)
<1>1. /\ N \in Nat /\ DOMAIN rob = 1..N /\ A \in Seq(Seq(OutRec)) /\ Len(A) = N
      /\ \A i \in 1..N : rob[i] \in Uop /\ A[i] = rob[i].outs
  BY OutsAtType
<1>2. \A i \in 1..N : Outs(i) = 1..Len(A[i]) /\ Len(A[i]) \in Nat
  BY <1>1, UopTypes DEF Outs
<1>3. \A a : a \in Output <=> \E i \in 1..N : \E k \in 1..Len(A[i]) : a = <<i, k>>
  BY <1>2 DEF Output, Entry
<1>4. Layout(A, O, off)
  OBVIOUS
<1>5. Len(O) \in Nat /\ \A i \in 1..(N + 1) : off[i] \in Nat
  BY <1>1, <1>4, LayoutLengths
<1>6. ASSUME NEW i \in 1..N, NEW k \in 1..Len(A[i])
      PROVE  /\ off[i] + k \in 1..Len(O) /\ O[off[i] + k] = A[i][k]
             /\ \A j \in 1..(N + 1) : (j > i => off[i] + k <= off[j])
                                      /\ (j <= i => off[j] < off[i] + k)
  <2>. HIDE DEF A, O
  <2>. QED
    BY <1>1, <1>4, LayoutSpan
<1>7. ASSUME NEW q \in 1..Len(O)
      PROVE  \E i \in 1..N : \E k \in 1..Len(A[i]) : q = off[i] + k
  <2>. HIDE DEF A, O
  <2>1. A \in Seq(Seq(OutRec)) /\ Len(A) = N /\ Layout(A, O, off)
    BY <1>1, <1>4
  <2>. HIDE DEF N
  <2>2. \E i \in 1..Len(A) : \E k \in 1..Len(A[i]) : q = off[i] + k
    BY <2>1, LayoutLocate
  <2>. QED
    BY <2>1, <2>2
<1>8. \A i, k : Place(off, <<i, k>>) = off[i] + k /\ OutAt(<<i, k>>) = rob[i].outs[k]
  BY DEF Place, OutAt
<1>. HIDE DEF A, O, N
<1>9. ASSUME NEW a \in Output
      PROVE  /\ a[1] \in 1..N /\ a[2] \in 1..Len(A[a[1]]) /\ a = <<a[1], a[2]>>
             /\ Place(off, a) = off[a[1]] + a[2]
             /\ Place(off, a) \in 1..Len(O) /\ O[Place(off, a)] = OutAt(a)
             /\ \A j \in 1..(N + 1) : (j > a[1] => Place(off, a) <= off[j])
                                      /\ (j <= a[1] => off[j] < Place(off, a))
  <2>1. PICK i \in 1..N : \E k \in 1..Len(A[i]) : a = <<i, k>>
    BY <1>3
  <2>2. PICK k \in 1..Len(A[i]) : a = <<i, k>>
    BY <2>1
  <2>3. a[1] = i /\ a[2] = k
    BY <2>2
  <2>4. Place(off, a) = off[i] + k /\ OutAt(a) = A[i][k]
    BY <1>1, <1>8, <2>2
  <2>. QED
    BY <1>6, <2>2, <2>3, <2>4
<1>10. ASSUME NEW a \in Output, NEW b \in Output, a[1] < b[1]  PROVE Place(off, a) < Place(off, b)
  <2>1. b[1] \in 1..(N + 1) /\ a[1] \in 1..N /\ b[1] <= b[1]
    BY <1>1, <1>9
  <2>2. Place(off, a) <= off[b[1]] /\ off[b[1]] < Place(off, b)
    BY <1>9, <1>10, <2>1
  <2>3. off[b[1]] \in Nat /\ Place(off, a) \in Nat /\ Place(off, b) \in Nat
    BY <1>5, <1>9, <2>1
  <2>. QED
    BY <2>2, <2>3
<1>11. ASSUME NEW a \in Output, NEW b \in Output, a[1] = b[1]
       PROVE  Place(off, a) < Place(off, b) <=> a[2] < b[2]
  <2>1. /\ Place(off, a) = off[a[1]] + a[2] /\ Place(off, b) = off[a[1]] + b[2]
        /\ a[2] \in Int /\ b[2] \in Int
    BY <1>1, <1>2, <1>9, <1>11
  <2>2. off[a[1]] \in Nat
    <3>1. a[1] \in 1..(N + 1)
      BY <1>1, <1>9
    <3>. QED
      BY <1>5, <3>1
  <2>. QED
    BY <2>1, <2>2
<1>12. ASSUME NEW a \in Output, NEW b \in Output
       PROVE  /\ Place(off, a) = Place(off, b) => a = b
              /\ Place(off, a) < Place(off, b) <=> a[1] < b[1] \/ (a[1] = b[1] /\ a[2] < b[2])
  <2>1. a[1] \in Int /\ b[1] \in Int /\ Place(off, a) \in Int /\ Place(off, b) \in Int
    BY <1>1, <1>5, <1>9
  <2>2. CASE a[1] < b[1]
    BY <1>10, <2>1, <2>2
  <2>3. CASE b[1] < a[1]
    BY <1>10, <2>1, <2>3
  <2>4. CASE a[1] = b[1]
    <3>1. /\ Place(off, a) < Place(off, b) <=> a[2] < b[2]
          /\ Place(off, b) < Place(off, a) <=> b[2] < a[2]
      BY <1>11, <2>4
    <3>2. a[2] \in Int /\ b[2] \in Int
      BY <1>9
    <3>3. Place(off, a) = Place(off, b) => a[2] = b[2]
      BY <2>1, <3>1, <3>2
    <3>4. a = <<a[1], a[2]>> /\ b = <<b[1], b[2]>>
      BY <1>9
    <3>. QED
      BY <2>1, <2>4, <3>1, <3>3, <3>4
  <2>. QED
    BY <2>1, <2>2, <2>3, <2>4
<1>13. ASSUME NEW q \in 1..Len(O)  PROVE \E a \in Output : Place(off, a) = q
  <2>1. PICK i \in 1..N : \E k \in 1..Len(A[i]) : q = off[i] + k
    BY <1>7
  <2>2. PICK k \in 1..Len(A[i]) : q = off[i] + k
    BY <2>1
  <2>3. <<i, k>> \in Output /\ Place(off, <<i, k>>) = q
    BY <1>3, <1>8, <2>2
  <2>. QED
    BY <2>3
<1>14. ASSUME NEW a \in Output, NEW i \in 1..(N + 1)  PROVE Place(off, a) <= off[i] <=> a[1] < i
  <2>1. a[1] \in Int /\ i \in Int /\ off[i] \in Int /\ Place(off, a) \in Int
    BY <1>1, <1>5, <1>9
  <2>2. i > a[1] => Place(off, a) <= off[i]
    BY <1>9
  <2>3. i <= a[1] => off[i] < Place(off, a)
    BY <1>9
  <2>. QED
    BY <2>1, <2>2, <2>3
<1>15. \A a \in Output : a[1] \in Entry /\ a[2] \in Outs(a[1])
  BY <1>2, <1>9 DEF Entry, N
<1>. QED
  BY <1>9, <1>12, <1>13, <1>14, <1>15 DEF O, N

LEMMA HeldIs ==
    ASSUME rob \in Seq(Uop), NEW off, Layout(OutsAt(rob), OutsOf(rob), off), NEW p
    PROVE  Held(rob, p) = Cardinality({a \in Output : OutAt(a).old = p})
<1>. DEFINE O == OutsOf(rob)
            T == 1..Len(O)
            S == Output
            h == [a \in S |-> Place(off, a)]
            f == [a \in S |-> OutAt(a).old]
            g == Olds(O)
<1>1. /\ \A a \in S : Place(off, a) \in T /\ O[Place(off, a)] = OutAt(a)
      /\ \A q \in T : \E a \in S : Place(off, a) = q
      /\ \A a, b \in S : Place(off, a) = Place(off, b) => a = b
  BY Places
<1>2. O \in Seq(OutRec) /\ Len(O) \in Nat
  BY OutsOfType
<1>3. \A q \in T : g[q] = O[q].old
  BY <1>2, PhsAndOlds
<1>. HIDE DEF S
<1>4. {a \in S : OutAt(a).old = p} = {a \in S : f[a] = p}
  OBVIOUS
<1>5. IsFiniteSet(T)
  BY <1>2, IntervalFinite
<1>. HIDE DEF O, T, g
<1>6. h \in [S -> T] /\ \A a \in S : h[a] = Place(off, a) /\ f[a] = OutAt(a).old
  BY <1>1
<1>. HIDE DEF h, f
<1>7. \A x, y \in S : h[x] = h[y] => x = y
  BY <1>1, <1>6
<1>8. \A y \in T : \E x \in S : h[x] = y
  BY <1>1, <1>6
<1>9. \A x \in S : g[h[x]] = f[x]
  BY <1>1, <1>3, <1>6
<1>10. IsFiniteSet(S)
  BY <1>5, <1>6, <1>7, Fewer
<1>11. Moves(h, f, S, g, T)
  BY <1>6, <1>7, <1>8, <1>9 DEF Moves
<1>12. Count(g, T, p) = Count(f, S, p)
  BY <1>10, <1>11, CountMoved
<1>13. Held(rob, p) = Count(g, T, p)
  BY DEF Held, g, T, O
<1>14. Count(f, S, p) = Cardinality({a \in S : OutAt(a).old = p})
  BY <1>4 DEF Count
<1>. QED
  BY <1>12, <1>13, <1>14 DEF S

LEMMA RegistersFollow == PipelineInv => RegistersExact
<1>. SUFFICES ASSUME PipelineInv PROVE RegistersExact
  OBVIOUS
<1>1. rob \in Seq(Uop) /\ Registers
  BY DEF PipelineInv, Typing
<1>2. /\ busy \in [Phreg -> Nat] /\ FreeExact(busy, free) /\ count = Size - Len(free) /\ Recorded(rob, rat)
      /\ \A p \in Phreg : busy[p] = Uses(rat, p) + Held(rob, p)
  BY <1>1 DEF Registers
<1>3. PICK off : Layout(OutsAt(rob), OutsOf(rob), off)
  BY <1>1, OutsOfLayout
<1>4. ASSUME NEW p \in Phreg
      PROVE  busy[p] = Cardinality({l \in Loreg : rat[l] = p}) + Cardinality({a \in Output : OutAt(a).old = p})
  <2>1. Held(rob, p) = Cardinality({a \in Output : OutAt(a).old = p})
    BY <1>1, <1>3, HeldIs
  <2>2. Uses(rat, p) = Cardinality({l \in Loreg : rat[l] = p})
    BY DEF Uses, Count
  <2>3. busy[p] = Uses(rat, p) + Held(rob, p)
    BY <1>2
  <2>. QED
    BY <2>1, <2>2, <2>3
<1>5. /\ free \in Seq(Phreg) /\ \A p \in Phreg : (\E j \in 1..Len(free) : free[j] = p) <=> busy[p] = 0
      /\ \A j, k \in 1..Len(free) : free[j] = free[k] => j = k
  BY <1>2 DEF FreeExact
<1>6. DOMAIN free = 1..Len(free) /\ \A j \in 1..Len(free) : free[j] \in Phreg
  BY <1>5
<1>7. ToSet(free) = {p \in Phreg : busy[p] = 0}
  BY <1>5, <1>6 DEF ToSet
<1>8. \A j, k \in DOMAIN free : free[j] = free[k] => j = k
  BY <1>5, <1>6
<1>. QED
  BY <1>2, <1>4, <1>7, <1>8 DEF RegistersExact

LEMMA ProducersFollow == PipelineInv => PendingHasProducer
<1>. SUFFICES ASSUME PipelineInv, NEW p \in Phreg, pending[p]
              PROVE  busy[p] > 0 /\ \E a \in Output : OutAt(a).ph = p /\ rob[a[1]].state # "completed"
  BY DEF PendingHasProducer
<1>1. rob \in Seq(Uop) /\ Registers /\ ProducedBy(rob, pending)
  BY DEF PipelineInv, Typing
<1>2. Recorded(rob, rat) /\ busy[p] = Uses(rat, p) + Held(rob, p)
  BY <1>1 DEF Registers
<1>3. PICK i \in 1..Len(rob) : Produces(rob[i], p)
  BY <1>1 DEF ProducedBy
<1>4. PICK k \in 1..Len(rob[i].outs) : rob[i].outs[k].ph = p
  BY <1>3 DEF Produces
<1>. DEFINE a == <<i, k>>
<1>5. a \in Output /\ a[1] = i /\ OutAt(a) = rob[i].outs[k]
  <2>1. rob[i] \in Uop
    BY <1>1, OutsAtType
  <2>2. DOMAIN rob[i].outs = 1..Len(rob[i].outs)
    BY <2>1, UopTypes
  <2>3. i \in Entry /\ k \in Outs(i)
    BY <2>2 DEF Entry, Outs
  <2>4. a \in Output
    BY <2>3 DEF Output
  <2>. QED
    BY <2>4 DEF OutAt
<1>6. OutAt(a).ph = p /\ rob[a[1]].state # "completed"
  BY <1>3, <1>4, <1>5 DEF Produces
<1>7. busy[p] > 0
  <2>1. \E off, maps : History(rob, rat, off, maps)
    BY <1>2 DEF Recorded
  <2>2. PICK off, maps : History(rob, rat, off, maps)
    BY <2>1
  <2>. DEFINE O == OutsOf(rob)
              q == Place(off, a)
  <2>3. Layout(OutsAt(rob), O, off) /\ Chained(O, maps) /\ maps[Len(O) + 1] = rat /\ O \in Seq(OutRec)
    BY <1>1, <2>2, OutsOfType DEF History
  <2>. HIDE DEF a
  <2>4. q \in 1..Len(O) /\ O[q] = OutAt(a)
    BY <1>1, <1>5, <2>3, Places
  <2>. HIDE DEF q, O
  <2>5. Count(maps[Len(O) + 1], Loreg, O[q].ph) > 0 \/ Count(Olds(O), 1..Len(O), O[q].ph) > 0
    BY <2>3, <2>4, OutputInUse
  <2>6. O[q].ph = p
    BY <1>6, <2>4
  <2>7. Uses(rat, p) > 0 \/ Held(rob, p) > 0
    BY <2>3, <2>5, <2>6 DEF Uses, Held, O
  <2>8. Uses(rat, p) \in Nat /\ Held(rob, p) \in Nat
    BY <1>1, UsesHeldType
  <2>. QED
    BY <1>2, <2>7, <2>8
<1>. HIDE DEF a
<1>. QED
  BY <1>5, <1>6, <1>7

\* Which of two outputs comes first; the first and the last of a set of them.
Precedes(a, b) == a[1] < b[1] \/ (a[1] = b[1] /\ a[2] < b[2])
Oldest(S) == CHOOSE a \in S : \A b \in S : ~ Precedes(b, a)
Youngest(S) == CHOOSE a \in S : \A b \in S : ~ Precedes(a, b)

LEMMA Extremes ==
    ASSUME rob \in Seq(Uop), NEW S \in SUBSET Output, S # {}
    PROVE  /\ Oldest(S) \in S /\ \A b \in S : ~ Precedes(b, Oldest(S))
           /\ Youngest(S) \in S /\ \A b \in S : ~ Precedes(Youngest(S), b)
<1>1. PICK off : Layout(OutsAt(rob), OutsOf(rob), off)
  BY OutsOfLayout
<1>. DEFINE n == Len(OutsOf(rob))
            T == {Place(off, a) : a \in S}
<1>2. n \in Nat
  BY OutsOfType
<1>3. /\ \A a \in Output : Place(off, a) \in 1..n
      /\ \A a, b \in Output : Place(off, a) < Place(off, b) <=> Precedes(a, b)
  BY <1>1, Places DEF Precedes
<1>. HIDE DEF n
<1>4. T \in SUBSET Nat /\ T \in SUBSET (0..n) /\ T # {}
  BY <1>2, <1>3
<1>5. \E a \in S : \A b \in S : ~ Precedes(b, a)
  <2>1. PICK x \in T : \A y \in T : x <= y
    <3>. HIDE DEF T
    <3>. QED
      BY <1>4, Least
  <2>2. PICK a \in S : x = Place(off, a)
    BY <2>1
  <2>3. ASSUME NEW b \in S  PROVE ~ Precedes(b, a)
    <3>1. Place(off, a) <= Place(off, b)
      BY <2>1, <2>2
    <3>2. Place(off, a) \in 1..n /\ Place(off, b) \in 1..n
      BY <1>3
    <3>3. ~ (Place(off, b) < Place(off, a))
      BY <1>2, <3>1, <3>2
    <3>. QED
      BY <1>3, <3>3
  <2>. QED
    BY <2>3
<1>6. \E a \in S : \A b \in S : ~ Precedes(a, b)
  <2>1. PICK x \in T : \A y \in T : y <= x
    <3>. HIDE DEF T
    <3>. QED
      BY <1>2, <1>4, Greatest
  <2>2. PICK a \in S : x = Place(off, a)
    BY <2>1
  <2>3. ASSUME NEW b \in S  PROVE ~ Precedes(a, b)
    <3>1. Place(off, b) <= Place(off, a)
      BY <2>1, <2>2
    <3>2. Place(off, a) \in 1..n /\ Place(off, b) \in 1..n
      BY <1>3
    <3>3. ~ (Place(off, a) < Place(off, b))
      BY <1>2, <3>1, <3>2
    <3>. QED
      BY <1>3, <3>3
  <2>. QED
    BY <2>3
<1>7. Oldest(S) \in S /\ \A b \in S : ~ Precedes(b, Oldest(S))
  BY <1>5 DEF Oldest
<1>8. Youngest(S) \in S /\ \A b \in S : ~ Precedes(Youngest(S), b)
  BY <1>6 DEF Youngest
<1>. QED
  BY <1>7, <1>8

\* The outputs of the uops before n that write l; the mapping of l when all of
\* them commit; and its mapping before uop n.
Writers(l, n) == {a \in Output : OutAt(a).lo = l /\ a[1] < n}
Committed(l) ==
    LET all == Writers(l, Len(rob) + 1)
    IN  IF all = {} THEN rat[l] ELSE OutAt(Oldest(all)).old
MappedAt(l, n) ==
    IF Writers(l, n) = {} THEN Committed(l) ELSE OutAt(Youngest(Writers(l, n))).ph

LEMMA HistoryTypes ==
    ASSUME rob \in Seq(Uop), NEW off, NEW maps, History(rob, rat, off, maps)
    PROVE  /\ OutsOf(rob) \in Seq(OutRec) /\ Len(OutsOf(rob)) \in Nat /\ Len(rob) \in Nat
           /\ Layout(OutsAt(rob), OutsOf(rob), off) /\ Chained(OutsOf(rob), maps)
           /\ maps[Len(OutsOf(rob)) + 1] = rat
           /\ \A n \in 1..(Len(rob) + 1) : off[n] \in 0..Len(OutsOf(rob))
           /\ off[Len(rob) + 1] = Len(OutsOf(rob))
<1>. DEFINE N == Len(rob)
            O == OutsOf(rob)
            A == OutsAt(rob)
<1>1. /\ N \in Nat /\ A \in Seq(Seq(OutRec)) /\ Len(A) = N
  BY OutsAtType
<1>2. Layout(A, O, off) /\ Chained(O, maps) /\ maps[Len(O) + 1] = rat
  BY DEF History
<1>3. O \in Seq(OutRec) /\ Len(O) \in Nat
  BY OutsOfType
<1>. HIDE DEF N, O, A
<1>4. off[N + 1] = Len(O)
  BY <1>1, <1>2 DEF Layout
<1>5. \A n \in 1..(N + 1) : off[n] \in Nat
  BY <1>1, <1>2, LayoutLengths
<1>6. ASSUME NEW n \in 1..(N + 1)  PROVE off[n] <= off[N + 1]
  <2>1. N + 1 \in n..(Len(A) + 1) /\ n \in 1..(Len(A) + 1)
    BY <1>1
  <2>. QED
    BY <1>1, <1>2, <2>1, LayoutMonotone
<1>7. \A n \in 1..(N + 1) : off[n] \in 0..Len(O)
  BY <1>3, <1>4, <1>5, <1>6
<1>. QED
  BY <1>1, <1>2, <1>3, <1>4, <1>7 DEF N, O, A

\* What the committed mapping and the mapping before uop n are in the history.
LEMMA CommittedIs ==
    ASSUME rob \in Seq(Uop), NEW off, NEW maps, History(rob, rat, off, maps), NEW l \in Loreg
    PROVE  Committed(l) = maps[1][l]
<1>. DEFINE O == OutsOf(rob)
            all == Writers(l, Len(rob) + 1)
            L == Len(O)
<1>1. /\ O \in Seq(OutRec) /\ L \in Nat /\ Len(rob) \in Nat
      /\ Layout(OutsAt(rob), O, off) /\ Chained(O, maps) /\ maps[L + 1] = rat
  BY HistoryTypes
<1>2. /\ \A a \in Output : /\ Place(off, a) \in 1..L /\ O[Place(off, a)] = OutAt(a)
                           /\ a[1] \in Entry
      /\ \A q \in 1..L : \E a \in Output : Place(off, a) = q
      /\ \A a, b \in Output : Place(off, a) < Place(off, b) <=> Precedes(a, b)
  BY <1>1, Places DEF Precedes
<1>3. \A a \in Output : a \in all <=> O[Place(off, a)].lo = l
  BY <1>1, <1>2 DEF Writers, Entry
<1>4. all \in SUBSET Output
  BY DEF Writers
<1>5. Committed(l) = IF all = {} THEN rat[l] ELSE OutAt(Oldest(all)).old
  BY DEF Committed
<1>. HIDE DEF O, all, L
<1>6. CASE all = {}
  <2>1. ASSUME NEW q \in 1..L  PROVE O[q].lo # l
    <3>1. PICK a \in Output : Place(off, a) = q
      BY <1>2
    <3>2. a \notin all
      BY <1>6
    <3>. QED
      BY <1>3, <3>1, <3>2
  <2>2. 1 \in 1..(L + 1) /\ L + 1 \in 1..(L + 1) /\ \A q \in 1..((L + 1) - 1) : O[q].lo # l
    BY <1>1, <2>1
  <2>3. maps[L + 1][l] = maps[1][l]
    BY <1>1, <2>2, Unwritten DEF L
  <2>. QED
    BY <1>1, <1>5, <1>6, <2>3
<1>7. CASE all # {}
  <2>. DEFINE f == Oldest(all)
              z == Place(off, f)
  <2>1. f \in all /\ \A b \in all : ~ Precedes(b, f)
    BY <1>4, <1>7, Extremes
  <2>. HIDE DEF f
  <2>2. f \in Output /\ z \in 1..L /\ O[z] = OutAt(f) /\ O[z].lo = l
    BY <1>2, <1>3, <1>4, <2>1
  <2>3. ASSUME NEW q \in 1..(z - 1)  PROVE O[q].lo # l
    <3>1. q \in 1..L /\ q < z
      BY <1>1, <2>2
    <3>2. PICK a \in Output : Place(off, a) = q
      BY <1>2, <3>1
    <3>3. Precedes(a, f)
      BY <1>2, <2>2, <3>1, <3>2
    <3>4. a \notin all
      BY <2>1, <3>3
    <3>. QED
      BY <1>3, <3>2, <3>4
  <2>. HIDE DEF z
  <2>4. 1 \in 1..(L + 1) /\ z \in 1..(L + 1)
    BY <1>1, <2>2
  <2>5. maps[z][l] = maps[1][l]
    BY <1>1, <2>3, <2>4, Unwritten DEF L
  <2>6. O[z].old = maps[z][O[z].lo]
    BY <1>1, <2>2, ChainStep DEF L
  <2>. QED
    BY <1>5, <1>7, <2>2, <2>5, <2>6 DEF f
<1>. QED
  BY <1>6, <1>7

LEMMA MappedAtIs ==
    ASSUME rob \in Seq(Uop), NEW off, NEW maps, History(rob, rat, off, maps),
           NEW l \in Loreg, NEW n \in 1..(Len(rob) + 1)
    PROVE  MappedAt(l, n) = maps[off[n] + 1][l]
<1>. DEFINE O == OutsOf(rob)
            S == Writers(l, n)
            L == Len(O)
            m == off[n]
<1>1. /\ O \in Seq(OutRec) /\ L \in Nat /\ Len(rob) \in Nat /\ m \in 0..L
      /\ Layout(OutsAt(rob), O, off) /\ Chained(O, maps)
  BY HistoryTypes
<1>2. /\ \A a \in Output : /\ Place(off, a) \in 1..L /\ O[Place(off, a)] = OutAt(a)
                           /\ Place(off, a) <= m <=> a[1] < n
      /\ \A q \in 1..L : \E a \in Output : Place(off, a) = q
      /\ \A a, b \in Output : Place(off, a) < Place(off, b) <=> Precedes(a, b)
  BY <1>1, Places DEF Precedes
<1>3. \A a \in Output : a \in S <=> O[Place(off, a)].lo = l /\ Place(off, a) <= m
  BY <1>2 DEF Writers
<1>4. S \in SUBSET Output
  BY DEF Writers
<1>5. MappedAt(l, n) = IF S = {} THEN Committed(l) ELSE OutAt(Youngest(S)).ph
  BY DEF MappedAt
<1>6. Committed(l) = maps[1][l]
  BY CommittedIs
<1>. HIDE DEF O, S, L, m
<1>7. CASE S = {}
  <2>1. ASSUME NEW q \in 1..m  PROVE O[q].lo # l
    <3>0. q \in 1..L /\ q <= m
      BY <1>1
    <3>1. PICK a \in Output : Place(off, a) = q
      BY <1>2, <3>0
    <3>2. a \notin S
      BY <1>7
    <3>. QED
      BY <1>3, <3>0, <3>1, <3>2
  <2>2. 1 \in 1..(L + 1) /\ m + 1 \in 1..(L + 1) /\ \A q \in 1..((m + 1) - 1) : O[q].lo # l
    BY <1>1, <2>1
  <2>3. maps[m + 1][l] = maps[1][l]
    BY <1>1, <2>2, Unwritten DEF L
  <2>. QED
    BY <1>5, <1>6, <1>7, <2>3 DEF m
<1>8. CASE S # {}
  <2>. DEFINE f == Youngest(S)
              z == Place(off, f)
  <2>1. f \in S /\ \A b \in S : ~ Precedes(f, b)
    BY <1>4, <1>8, Extremes
  <2>. HIDE DEF f
  <2>2. f \in Output /\ z \in 1..L /\ O[z] = OutAt(f) /\ O[z].lo = l /\ z <= m
    BY <1>2, <1>3, <1>4, <2>1
  <2>3. ASSUME NEW q \in (z + 1)..m  PROVE O[q].lo # l
    <3>1. q \in 1..L /\ z < q /\ q <= m
      BY <1>1, <2>2
    <3>2. PICK a \in Output : Place(off, a) = q
      BY <1>2, <3>1
    <3>3. Precedes(f, a)
      BY <1>2, <2>2, <3>1, <3>2
    <3>4. a \notin S
      BY <2>1, <3>3
    <3>. QED
      BY <1>3, <3>1, <3>2, <3>4
  <2>. HIDE DEF z
  <2>4. m + 1 \in (z + 1)..(L + 1) /\ \A q \in (z + 1)..((m + 1) - 1) : O[q].lo # O[z].lo
    BY <1>1, <2>2, <2>3
  <2>5. maps[m + 1][O[z].lo] = O[z].ph
    BY <1>1, <2>2, <2>4, LastWriter DEF L
  <2>. QED
    BY <1>5, <1>8, <2>2, <2>5 DEF f, m
<1>. QED
  BY <1>7, <1>8

LEMMA RenamingFollows == PipelineInv => RenamingExact
<1>. SUFFICES ASSUME PipelineInv PROVE RenamingExact
  OBVIOUS
<1>1. rob \in Seq(Uop) /\ Registers
  BY DEF PipelineInv, Typing
<1>2. \E off, maps : History(rob, rat, off, maps)
  BY <1>1 DEF Registers, Recorded
<1>3. PICK off, maps : History(rob, rat, off, maps)
  BY <1>2
<1>4. /\ Len(rob) \in Nat /\ off[Len(rob) + 1] = Len(OutsOf(rob))
      /\ maps[Len(OutsOf(rob)) + 1] = rat
  BY <1>1, <1>3, HistoryTypes
<1>5. ASSUME NEW l \in Loreg  PROVE rat[l] = MappedAt(l, Len(rob) + 1)
  <2>1. Len(rob) + 1 \in 1..(Len(rob) + 1)
    BY <1>4
  <2>2. MappedAt(l, Len(rob) + 1) = maps[off[Len(rob) + 1] + 1][l]
    BY <1>1, <1>3, <2>1, MappedAtIs
  <2>. QED
    BY <1>4, <2>2
<1>6. ASSUME NEW i \in Entry, NEW l \in Loreg, l \in DOMAIN rob[i].ins
      PROVE  rob[i].ins[l] = MappedAt(l, i)
  <2>1. i \in 1..Len(rob) /\ i \in 1..(Len(rob) + 1)
    BY <1>4 DEF Entry
  <2>2. rob[i].ins[l] = maps[off[i] + 1][l]
    BY <1>3, <1>6, <2>1 DEF History
  <2>3. MappedAt(l, i) = maps[off[i] + 1][l]
    BY <1>1, <1>3, <2>1, MappedAtIs
  <2>. QED
    BY <2>2, <2>3
<1>. QED
  BY <1>5, <1>6, Zenon DEF RenamingExact, MappedAt, Committed, Writers, Oldest, Youngest, Precedes

\* Every stage leaves values of the right type and keeps the queues, the store
\* queue and the registers within their sizes.
THEOREM PipelineTypeOK == Spec => []TypeOK
BY PipelineInvariant, TypesFollow, PTL

\* x86_reg_file_rename, x86_reg_file_undo and x86_reg_file_commit never lose a
\* physical register and never free one that is in use: the busy counters are
\* the mappings and the outputs that may have to be undone, and the free list
\* holds the registers whose counter is 0, once each.
THEOREM PipelineRegistersExact == Spec => []RegistersExact
BY PipelineInvariant, RegistersFollow, PTL

\* The mapping table is what the uops of the reorder buffer make of the committed
\* one, and each uop reads the register of the last uop before it that writes
\* its input, through any renaming, recovery and commit.
THEOREM PipelineRenamingExact == Spec => []RenamingExact
BY PipelineInvariant, RenamingFollows, PTL

\* A physical register that is pending is in use and the output of a uop of the
\* reorder buffer that has not completed: x86_cpu_recover leaves nothing waiting
\* for a uop that it squashed.
THEOREM PipelinePendingHasProducer == Spec => []PendingHasProducer
BY PipelineInvariant, ProducersFollow, PTL

=============================================================================
