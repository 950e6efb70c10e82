-------------------------- MODULE DirectoryProofs --------------------------
(* TLAPS proofs about Directory, for any nodes, sub-blocks and block sizes. *)
EXTENDS Directory, FiniteSetTheorems, TLAPS

\* Entries without the bounds of the counter, which follow from Sound.
Records == [owner : Nodes \cup {None}, sharer : SUBSET Nodes,
            num_sharers : Int]

\* One entry whose counter and owner agree with its bitmap.
Sound(e) ==
  /\ e \in Records
  /\ e.num_sharers = Cardinality(e.sharer)
  /\ e.owner # None => e.owner \in e.sharer

\* The sharers of an entry are finitely many, so their number is a natural.
LEMMA FiniteSharers ==
  ASSUME NEW e, Sound(e)
  PROVE  IsFiniteSet(e.sharer) /\ Cardinality(e.sharer) \in Nat
<1>1. e.sharer \subseteq Nodes
  BY DEF Sound, Records
<1> QED BY <1>1, DirectoryAssumption, FS_Subset, FS_CardinalityType

\* dir_entry_set_sharer keeps the counter exact and the owner a sharer.
LEMMA SetSharerSound ==
  ASSUME NEW e, Sound(e), NEW n \in Nodes
  PROVE  LET f == dir_entry_set_sharer(e, n)
         IN Sound(f) /\ f.sharer = e.sharer \cup {n} /\ f.owner = e.owner
<1>1. CASE n \in e.sharer
  BY <1>1 DEF dir_entry_set_sharer, Sound
<1>2. CASE n \notin e.sharer
  <2>1. Cardinality(e.sharer \cup {n}) = Cardinality(e.sharer) + 1
    BY <1>2, FiniteSharers, FS_AddElement
  <2> DEFINE f == [owner       |-> e.owner,
                   sharer      |-> e.sharer \cup {n},
                   num_sharers |-> e.num_sharers + 1]
  <2>2. e \in Records /\ e.num_sharers \in Int
    BY DEF Sound, Records
  <2>3. dir_entry_set_sharer(e, n) = f
    BY <1>2, <2>2 DEF dir_entry_set_sharer, Records
  <2>4. f \in Records
    BY <2>2 DEF Records
  <2>5. f.num_sharers = Cardinality(f.sharer)
    BY <2>1 DEF Sound
  <2>6. f.owner # None => f.owner \in f.sharer
    BY DEF Sound
  <2> QED BY <2>3, <2>4, <2>5, <2>6 DEF Sound
<1> QED BY <1>1, <1>2

\* Clearing a sharer together with its ownership keeps the entry sound.
LEMMA ForgetSound ==
  ASSUME NEW e, Sound(e), NEW n \in Nodes
  PROVE  Sound(Forget(e, n))
<1>1. CASE n \in e.sharer
  <2>1. Cardinality(e.sharer \ {n}) = Cardinality(e.sharer) - 1
    BY <1>1, FiniteSharers, FS_RemoveElement
  <2> DEFINE f == [owner       |-> IF e.owner = n THEN None ELSE e.owner,
                   sharer      |-> e.sharer \ {n},
                   num_sharers |-> e.num_sharers - 1]
  <2>2. e \in Records /\ e.num_sharers \in Int
    BY DEF Sound, Records
  <2>3. Forget(e, n) = f
    BY <1>1, <2>2
       DEF Forget, dir_entry_clear_sharer, dir_entry_set_owner, Records
  <2>4. f \in Records
    BY <2>2 DEF Records
  <2>5. f.num_sharers = Cardinality(f.sharer)
    BY <2>1 DEF Sound
  <2>6. f.owner # None => f.owner \in f.sharer
    BY DEF Sound
  <2> QED BY <2>3, <2>4, <2>5, <2>6 DEF Sound
<1>2. CASE n \notin e.sharer
  <2>1. e.owner # n
    BY <1>2, DirectoryAssumption DEF Sound
  <2> QED BY <1>2, <2>1 DEF Forget, dir_entry_clear_sharer
<1> QED BY <1>1, <1>2

\* Giving up the ownership keeps the entry sound.
LEMMA DisownSound ==
  ASSUME NEW e, Sound(e)
  PROVE  LET f == dir_entry_set_owner(e, None)
         IN Sound(f) /\ f.sharer = e.sharer
BY DEF dir_entry_set_owner, Sound, Records

\* A sharer may become the owner.
LEMMA OwnSound ==
  ASSUME NEW e, Sound(e), NEW n \in Nodes, n \in e.sharer
  PROVE  Sound(dir_entry_set_owner(e, n))
BY DEF dir_entry_set_owner, Sound, Records

\* After INVALIDATE for n nobody but n shares the way.
Spared == \A n \in Nodes, z \in SubBlocks :
            only = n => entry[z].sharer \subseteq {n}

\* The inductive invariant: SoleSharer speaks of the counter, which is known
\* through the bitmap, so the invariant is about the bitmap.
IInv ==
  /\ DOMAIN entry = SubBlocks /\ entry = [z \in SubBlocks |-> entry[z]]
  /\ \A z \in SubBlocks : Sound(entry[z])
  /\ only \in Nodes \cup {None}
  /\ Spared

\* The entries that dir_create makes satisfy the invariant.
LEMMA InitInv == Init => IInv
<1> SUFFICES ASSUME Init PROVE IInv
  OBVIOUS
<1>1. Sound([owner |-> None, sharer |-> {}, num_sharers |-> 0])
  BY FS_EmptySet DEF Sound, Records
<1> QED BY <1>1 DEF Init, IInv, Spared

\* READ_REQUEST_UPDOWN_FINISH keeps every entry of the way sound.
LEMMA ReadEntrySound ==
  ASSUME IInv, NEW n \in Nodes, NEW g, NEW below, NEW retain,
         NEW z \in SubBlocks
  PROVE  Sound(ReadEntry(n, g, below, retain)[z])
<1> DEFINE kept(y)  == IF retain \/ entry[y].owner = n THEN entry[y]
                       ELSE dir_entry_set_owner(entry[y], None)
           added(y) == IF y \in g THEN dir_entry_set_sharer(kept(y), n)
                       ELSE kept(y)
<1>1. Sound(kept(z))
  BY DisownSound DEF IInv
<1>2. Sound(added(z)) /\ (z \in g => n \in added(z).sharer)
  BY <1>1, SetSharerSound
<1>3. \/ ReadEntry(n, g, below, retain)[z] = added(z)
      \/ /\ z \in g
         /\ ReadEntry(n, g, below, retain)[z] = dir_entry_set_owner(added(z), n)
  BY DEF ReadEntry
<1> HIDE DEF added
<1> QED BY <1>2, <1>3, OwnSound

\* INVALIDATE keeps the entries sound and leaves nobody but the spared node.
LEMMA InvalidateSound ==
  ASSUME IInv, NEW except \in Nodes \cup {None}, Invalidate(except),
         NEW z \in SubBlocks
  PROVE  Sound(entry'[z]) /\ entry'[z].sharer \subseteq {except}
<1> DEFINE e == entry[z]
           outs == e.sharer \ {except}
<1>1. entry'[z] = [owner       |-> IF e.owner \in outs THEN None ELSE e.owner,
                   sharer      |-> e.sharer \ outs,
                   num_sharers |-> e.num_sharers - Cardinality(outs)]
  BY DEF Invalidate
<1>2. Sound(e)
  BY DEF IInv
<1>3. IsFiniteSet(e.sharer) /\ Cardinality(e.sharer) \in Nat
  BY <1>2, FiniteSharers
<1>4. outs \subseteq e.sharer /\ IsFiniteSet(outs) /\ Cardinality(outs) \in Nat
  BY <1>3, FS_Subset, FS_CardinalityType
<1>5. Cardinality(e.sharer \ outs) = Cardinality(e.sharer) - Cardinality(outs)
  <2>1. e.sharer \cap outs = outs
    OBVIOUS
  <2> QED BY <1>3, <2>1, FS_Difference
<1>6. e.sharer \ outs \subseteq {except}
  OBVIOUS
<1> HIDE DEF e
<1>7. e.owner # None /\ e.owner \notin outs => e.owner \in e.sharer \ outs
  BY <1>2 DEF Sound
<1>8. /\ e.owner \in Nodes \cup {None} /\ e.sharer \in SUBSET Nodes
      /\ e.num_sharers = Cardinality(e.sharer)
  BY <1>2 DEF Sound, Records
<1> HIDE DEF outs
<1>9. Sound([owner       |-> IF e.owner \in outs THEN None ELSE e.owner,
             sharer      |-> e.sharer \ outs,
             num_sharers |-> e.num_sharers - Cardinality(outs)])
  BY <1>3, <1>4, <1>5, <1>7, <1>8 DEF Sound, Records
<1> QED BY <1>1, <1>6, <1>9

\* Every handler that changes the entries of a way keeps the invariant.
LEMMA NextInv == IInv /\ [Next]_vars => IInv'
<1> SUFFICES ASSUME IInv, [Next]_vars PROVE IInv'
  OBVIOUS
<1>1. ASSUME NEW n \in Nodes, NEW g, NEW below, NEW retain,
             ReadGrant(n, g, below, retain)
      PROVE  IInv'
  <2>1. entry' = ReadEntry(n, g, below, retain) /\ only' = None
    BY <1>1 DEF ReadGrant
  <2>2. \A z \in SubBlocks : Sound(entry'[z])
    BY <2>1, ReadEntrySound
  <2>3. DOMAIN entry' = SubBlocks /\ entry' = [z \in SubBlocks |-> entry'[z]]
    BY <2>1 DEF ReadEntry
  <2> QED BY <2>1, <2>2, <2>3, DirectoryAssumption DEF IInv, Spared
<1>2. ASSUME NEW n \in Nodes, NEW g, WriteGrant(n, g)
      PROVE  IInv'
  <2>1. /\ only' = None
        /\ entry' = [z \in SubBlocks |->
             IF z \in g
             THEN dir_entry_set_owner(dir_entry_set_sharer(entry[z], n), n)
             ELSE entry[z]]
    BY <1>2 DEF WriteGrant
  <2>2. ASSUME NEW z \in SubBlocks PROVE Sound(entry'[z])
    <3> DEFINE f == dir_entry_set_sharer(entry[z], n)
    <3>1. Sound(entry[z])
      BY DEF IInv
    <3>2. Sound(f) /\ n \in f.sharer
      BY <3>1, SetSharerSound
    <3> HIDE DEF f
    <3>3. Sound(dir_entry_set_owner(f, n))
      BY <3>2, OwnSound
    <3> QED BY <2>1, <3>1, <3>3 DEF f
  <2> QED BY <2>1, <2>2, DirectoryAssumption DEF IInv, Spared
<1>3. ASSUME NEW n \in Nodes, NEW g, EvictProcess(n, g)
      PROVE  IInv'
  BY <1>3, ForgetSound, DirectoryAssumption DEF EvictProcess, IInv, Spared
<1>4. ASSUME NEW n \in Nodes \cup {None}, Invalidate(n)
      PROVE  IInv'
  <2>1. \A z \in SubBlocks : Sound(entry'[z]) /\ entry'[z].sharer \subseteq {n}
    BY <1>4, InvalidateSound
  <2>2. DOMAIN entry' = SubBlocks /\ entry' = [z \in SubBlocks |-> entry'[z]]
    BY <1>4 DEF Invalidate
  <2>3. only' = n
    BY <1>4 DEF Invalidate
  <2> QED BY <2>1, <2>2, <2>3 DEF IInv, Spared
<1>5. ASSUME WriteError PROVE IInv'
  BY <1>5, DirectoryAssumption DEF WriteError, IInv, Spared
<1>6. ASSUME DownupFinish PROVE IInv'
  BY <1>6, DisownSound, DirectoryAssumption DEF DownupFinish, IInv, Spared
<1>7. ASSUME UNCHANGED vars PROVE IInv'
  BY <1>7 DEF vars, IInv, Spared
<1> QED BY <1>1, <1>2, <1>3, <1>4, <1>5, <1>6, <1>7 DEF Next

\* The invariant is strong enough for each of the four properties.
LEMMA InvImplies == IInv => TypeOK /\ CountExact /\ OwnerIsSharer /\ SoleSharer
<1> SUFFICES ASSUME IInv PROVE TypeOK /\ CountExact /\ OwnerIsSharer /\ SoleSharer
  OBVIOUS
<1>0. TypeOK
  <2>1. ASSUME NEW z \in SubBlocks PROVE entry[z] \in Entries
    <3>1. Sound(entry[z]) /\ entry[z].sharer \subseteq Nodes
      BY DEF IInv, Sound, Records
    <3>2. /\ Cardinality(entry[z].sharer) \in Nat /\ Cardinality(Nodes) \in Nat
          /\ Cardinality(entry[z].sharer) <= Cardinality(Nodes)
      BY <3>1, DirectoryAssumption, FS_Subset, FS_CardinalityType
    <3> QED BY <3>1, <3>2 DEF Sound, Records, Entries
  <2> QED BY <2>1 DEF IInv, TypeOK
<1>1. CountExact /\ OwnerIsSharer
  BY DEF IInv, Sound, CountExact, OwnerIsSharer
<1>2. SoleSharer
  <2> SUFFICES ASSUME NEW n \in Nodes, NEW z \in SubBlocks, only = n
               PROVE  dir_entry_set_sharer(entry[z], n).num_sharers = 1
    BY DEF SoleSharer
  <2> DEFINE f == dir_entry_set_sharer(entry[z], n)
  <2>1. Sound(entry[z]) /\ entry[z].sharer \subseteq {n}
    BY DEF IInv, Spared
  <2>2. Sound(f) /\ f.sharer = entry[z].sharer \cup {n}
    BY <2>1, SetSharerSound
  <2> HIDE DEF f
  <2>3. f.sharer = {n}
    BY <2>1, <2>2
  <2>4. f.num_sharers = Cardinality({n})
    BY <2>2, <2>3 DEF Sound
  <2> QED BY <2>4, FS_Singleton DEF f
<1> QED BY <1>0, <1>1, <1>2

\* The entries of a way keep their types, whatever the handlers do to them.
THEOREM TypeCorrect == Spec => []TypeOK
BY InitInv, NextInv, InvImplies, PTL DEF Spec

\* num_sharers is the number of sharers in the bitmap in every state.
THEOREM CountIsExact == Spec => []CountExact
BY InitInv, NextInv, InvImplies, PTL DEF Spec

\* Every recorded owner is a recorded sharer.
THEOREM OwnerIsAlwaysSharer == Spec => []OwnerIsSharer
BY InitInv, NextInv, InvImplies, PTL DEF Spec

\* The assertion of WRITE_REQUEST_UPDOWN_FINISH on num_sharers never fails.
THEOREM WriteGrantAssertion == Spec => []SoleSharer
BY InitInv, NextInv, InvImplies, PTL DEF Spec
=============================================================================
