------------------------------ MODULE MCNmoesi ------------------------------
(* Hierarchies of Nmoesi for TLC. *)
EXTENDS Nmoesi, TLC

CONSTANTS L1a, L1b, L1c, L2a, L2b, X, Y, Z

\* Two or three first-level caches above main memory.
FlatLow   == [m \in Cores |-> MM]

\* Two first-level caches above one second-level cache.
SharedLow == [m \in {L1a, L1b, L2a} |-> IF m = L2a THEN MM ELSE L2a]

\* Two first-level caches, each above its own second-level cache.
SplitLow  == [m \in {L1a, L1b, L2a, L2b} |-> CASE m = L1a -> L2a
                                                [] m = L1b -> L2b
                                                [] OTHER   -> MM]

\* The first-level caches of the first two hierarchies are interchangeable,
\* and so are the blocks.
Alike == Permutations(Cores) \cup Permutations(Blocks)

\* Every core may issue any access at any time.
Anything == [i \in 1..MaxAccesses |-> Cores \X {"load", "store"} \X Blocks]

\* A cache that owns a block others have read stores to it again, and meets
\* the load of a third one.
OwnerRace == <<{<<L1a, "store", X>>}, {<<L1b, "load", X>>},
               {<<L1a, "store", X>>}, {<<L1c, "load", X>>}>>

\* A cache reads a block that a cache under another second level reads, then
\* loses it and reads it again.
Reread == <<{<<L1a, "load", X>>}, {<<L1b, "load", X>>},
            {<<L1a, "load", Y>>}, {<<L1a, "load", X>>}>>

\* A block is stored to, and then its place below is taken by another one.
StoreAndEvict == <<{<<L1a, "store", X>>}, {<<L1b, "load", Y>>}>>

\* One core, one block.
ThreeStores == <<{<<L1a, "store", X>>}, {<<L1a, "store", X>>},
                 {<<L1a, "store", X>>}>>

\* One way everywhere, two below the first level, or two in the first level.
OneWay    == [m \in Mods |-> 1]
TwoBelow  == [m \in Mods |-> IF m \in Cores THEN 1 ELSE 2]
TwoAbove  == [m \in Mods |-> IF m \in Cores THEN 2 ELSE 1]
=============================================================================
