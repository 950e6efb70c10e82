----------------------------- MODULE MCDirLock -----------------------------
(* Instances of DirLock for TLC. *)
EXTENDS DirLock

\* Four accesses; the third one is also there as a second stack of the same
\* access, and the last one is a non-blocking request.
SomeStacks   == {<<1>>, <<2>>, <<3>>, <<3, 1>>, <<4>>}
SomeBlocking == SomeStacks \ {<<4>>}
=============================================================================
