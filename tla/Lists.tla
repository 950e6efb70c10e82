-------------------------------- MODULE Lists --------------------------------
(***************************************************************************)
(* Filtering of lists, as a recursive function: proofs can unfold it, where*)
(* SelectSeq is opaque to the provers.                                     *)
(***************************************************************************)
EXTENDS Naturals, Sequences

\* The elements of s that are in S, in order.
Among(s, S) ==
    LET some[k \in 0..Len(s)] ==
            IF k = 0 THEN <<>>
            ELSE IF s[k] \in S THEN Append(some[k-1], s[k]) ELSE some[k-1]
    IN  some[Len(s)]
=============================================================================
