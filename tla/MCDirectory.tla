---------------------------- MODULE MCDirectory ----------------------------
(* An instance of Directory for TLC. *)
EXTENDS Directory

CONSTANTS a, b, c

\* Modules a and b have blocks of one sub-block, c has blocks of two.
TwoSizes == [n \in Nodes |-> IF n = c THEN {{1, 2}} ELSE {{1}, {2}}]
=============================================================================
