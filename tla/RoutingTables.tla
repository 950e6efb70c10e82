---------------------------- MODULE RoutingTables ----------------------------
(***************************************************************************)
(* What a routing table means, without the algorithms that fill it.  A     *)
(* table maps a pair of nodes to its cost, its next node and its output    *)
(* buffer; a link (a pair of nodes) stands for its output buffer.          *)
(***************************************************************************)
EXTENDS Naturals, Sequences, FiniteSets, SequencesExt

CONSTANTS Nodes,   \* net->node_list
          Nil

ASSUME RoutingAssumption ==
    /\ Nodes \in Seq(ToSet(Nodes)) /\ Len(Nodes) > 0
    /\ Nil \notin ToSet(Nodes) /\ Nil \notin ToSet(Nodes) \X ToSet(Nodes)

NodeSet == ToSet(Nodes)
Dim == Len(Nodes)

\* The nodes at most h hops away from i.
Reach(links, i) ==
    LET reach[h \in 0..Dim] ==
            IF h = 0 THEN {i}
            ELSE LET before == reach[h-1]
                 IN  before \cup {l[2] : l \in {k \in links : k[1] \in before}}
    IN  reach

\* Number of hops of the shortest path from i to j; Dim when there is none.
Distance(links, i, j) ==
    LET hops == {h \in 0..(Dim - 1) : j \in Reach(links, i)[h]}
    IN  IF hops = {} THEN Dim ELSE CHOOSE h \in hops : \A g \in hops : h <= g

\* Where a message from i for j is after h hops along the table.
Hop(t, i, j) ==
    LET at[h \in 0..Dim] ==
            IF h = 0 THEN i
            ELSE LET n == at[h-1]
                 IN  IF n \in {j, Nil} THEN n
                     ELSE IF t[<<n, j>>].out = Nil THEN Nil ELSE t[<<n, j>>].next
    IN  at

\* The output buffer a message for j goes to after output buffer b.
Successor(t, b, j) == t[<<t[<<b[1], j>>].next, j>>].out

\* A message in output buffer b may wait for another output buffer c.
WaitsFor(t, b, c) ==
    /\ c # b
    /\ \E j \in NodeSet : t[<<b[1], j>>].out = b /\ Successor(t, b, j) = c

\* What is left of the output buffers when those that wait for none of the
\* rest are removed, h times.
Peel(t, links) ==
    LET peel[h \in 0..Cardinality(links)] ==
            IF h = 0 THEN links
            ELSE LET rest == peel[h-1]
                 IN  {b \in rest : \E c \in rest : WaitsFor(t, b, c)}
    IN  peel

\* Some output buffers may wait for each other in a circle.
Cyclic(t, links) == Peel(t, links)[Cardinality(links)] # {}
=============================================================================
