------------------------------- MODULE Routing -------------------------------
(***************************************************************************)
(* The routing table of a network: net_routing_table_initiate, the         *)
(* Floyd-Warshall computation of shortest paths, the routes given in the   *)
(* configuration file instead, and the search for routing cycles that      *)
(* follows either.  The links are any set of pairs of nodes, a node linked *)
(* to itself included.  Of parallel links a table uses only one, so that   *)
(* one link for each pair of nodes is enough.                              *)
(***************************************************************************)
EXTENDS RoutingTables

CONSTANTS MaxUpdates,   \* bound: routes taken from the configuration
          Configured,   \* bound: routes are configured on networks of these nodes
          Networks      \* the sets of links considered

ASSUME NetworksAssumption == Networks \subseteq SUBSET (NodeSet \X NodeSet)

VARIABLES links,      \* net->link_list, each link with its output buffer
          table,      \* routing_table->entries
          hasCycle,   \* routing_table->has_cycle
          pc,         \* "config", "relax", "outputs", "search" or "ready"
          k,          \* the loop variable of the relaxation
          updates,    \* number of configured routes
          color, parent,  \* the lists of the depth-first search
          calls,      \* its pending calls: buffer and next destination j
          everCyclic  \* ghost: some table so far had a cycle

vars == <<links, table, hasCycle, pc, k, updates, color, parent, calls, everCyclic>>
searchVars == <<color, parent, calls>>

Buffers == links

\* Bug: a path through all the nodes is no shorter than infinity.
InitiateLow(ls) ==
    [p \in NodeSet \X NodeSet |->
        IF p \in ls
        THEN [cost |-> 1, next |-> p[2], out |-> p]
        ELSE [cost |-> IF p[1] = p[2] THEN 0 ELSE Dim - 1, next |-> Nil, out |-> Nil]]

\* net_routing_table_initiate: infinite costs, and the routes of one hop.
Initiate(ls) ==
    [p \in NodeSet \X NodeSet |->
        IF p \in ls
        THEN [cost |-> 1, next |-> p[2], out |-> p]
        ELSE [cost |-> IF p[1] = p[2] THEN 0 ELSE Dim, next |-> Nil, out |-> Nil]]

Init ==
    /\ links \in Networks
    /\ table = Initiate(links)
    /\ hasCycle = FALSE /\ everCyclic = FALSE
    /\ pc = "config" /\ k = 0 /\ updates = 0
    /\ color = <<>> /\ parent = <<>> /\ calls = <<>>

-----------------------------------------------------------------------------
(* net_routing_table_floyd_warshall *)

FloydWarshall ==
    /\ pc = "config" /\ updates = 0
    /\ pc' = "relax" /\ k' = 1
    /\ UNCHANGED <<links, table, hasCycle, updates, searchVars, everCyclic>>

\* One value of k: the row and the column of node k do not change meanwhile.
ViaNode(t, n) ==
    [p \in NodeSet \X NodeSet |->
        LET cost == t[<<p[1], n>>].cost + t[<<n, p[2]>>].cost
        IN  IF cost < t[p].cost THEN [t[p] EXCEPT !.cost = cost, !.next = n] ELSE t[p]]

Relax ==
    /\ pc = "relax"
    /\ table' = ViaNode(table, Nodes[k])
    /\ IF k = Dim THEN pc' = "outputs" /\ UNCHANGED k ELSE k' = k + 1 /\ UNCHANGED pc
    /\ UNCHANGED <<links, hasCycle, updates, searchVars, everCyclic>>

\* "Follow path": from an intermediate node back to the first hop, which the
\* loop reaches within Dim rounds, as every round comes closer to i.
FollowPath(t, i, j) ==
    LET node[h \in 0..Dim] ==
            IF h = 0 THEN t[<<i, j>>].next
            ELSE LET n == node[h-1]
                 IN  IF t[<<i, n>>].cost <= 1 THEN n ELSE t[<<i, n>>].next
    IN  node

FirstHop(t, i, j) == FollowPath(t, i, j)[Dim]

\* net_routing_table_cycle_detection begins with every buffer white and its
\* own parent.
StartSearch(ls) ==
    /\ pc' = "search"
    /\ color' = [b \in ls |-> "white"]
    /\ parent' = [b \in ls |-> b]
    /\ calls' = <<>>

\* Output buffers, and next nodes one hop away; then the search for a cycle.
Outputs ==
    /\ pc = "outputs"
    /\ table' = [p \in NodeSet \X NodeSet |->
                    IF table[p].next = Nil
                    THEN [table[p] EXCEPT !.out = Nil]
                    ELSE LET n == FirstHop(table, p[1], p[2])
                         IN  [table[p] EXCEPT !.out = <<p[1], n>>, !.next = n]]
    /\ StartSearch(links)
    /\ UNCHANGED <<links, hasCycle, k, updates, everCyclic>>

\* net_routing_table_route_update: node s sends what is for d over link l.
RouteUpdate(d, l) ==
    /\ pc = "config" /\ updates < MaxUpdates
    /\ l \in Buffers /\ d # l[1]
    /\ Buffers \subseteq Configured \X Configured
    /\ table' = [table EXCEPT ![<<l[1], d>>].next = l[2], ![<<l[1], d>>].out = l]
    /\ StartSearch(links)
    /\ updates' = updates + 1
    /\ UNCHANGED <<links, hasCycle, k, everCyclic>>

-----------------------------------------------------------------------------
(* routing_table_cycle_detection_dfs_visit *)

Call(b) == [buffer |-> b, j |-> 1]
Top == calls[Len(calls)]

\* Bug: the search starts from the buffers of the first node only.
WhiteFirstNode == {b \in Buffers : color[b] = "white" /\ b[1] = Nodes[1]}

White == {b \in Buffers : color[b] = "white"}

\* The outer loop visits the first white buffer: buffers are listed node by
\* node, those of one node in the order of the configuration, which is any.
VisitNext ==
    /\ pc = "search" /\ calls = <<>> /\ ~ hasCycle
    /\ \E i \in 1..Dim, b \in White :
        /\ b[1] = Nodes[i] /\ \A h \in 1..(i-1), c \in White : c[1] # Nodes[h]
        /\ color' = [color EXCEPT ![b] = "gray"]
        /\ calls' = <<Call(b)>>
    /\ UNCHANGED <<links, table, hasCycle, pc, k, updates, parent, everCyclic>>

\* The buffer the message for destination j would need next.
NeedsNext(b, j) ==
    IF table[<<b[1], Nodes[j]>>].out = b THEN Successor(table, b, Nodes[j]) ELSE Nil

\* Bug: a buffer visited before counts as a cycle.
ReportsVisited(b, c) == color[c] # "white" /\ parent[c] # b

Reports(b, c) == color[c] = "gray" /\ parent[c] # b

\* One iteration of the loop over destinations: a white buffer is visited (it
\* is black on return), a gray one is a cycle.
Iterate ==
    LET b == Top.buffer
        c == NeedsNext(b, Top.j)
        visits == c # Nil /\ color[c] = "white"
        next == [calls EXCEPT ![Len(calls)].j = @ + 1]
    IN
    /\ pc = "search" /\ calls # <<>> /\ Top.j <= Dim /\ ~ hasCycle
    /\ calls' = IF visits THEN Append(next, Call(c)) ELSE next
    /\ color' = IF visits THEN [color EXCEPT ![c] = "gray"] ELSE color
    /\ parent' = IF visits THEN [parent EXCEPT ![c] = b] ELSE parent
    /\ hasCycle' = (c # Nil /\ Reports(b, c))
    /\ UNCHANGED <<links, table, pc, k, updates, everCyclic>>

Return ==
    /\ pc = "search" /\ calls # <<>> /\ (Top.j > Dim \/ hasCycle)
    /\ color' = [color EXCEPT ![Top.buffer] = "black"]
    /\ calls' = Front(calls)
    /\ UNCHANGED <<links, table, hasCycle, pc, k, updates, parent, everCyclic>>

\* The search ends; a configured network may have further routes.
Finish ==
    /\ pc = "search" /\ calls = <<>> /\ (White = {} \/ hasCycle)
    /\ pc' = IF updates > 0 THEN "config" ELSE "ready"
    /\ color' = <<>> /\ parent' = <<>> /\ calls' = <<>>
    /\ everCyclic' = (everCyclic \/ Cyclic(table, Buffers))
    /\ UNCHANGED <<links, table, hasCycle, k, updates>>

Next ==
    \/ FloydWarshall \/ Relax \/ Outputs
    \/ \E l \in Buffers, d \in NodeSet : RouteUpdate(d, l)
    \/ VisitNext \/ Iterate \/ Return \/ Finish

Spec == Init /\ [][Next]_vars

-----------------------------------------------------------------------------
\* Floyd-Warshall finds for each pair of nodes a route of minimal length: the
\* table says its length, and hop by hop it leads to the destination although
\* net_routing_table_floyd_warshall fixes next hops only after all costs.
ShortestPaths ==
    pc = "ready" => \A i, j \in NodeSet : i # j =>
        LET d == Distance(Buffers, i, j) IN
        /\ table[<<i, j>>].cost = d
        /\ d < Dim => Hop(table, i, j)[d] = j
        /\ IF d = Dim THEN table[<<i, j>>].out = Nil
           ELSE /\ table[<<i, j>>].out = <<i, table[<<i, j>>].next>>
                /\ table[<<i, j>>].out \in Buffers

SelfLinked == \E l \in links : l[1] = l[2]

\* net_routing_table_cycle_detection, which colours buffers and compares their
\* parents, misses no circle of several output buffers that may wait for each
\* other, and reports one without need only where a node is linked to itself
\* (the entry of a node for itself then counts as a route).
CycleExact ==
    pc \in {"config", "ready"} => /\ everCyclic => hasCycle
                                  /\ hasCycle => everCyclic \/ SelfLinked

\* The route from i to j leads to a node that sends messages for j to itself.
Stranded(i, j) ==
    LET n == Hop(table, i, j)[Dim] IN n \notin {j, Nil} /\ table[<<n, j>>].out = <<n, n>>

\* Without a reported cycle a message can go round for ever in one way only,
\* whatever routes the configuration gives: over a link of a node to itself.
NoRoutingLoop ==
    pc \in {"config", "ready"} /\ ~ hasCycle =>
        \A i, j \in NodeSet : Hop(table, i, j)[Dim] \in {j, Nil} \/ Stranded(i, j)

\* What the search is for ("Find cycle in routing table", err_net_cycle): no
\* message goes round for ever in a network without a reported cycle.
EveryLoopReported ==
    pc \in {"config", "ready"} /\ ~ hasCycle =>
        \A i, j \in NodeSet : Hop(table, i, j)[Dim] \in {j, Nil}
=============================================================================
