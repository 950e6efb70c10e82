------------------------------ MODULE MCNetwork ------------------------------
(***************************************************************************)
(* Two switches W1 and W2; end nodes E1 and E3 on the first, E2 on the     *)
(* second.  The routing table is either that of the shortest paths, or one *)
(* with a configured route that sends messages for E2 back from W2 to W1.  *)
(***************************************************************************)
EXTENDS Network, RoutingTables, TLC

CONSTANTS E1, E2, E3, W1, W2, M1, M2, M3, M4

AllNodes == <<E1, E2, E3, W1, W2>>

Cables == << <<E1, W1>>, <<W1, E1>>, <<E3, W1>>, <<W1, E3>>,
             <<W1, W2>>, <<W2, W1>>, <<W2, E2>>, <<E2, W2>> >>

\* A function TLC keeps as a table instead of evaluating it at each use.
Stored(f) == f @@ f

\* The entries of the shortest paths, as module Routing computes them.
Shortest(cables) ==
    [p \in NodeSet \X NodeSet |->
        LET near == {x \in NodeSet : /\ <<p[1], x>> \in cables
                                     /\ Distance(cables, x, p[2]) < Distance(cables, p[1], p[2])}
        IN  IF near = {} THEN [next |-> Nil, out |-> Nil]
            ELSE LET n == CHOOSE x \in near : TRUE
                 IN  [next |-> n, out |-> <<p[1], n>>]]

Back == [Shortest(ToSet(Cables)) EXCEPT ![<<W2, E2>>] = [next |-> W1, out |-> <<W2, W1>>]]

AsTable(t, cables) ==
    [out |-> Stored([p \in NodeSet \X NodeSet |->
                        IF t[p].out = Nil THEN None ELSE OutBuf(t[p].out)]),
     hasCycle |-> Cyclic(t, cables)]

TwoTables == {AsTable(Shortest(ToSet(Cables)), ToSet(Cables)), AsTable(Back, ToSet(Cables))}

FromNode == Stored([m \in Msg |-> IF m = M4 THEN E3 ELSE E1])
ToNode == Stored([m \in Msg |-> E2])

\* A buffer holds one large message or two small ones, but there is room for
\* two messages of E1 where they start.
Capacity == Stored([b \in {"out", "in"} \X ToSet(Cables) |->
                        IF b = <<"out", <<E1, W1>>>> THEN 12 ELSE 6])
Sizes == Stored([m \in Msg |-> IF m = M4 THEN 3 ELSE 6])

\* The link between the switches is slow: while a message crosses it, one that
\* has left it is delivered and another of the same client is back at W1.
NodeRates == [n \in ToSet(AllNodes) |-> IF n \in EndNode THEN 0 ELSE 6]
Rates == [x \in ToSet(Cables) |-> IF x = <<W1, W2>> THEN 1 ELSE 6] @@ NodeRates

-----------------------------------------------------------------------------
(* A network whose switches are joined by end node E3 only. *)

RelayCables == << <<E1, W1>>, <<W1, E3>>, <<E3, W2>>, <<W2, E2>> >>
RelayTables == {AsTable(Shortest(ToSet(RelayCables)), ToSet(RelayCables))}
RelayCapacity == Stored([b \in {"out", "in"} \X ToSet(RelayCables) |-> 6])
RelayRates == [x \in ToSet(RelayCables) |-> 6] @@ NodeRates
=============================================================================
