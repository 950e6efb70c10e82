------------------------------ MODULE MCRouting ------------------------------
(* Every network of four nodes without links of a node to itself, every      *)
(* network of three nodes with and without them, and every configuration of  *)
(* three nodes.                                                              *)
EXTENDS Routing

FourNodes == <<1, 2, 3, 4>>
ThreeOfThem == {1, 2, 3}

FourNodeNetworks ==
    SUBSET {l \in NodeSet \X NodeSet : l[1] # l[2]}
    \cup SUBSET (ThreeOfThem \X ThreeOfThem)

\* Two nodes: a switch linked to itself, and an end node.
TwoNodes == <<1, 2>>
Both == {1, 2}
SelfLinkedNetwork == {{<<1, 1>>, <<1, 2>>}}
=============================================================================
