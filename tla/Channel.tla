------------------------------- MODULE Channel -------------------------------
(***************************************************************************)
(* What the network promises its clients: between two end nodes, messages  *)
(* are received in the order in which they were sent, each once.           *)
(***************************************************************************)
EXTENDS Sequences

CONSTANTS Pair, Message

VARIABLE chan    \* the messages sent and not yet received, oldest first

Init == chan = [p \in Pair |-> <<>>]

Put(p) == \E m \in Message : chan' = [chan EXCEPT ![p] = Append(@, m)]

Get(p) == /\ chan[p] # <<>>
          /\ chan' = [chan EXCEPT ![p] = Tail(@)]

Next == \E p \in Pair : Put(p) \/ Get(p)

Spec == Init /\ [][Next]_chan
=============================================================================
