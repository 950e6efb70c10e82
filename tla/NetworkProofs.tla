---------------------------- MODULE NetworkProofs ----------------------------
(***************************************************************************)
(* Nobody in the network sleeps beside a way that is free, its buffers     *)
(* count what they hold, it stalls only on a routing cycle, and without    *)
(* one it is a first in, first out channel between any two end nodes,      *)
(* whatever the topology, the routing tables, the bandwidths and the       *)
(* messages.                                                               *)
(***************************************************************************)
EXTENDS Network, WellFoundedInduction, FiniteSetTheorems, SequenceTheorems, TLAPS

NetTypeOK ==
    /\ route \in Tables
    /\ stage \in [Msg -> Stages]
    /\ place \in [Msg -> Buffer \cup {None}]
    /\ waits \in [Msg -> Buffer \cup {None}]
    /\ queue \in [Buffer -> Seq(Msg)]
    /\ count \in [Buffer -> Int]

IsOut(b) == \E l \in Link : b = OutBuf(l)
IsIn(b) == \E l \in Link : b = InBuf(l)

\* The stage of a message says what kind of buffer it is in, and whether it may
\* be waiting.
StagesExact ==
    \A m \in Msg :
        /\ stage[m] = "out" => IsOut(place[m])
        /\ stage[m] \in {"in", "receive", "absorb"} => IsIn(place[m])
        /\ stage[m] \in {"unsent", "send", "done"} => place[m] = None
        /\ waits[m] # None => stage[m] \in {"send", "out", "in"}

Listed(m, s) == \E i \in 1..Len(s) : s[i] = m

\* A message is on the list of its buffer, and at its head once it has arrived.
AllListed ==
    \A m \in Msg : /\ InNetwork(m) => Listed(m, queue[place[m]])
                   /\ stage[m] \in {"receive", "absorb"} => AtHead(m)

NetInv == NetTypeOK /\ StagesExact /\ AllListed /\ NoLostWakeup

-----------------------------------------------------------------------------
(* Lists *)

LEMMA AppendList ==
    ASSUME NEW s \in Seq(Msg), NEW m \in Msg
    PROVE  /\ Append(s, m) \in Seq(Msg) /\ Listed(m, Append(s, m))
           /\ \A x \in Msg : Listed(x, s) => Listed(x, Append(s, m)) /\ Head(Append(s, m)) = Head(s)
  BY DEF Listed

LEMMA TailList ==
    ASSUME NEW s \in Seq(Msg), NEW m \in Msg, Listed(m, s), Head(s) = m
    PROVE  /\ Tail(s) \in Seq(Msg)
           /\ \A x \in Msg : x # m /\ Listed(x, s) => Listed(x, Tail(s))
<1>1. s # <<>> /\ Len(s) > 0
  BY DEF Listed
<1>2. ASSUME NEW x \in Msg, x # m, Listed(x, s)  PROVE Listed(x, Tail(s))
  <2>1. PICK i \in 1..Len(s) : s[i] = x
    BY <1>2 DEF Listed
  <2>2. i - 1 \in 1..Len(Tail(s)) /\ Tail(s)[i - 1] = x
    BY <1>1, <1>2, <2>1
  <2>. QED
    BY <2>2 DEF Listed
<1>. QED
  BY <1>1, <1>2

\* An output buffer and an input buffer are two.
LEMMA OutIsNotIn ==
    ASSUME NEW a, NEW b, IsOut(a), IsIn(b)
    PROVE  a \in Buffer /\ b \in Buffer /\ a # b /\ a # None /\ b # None
  BY NetworkAssumption DEF IsOut, IsIn, OutBuf, InBuf, Buffer

LEMMA Sizes ==
    /\ \A m \in Msg : Size[m] \in Nat /\ Size[m] > 0
    /\ \A b \in Buffer : BufferSize[b] \in Nat
    /\ None \notin Buffer
  BY NetworkAssumption

LEMMA MessageNodes == \A m \in Msg : Src[m] \in Node /\ Dst[m] \in Node /\ Dst[m] \in EndNode
  BY NetworkAssumption

LEMMA LinkListType == LinkList \in Seq(Node \X Node)
  BY NetworkAssumption

LEMMA LinksJoinNodes == Link \subseteq Node \X Node
<1>1. \A i \in DOMAIN LinkList : LinkList[i] \in Node \X Node
  BY LinkListType
<1>. QED
  BY <1>1 DEF Link, ToSet

\* Routing tables name output buffers only.
LEMMA RoutesAreOutputs ==
    ASSUME route \in Tables, NEW n \in Node, NEW d \in Node, route.out[<<n, d>>] # None
    PROVE  IsOut(route.out[<<n, d>>])
<1>1. <<n, d>> \in Node \X Node
  OBVIOUS
<1>2. route.out[<<n, d>>] \in {OutBuf(l) : l \in Link}
  BY <1>1, NetworkAssumption
<1>. QED
  BY <1>2 DEF IsOut

-----------------------------------------------------------------------------
(* What the actions have in common *)

\* An event waits or is scheduled again; stages, places and lists stay.
LEMMA StallKeeps ==
    ASSUME NetInv, NEW m \in Msg, stage[m] \in {"send", "out", "in"},
           UNCHANGED <<route, stage, place, queue, count>>,
           \/ UNCHANGED waits
           \/ \E b \in Buffer :
                 /\ Wait(m, b)
                 /\ \/ stage[m] \in {"out", "in"} /\ b = place[m] /\ ~ AtHead(m)
                    \/ b # place[m] /\ ~ Fits(b, m)
    PROVE  NetInv'
<1>. USE DEF NetInv
<1>1. NetTypeOK'
  BY DEF NetTypeOK, Wait
<1>2. StagesExact'
  BY DEF StagesExact, NetTypeOK, Wait, IsOut, IsIn
<1>3. AllListed'
  BY DEF AllListed, InNetwork, Listed, AtHead
<1>4. NoLostWakeup'
  BY DEF NoLostWakeup, NetTypeOK, Wait, AtHead, Fits
<1>. QED
  BY <1>1, <1>2, <1>3, <1>4

\* A message goes on: the waiters of the buffer it leaves wake up, and those of
\* the buffer it enters have even less room.
LEMMA MoveKeeps ==
    ASSUME NetInv, NEW m \in Msg, NEW src \in Buffer, NEW dst \in Buffer,
           src # dst, src # None, dst # None,
           InNetwork(m), waits[m] = None, place[m] = src, AtHead(m), Move(m, src, dst),
           \/ IsIn(dst) /\ stage' = [stage EXCEPT ![m] = "in"]
           \/ IsOut(dst) /\ stage' = [stage EXCEPT ![m] = "out"],
           UNCHANGED route
    PROVE  NetInv'
<1>. USE DEF NetInv
<1>1. /\ queue[src] \in Seq(Msg) /\ queue[dst] \in Seq(Msg)
      /\ Listed(m, queue[src]) /\ Head(queue[src]) = m
  BY DEF NetTypeOK, AllListed, AtHead
<1>2. /\ queue' = [queue EXCEPT ![src] = Tail(queue[src]), ![dst] = Append(queue[dst], m)]
      /\ count' = [count EXCEPT ![src] = count[src] - Size[m], ![dst] = count[dst] + Size[m]]
      /\ place' = [place EXCEPT ![m] = dst]
      /\ waits' = [x \in Msg |-> IF waits[x] = src THEN None ELSE waits[x]]
  BY DEF Move, Woken, NetTypeOK
<1>3. NetTypeOK'
  <2>1. Tail(queue[src]) \in Seq(Msg) /\ Append(queue[dst], m) \in Seq(Msg)
    BY <1>1, AppendList, TailList
  <2>2. queue' \in [Buffer -> Seq(Msg)]
    BY <1>2, <2>1 DEF NetTypeOK
  <2>3. count' \in [Buffer -> Int]
    BY <1>2, Sizes DEF NetTypeOK
  <2>. QED
    BY <1>2, <2>2, <2>3 DEF NetTypeOK, Stages
<1>4. StagesExact'
  BY <1>2 DEF StagesExact, NetTypeOK, IsOut, IsIn
<1>5. AllListed'
  <2>. SUFFICES ASSUME NEW x \in Msg, InNetwork(x)'
                PROVE  /\ Listed(x, queue'[place'[x]])
                       /\ stage'[x] \in {"receive", "absorb"} => Head(queue'[place'[x]]) = x
    BY DEF AllListed, Listed, AtHead, InNetwork
  <2>1. CASE x = m
    BY <1>1, <1>2, <2>1, AppendList DEF NetTypeOK
  <2>2. CASE x # m
    <3>1. /\ InNetwork(x) /\ place'[x] = place[x] /\ Listed(x, queue[place[x]])
          /\ stage'[x] = stage[x] /\ stage[x] \in {"receive", "absorb"} => Head(queue[place[x]]) = x
      BY <1>2, <2>2 DEF AllListed, InNetwork, NetTypeOK, AtHead
    <3>2. place[x] \in Buffer
      BY <3>1, OutIsNotIn DEF InNetwork, StagesExact, IsIn, IsOut, Buffer
    <3>3. CASE place[x] = src
      BY <1>1, <1>2, <2>2, <3>1, <3>3, TailList DEF NetTypeOK
    <3>4. CASE place[x] = dst
      BY <1>1, <1>2, <3>1, <3>4, AppendList DEF NetTypeOK
    <3>5. CASE place[x] # src /\ place[x] # dst
      BY <1>2, <3>1, <3>2, <3>5 DEF NetTypeOK
    <3>. QED
      BY <3>3, <3>4, <3>5
  <2>. QED
    BY <2>1, <2>2
<1>6. NoLostWakeup'
  <2>. SUFFICES ASSUME NEW x \in Msg, waits'[x] # None
                PROVE  \/ /\ stage'[x] \in {"out", "in"} /\ waits'[x] = place'[x]
                          /\ Head(queue'[place'[x]]) # x
                       \/ /\ waits'[x] # place'[x]
                          /\ ~ (count'[waits'[x]] + Size[x] <= BufferSize[waits'[x]])
    BY DEF NoLostWakeup, AtHead, Fits
  <2>1. /\ waits'[x] = waits[x] /\ waits[x] # src /\ x # m /\ waits[x] \in Buffer
        /\ stage'[x] = stage[x] /\ place'[x] = place[x]
    BY <1>2 DEF NetTypeOK
  <2>2. CASE stage[x] \in {"out", "in"} /\ waits[x] = place[x] /\ ~ AtHead(x)
    <3>1. Listed(x, queue[place[x]])
      BY <2>2 DEF AllListed, InNetwork
    <3>2. Head(queue'[place[x]]) = Head(queue[place[x]])
      BY <1>1, <1>2, <2>1, <2>2, <3>1, AppendList DEF NetTypeOK
    <3>. QED
      BY <2>1, <2>2, <3>2 DEF AtHead
  <2>3. CASE waits[x] # place[x] /\ ~ Fits(waits[x], x)
    <3>1. count'[waits[x]] >= count[waits[x]]
      BY <1>2, <2>1, Sizes DEF NetTypeOK
    <3>2. count'[waits[x]] \in Int /\ count[waits[x]] \in Int
      BY <1>3, <2>1 DEF NetTypeOK
    <3>. QED
      BY <2>1, <2>3, <3>1, <3>2, Sizes DEF Fits
  <2>. QED
    BY <2>1, <2>2, <2>3 DEF NoLostWakeup
<1>. QED
  BY <1>3, <1>4, <1>5, <1>6

-----------------------------------------------------------------------------
(* The actions *)

LEMMA SendKeeps ==
    ASSUME NetInv, NEW m \in Msg, Send(m)
    PROVE  NetInv'
<1>. USE DEF NetInv
<1>. DEFINE b == FirstBuffer(m)
<1>1. b \in Buffer /\ IsOut(b)
  <2>1. Src[m] \in Node /\ Dst[m] \in Node
    BY NetworkAssumption
  <2>2. IsOut(b)
    BY <2>1, RoutesAreOutputs DEF Send, FirstBuffer, NetTypeOK
  <2>. QED
    BY <2>2 DEF IsOut, Buffer
<1>2. waits[m] = None /\ ~ InNetwork(m)
  BY DEF Send, CanTry, Ready, StagesExact, InNetwork
<1>3. /\ queue' = [queue EXCEPT ![b] = Append(queue[b], m)]
      /\ count' = [count EXCEPT ![b] = count[b] + Size[m]]
      /\ place' = [place EXCEPT ![m] = b]
      /\ stage' = [stage EXCEPT ![m] = "out"]
      /\ UNCHANGED <<route, waits>>
  BY DEF Send
<1>. HIDE DEF b
<1>4. NetTypeOK'
  BY <1>1, <1>3, AppendList, Sizes DEF NetTypeOK, Stages
<1>5. StagesExact'
  BY <1>1, <1>2, <1>3 DEF StagesExact, NetTypeOK, IsOut, IsIn
<1>6. AllListed'
  <2>. SUFFICES ASSUME NEW x \in Msg, InNetwork(x)'
                PROVE  /\ Listed(x, queue'[place'[x]])
                       /\ stage'[x] \in {"receive", "absorb"} => Head(queue'[place'[x]]) = x
    BY DEF AllListed, Listed, AtHead, InNetwork
  <2>1. CASE x = m
    BY <1>1, <1>3, <2>1, AppendList DEF NetTypeOK
  <2>2. CASE x # m
    <3>1. /\ InNetwork(x) /\ place'[x] = place[x] /\ Listed(x, queue[place[x]])
          /\ stage'[x] = stage[x] /\ stage[x] \in {"receive", "absorb"} => Head(queue[place[x]]) = x
      BY <1>3, <2>2 DEF AllListed, InNetwork, NetTypeOK, AtHead
    <3>2. place[x] \in Buffer
      BY <3>1, OutIsNotIn DEF InNetwork, StagesExact, IsIn, IsOut, Buffer
    <3>. QED
      BY <1>1, <1>3, <3>1, <3>2, AppendList DEF NetTypeOK
  <2>. QED
    BY <2>1, <2>2
<1>7. NoLostWakeup'
  <2>. SUFFICES ASSUME NEW x \in Msg, waits[x] # None
                PROVE  \/ /\ stage'[x] \in {"out", "in"} /\ waits[x] = place'[x]
                          /\ Head(queue'[place'[x]]) # x
                       \/ /\ waits[x] # place'[x]
                          /\ ~ (count'[waits[x]] + Size[x] <= BufferSize[waits[x]])
    BY <1>3 DEF NoLostWakeup, AtHead, Fits
  <2>1. x # m /\ waits[x] \in Buffer /\ stage'[x] = stage[x] /\ place'[x] = place[x]
    BY <1>2, <1>3 DEF NetTypeOK
  <2>2. CASE stage[x] \in {"out", "in"} /\ waits[x] = place[x] /\ ~ AtHead(x)
    <3>1. Listed(x, queue[place[x]])
      BY <2>2 DEF AllListed, InNetwork
    <3>2. Head(queue'[place[x]]) = Head(queue[place[x]])
      BY <1>1, <1>3, <2>1, <2>2, <3>1, AppendList DEF NetTypeOK
    <3>. QED
      BY <2>1, <2>2, <3>2 DEF AtHead
  <2>3. CASE waits[x] # place[x] /\ ~ Fits(waits[x], x)
    <3>1. count'[waits[x]] >= count[waits[x]]
      BY <1>1, <1>3, <2>1, Sizes DEF NetTypeOK
    <3>2. count'[waits[x]] \in Int /\ count[waits[x]] \in Int
      BY <1>4, <2>1 DEF NetTypeOK
    <3>. QED
      BY <2>1, <2>3, <3>1, <3>2, Sizes DEF Fits
  <2>. QED
    BY <2>1, <2>2, <2>3 DEF NoLostWakeup
<1>. QED
  BY <1>4, <1>5, <1>6, <1>7

LEMMA AbsorbKeeps ==
    ASSUME NetInv, NEW m \in Msg, Absorb(m)
    PROVE  NetInv'
<1>. USE DEF NetInv
<1>. DEFINE b == place[m]
<1>1. b \in Buffer /\ InNetwork(m) /\ waits[m] = None
  BY OutIsNotIn DEF Absorb, Ready, InNetwork, StagesExact, IsIn, Buffer
<1>2. queue[b] \in Seq(Msg) /\ Listed(m, queue[b]) /\ Head(queue[b]) = m
  BY <1>1 DEF NetTypeOK, AllListed, AtHead, Absorb
<1>3. /\ queue' = [queue EXCEPT ![b] = Tail(queue[b])]
      /\ count' = [count EXCEPT ![b] = count[b] - Size[m]]
      /\ place' = [place EXCEPT ![m] = None]
      /\ stage' \in {[stage EXCEPT ![m] = "unsent"], [stage EXCEPT ![m] = "done"]}
      /\ waits' = [x \in Msg |-> IF waits[x] = b THEN None ELSE waits[x]]
      /\ route' = route
  BY DEF Absorb, Woken
<1>. HIDE DEF b
<1>4. NetTypeOK'
  <2>1. queue' \in [Buffer -> Seq(Msg)]
    BY <1>1, <1>2, <1>3, TailList DEF NetTypeOK
  <2>2. count' \in [Buffer -> Int]
    BY <1>1, <1>3, Sizes DEF NetTypeOK
  <2>. QED
    BY <1>3, <2>1, <2>2 DEF NetTypeOK, Stages
<1>5. StagesExact'
  BY <1>1, <1>3 DEF StagesExact, NetTypeOK, IsOut, IsIn
<1>6. AllListed'
  <2>. SUFFICES ASSUME NEW x \in Msg, InNetwork(x)'
                PROVE  /\ Listed(x, queue'[place'[x]])
                       /\ stage'[x] \in {"receive", "absorb"} => Head(queue'[place'[x]]) = x
    BY DEF AllListed, Listed, AtHead, InNetwork
  <2>1. x # m
    BY <1>3 DEF InNetwork, NetTypeOK
  <2>2. /\ InNetwork(x) /\ place'[x] = place[x] /\ Listed(x, queue[place[x]])
        /\ stage'[x] = stage[x] /\ stage[x] \in {"receive", "absorb"} => Head(queue[place[x]]) = x
    BY <1>3, <2>1 DEF AllListed, InNetwork, NetTypeOK, AtHead
  <2>3. place[x] \in Buffer
    BY <2>2, OutIsNotIn DEF InNetwork, StagesExact, IsIn, IsOut, Buffer
  <2>. QED
    BY <1>1, <1>2, <1>3, <2>1, <2>2, <2>3, TailList DEF NetTypeOK
<1>7. NoLostWakeup'
  <2>. SUFFICES ASSUME NEW x \in Msg, waits'[x] # None
                PROVE  \/ /\ stage'[x] \in {"out", "in"} /\ waits'[x] = place'[x]
                          /\ Head(queue'[place'[x]]) # x
                       \/ /\ waits'[x] # place'[x]
                          /\ ~ (count'[waits'[x]] + Size[x] <= BufferSize[waits'[x]])
    BY DEF NoLostWakeup, AtHead, Fits
  <2>1. /\ waits'[x] = waits[x] /\ waits[x] # b /\ x # m /\ waits[x] \in Buffer
        /\ stage'[x] = stage[x] /\ place'[x] = place[x]
    BY <1>1, <1>3 DEF NetTypeOK
  <2>2. queue'[waits[x]] = queue[waits[x]] /\ count'[waits[x]] = count[waits[x]]
    BY <1>3, <2>1 DEF NetTypeOK
  <2>. QED
    BY <2>1, <2>2 DEF NoLostWakeup, AtHead, Fits
<1>. QED
  BY <1>4, <1>5, <1>6, <1>7

\* The retries of a message: what it waits for is not there.
LEMMA StallsKeep ==
    ASSUME NetInv, NEW m \in Msg, SendLater(m) \/ OutputStall(m) \/ InputStall(m) \/ NotMyTurn(m)
    PROVE  NetInv'
<1>. USE DEF NetInv
<1>1. Src[m] \in Node /\ Dst[m] \in Node
  BY NetworkAssumption
<1>2. CASE SendLater(m) /\ stage[m] = "send"
  <2>1. FirstBuffer(m) \in Buffer /\ place[m] = None /\ FirstBuffer(m) # None
    BY <1>1, <1>2, RoutesAreOutputs DEF SendLater, FirstBuffer, NetTypeOK, IsOut, Buffer, StagesExact
  <2>2. UNCHANGED <<route, stage, place, queue, count>>
    BY <1>2 DEF SendLater, NetTypeOK
  <2>. QED
    BY <1>2, <2>1, <2>2, StallKeeps DEF SendLater, Retry
<1>3. CASE SendLater(m) /\ stage[m] = "unsent"
  <2>1. FirstBuffer(m) \in Buffer /\ place[m] = None /\ waits[m] = None /\ FirstBuffer(m) # None
    BY <1>1, <1>3, RoutesAreOutputs DEF SendLater, FirstBuffer, NetTypeOK, IsOut, Buffer, StagesExact
  <2>2. UNCHANGED <<route, place, queue, count>> /\ stage' = [stage EXCEPT ![m] = "send"]
    BY <1>3 DEF SendLater
  <2>3. \/ UNCHANGED waits
        \/ waits' = [waits EXCEPT ![m] = FirstBuffer(m)] /\ ~ Fits(FirstBuffer(m), m)
    BY <1>3 DEF SendLater, Retry, Wait
  <2>4. NetTypeOK'
    BY <2>1, <2>2, <2>3 DEF NetTypeOK, Stages
  <2>5. StagesExact'
    BY <2>1, <2>2, <2>3 DEF StagesExact, NetTypeOK, IsOut, IsIn
  <2>6. AllListed'
    BY <2>2 DEF AllListed, InNetwork, Listed, AtHead, NetTypeOK
  <2>7. NoLostWakeup'
    BY <2>1, <2>2, <2>3 DEF NoLostWakeup, NetTypeOK, AtHead, Fits
  <2>. QED
    BY <2>4, <2>5, <2>6, <2>7
<1>4. CASE OutputStall(m)
  <2>1. PICK l \in Link : place[m] = OutBuf(l)
    BY <1>4 DEF OutputStall, StagesExact, IsOut
  <2>2. place[m][2] = l
    BY <2>1 DEF OutBuf
  <2>3. /\ place[m] \in Buffer /\ InBuf(l) \in Buffer /\ InBuf(l) # place[m]
    BY <2>1, OutIsNotIn DEF IsOut, IsIn
  <2>4. UNCHANGED <<route, stage, place, queue, count>> /\ stage[m] = "out"
    BY <1>4 DEF OutputStall
  <2>. QED
    BY <1>4, <2>2, <2>3, <2>4, StallKeeps DEF OutputStall, Retry
<1>5. CASE InputStall(m)
  <2>1. /\ place[m] \in Buffer /\ IsIn(place[m]) /\ NodeOf(place[m]) \in Node
    BY <1>5, LinksJoinNodes DEF InputStall, StagesExact, IsIn, InBuf, NodeOf, Buffer
  <2>2. NextBuffer(m) # None => NextBuffer(m) \in Buffer /\ NextBuffer(m) # place[m]
    BY <1>1, <2>1, RoutesAreOutputs, OutIsNotIn DEF NextBuffer, NetTypeOK
  <2>3. UNCHANGED <<route, stage, place, queue, count>> /\ stage[m] = "in"
    BY <1>5 DEF InputStall
  <2>. QED
    BY <1>5, <2>1, <2>2, <2>3, StallKeeps DEF InputStall, Retry
<1>6. CASE NotMyTurn(m)
  <2>1. UNCHANGED <<route, stage, place, queue, count, waits>> /\ stage[m] = "in"
    BY <1>6 DEF NotMyTurn, MayCross, Retry
  <2>. QED
    BY <2>1, StallKeeps
<1>. QED
  BY <1>2, <1>3, <1>4, <1>5, <1>6 DEF SendLater, CanTry

LEMMA CrossKeeps ==
    ASSUME NetInv, NEW m \in Msg, CrossLink(m) \/ CrossSwitch(m)
    PROVE  NetInv'
<1>. USE DEF NetInv
<1>1. CASE CrossLink(m)
  <2>1. PICK l \in Link : place[m] = OutBuf(l)
    BY <1>1 DEF CrossLink, StagesExact, IsOut
  <2>2. place[m][2] = l /\ IsIn(InBuf(l)) /\ IsOut(place[m])
    BY <2>1 DEF OutBuf, IsIn, IsOut
  <2>3. Move(m, place[m], InBuf(l)) /\ stage' = [stage EXCEPT ![m] = "in"]
    BY <1>1, <2>2 DEF CrossLink
  <2>4. InNetwork(m) /\ waits[m] = None /\ AtHead(m) /\ UNCHANGED route
    BY <1>1 DEF CrossLink, Ready, InNetwork
  <2>. QED
    BY <2>2, <2>3, <2>4, MoveKeeps, OutIsNotIn
<1>2. CASE CrossSwitch(m)
  <2>1. IsIn(place[m]) /\ NodeOf(place[m]) \in Node /\ Dst[m] \in Node
    BY <1>2, LinksJoinNodes, MessageNodes DEF CrossSwitch, MayCross, StagesExact, IsIn, InBuf, NodeOf
  <2>2. NextBuffer(m) # None /\ route \in Tables
    BY <1>2 DEF CrossSwitch, MayCross, NetTypeOK
  <2>3. IsOut(NextBuffer(m))
    BY <2>1, <2>2, RoutesAreOutputs DEF NextBuffer
  <2>4. Move(m, place[m], NextBuffer(m)) /\ stage' = [stage EXCEPT ![m] = "out"]
    BY <1>2 DEF CrossSwitch
  <2>5. InNetwork(m) /\ waits[m] = None /\ AtHead(m) /\ UNCHANGED route
    BY <1>2 DEF CrossSwitch, MayCross, Ready, InNetwork
  <2>. QED
    BY <2>1, <2>3, <2>4, <2>5, MoveKeeps, OutIsNotIn
<1>. QED
  BY <1>1, <1>2

\* On arrival only the stage changes.
LEMMA ArriveKeeps ==
    ASSUME NetInv, NEW m \in Msg, Arrive(m) \/ Receive(m)
    PROVE  NetInv'
<1>. USE DEF NetInv
<1>1. /\ UNCHANGED <<route, place, waits, queue, count>>
      /\ stage' \in {[stage EXCEPT ![m] = "receive"], [stage EXCEPT ![m] = "absorb"]}
      /\ stage[m] \in {"in", "receive"} /\ waits[m] = None /\ AtHead(m)
  BY DEF Arrive, Receive, Ready, AllListed
<1>2. NetTypeOK'
  BY <1>1 DEF NetTypeOK, Stages
<1>3. StagesExact'
  BY <1>1 DEF StagesExact, NetTypeOK, IsOut, IsIn
<1>4. AllListed'
  BY <1>1 DEF AllListed, InNetwork, Listed, AtHead, NetTypeOK
<1>5. NoLostWakeup'
  BY <1>1 DEF NoLostWakeup, NetTypeOK, AtHead, Fits
<1>. QED
  BY <1>2, <1>3, <1>4, <1>5

LEMMA IdleKeeps ==
    ASSUME NetInv, UNCHANGED <<route, stage, place, waits, queue, count>>
    PROVE  NetInv'
  BY DEF NetInv, NetTypeOK, StagesExact, AllListed, NoLostWakeup, InNetwork, Listed, AtHead, Fits, IsOut, IsIn

-----------------------------------------------------------------------------

LEMMA NetStep ==
    ASSUME NetInv, [Next]_vars
    PROVE  NetInv'
<1>1. ASSUME NEW m \in Msg, SendLater(m) \/ Send(m) \/ Handle(m)  PROVE NetInv'
  BY <1>1, SendKeeps, StallsKeep, CrossKeeps, ArriveKeeps, AbsorbKeeps DEF Handle
<1>2. CASE Tick \/ UNCHANGED vars
  BY <1>2, IdleKeeps DEF Tick, vars
<1>. QED
  BY <1>1, <1>2 DEF Next

LEMMA NetInit == Init => NetInv
  BY DEF Init, NetInv, NetTypeOK, Stages, StagesExact, AllListed, NoLostWakeup, InNetwork, Listed

\* net_buffer_extract wakes all that wait for the buffer, and only a buffer that
\* is too full, or a message ahead in the same buffer, makes an event wait.
THEOREM WakeupsNotLost == Spec => []NoLostWakeup
<1>1. NetInv /\ [Next]_vars => NetInv'
  BY NetStep
<1>2. NetInv => NoLostWakeup
  BY DEF NetInv
<1>. QED
  BY NetInit, <1>1, <1>2, PTL DEF Spec

-----------------------------------------------------------------------------
(* What is on the lists, and how much of it *)

\* Every non-empty set of numbers has a least one.
LEMMA Least ==
    ASSUME NEW T \in SUBSET Nat, T # {}
    PROVE  \E x \in T : \A y \in T : x <= y
<1>1. \E x \in T : \A y \in T : ~ (y < x)
  <2>1. PICK x \in T : \A y \in T : ~ (<<y, x>> \in OpToRel(<, Nat))
    BY NatLessThanWellFounded, WFMin
  <2>. QED
    BY <2>1 DEF OpToRel
<1>2. PICK x \in T : \A y \in T : ~ (y < x)
  BY <1>1
<1>3. x \in Nat /\ \A y \in T : y \in Nat
  BY <1>2
<1>. QED
  BY <1>2, <1>3

\* acc[i] is the size of the first i messages of s.
Sums(s, acc) ==
    /\ acc \in [0..Len(s) -> Int]
    /\ acc[0] = 0
    /\ \A i \in 1..Len(s) : acc[i] = acc[i-1] + Size[s[i]]

LEMMA SumsPositive ==
    ASSUME NEW s \in Seq(Msg), NEW acc, Sums(s, acc)
    PROVE  \A k \in 0..Len(s) : acc[k] \in Nat /\ (k > 0 => acc[k] > 0)
<1>. SUFFICES ASSUME NEW k \in 0..Len(s), ~ (acc[k] \in Nat /\ (k > 0 => acc[k] > 0))
              PROVE  FALSE
  OBVIOUS
<1>. DEFINE B == {i \in 0..Len(s) : ~ (acc[i] \in Nat /\ (i > 0 => acc[i] > 0))}
<1>0. B \in SUBSET Nat /\ B # {}
  OBVIOUS
<1>1. PICK i \in B : \A j \in B : i <= j
  BY <1>0, Least
<1>2. i # 0
  BY <1>1 DEF Sums
<1>3. i - 1 \in 0..Len(s) /\ i - 1 \notin B
  BY <1>1, <1>2
<1>. QED
  BY <1>1, <1>2, <1>3, Sizes DEF Sums

\* The recursive definition of the model adds up the same.
LEMMA SumsOccupancy ==
    ASSUME NEW s \in Seq(Msg), NEW acc, Sums(s, acc)
    PROVE  Occupancy(s) = acc[Len(s)]
<1>. DEFINE Eq(g) == g = [i \in 0..Len(s) |-> IF i = 0 THEN 0 ELSE g[i-1] + Size[s[i]]]
            sum == CHOOSE g : Eq(g)
<1>1. Eq(acc)
  BY DEF Sums
<1>2. Eq(sum)
  BY <1>1
<1>3. Occupancy(s) = sum[Len(s)]
  BY DEF Occupancy
<1>. HIDE DEF sum
<1>4. ASSUME NEW k \in 0..Len(s), sum[k] # acc[k]  PROVE FALSE
  <2>. DEFINE B == {i \in 0..Len(s) : sum[i] # acc[i]}
  <2>0. B \in SUBSET Nat /\ B # {}
    BY <1>4
  <2>1. PICK i \in B : \A j \in B : i <= j
    BY <2>0, Least
  <2>2. i # 0
    BY <1>2, <2>1 DEF Sums
  <2>3. i - 1 \in 0..Len(s) /\ i - 1 \notin B
    BY <2>1, <2>2
  <2>. QED
    BY <1>1, <1>2, <2>1, <2>2, <2>3
<1>. QED
  BY <1>3, <1>4

LEMMA AppendSums ==
    ASSUME NEW s \in Seq(Msg), NEW m \in Msg, NEW acc, Sums(s, acc)
    PROVE  \E sums : /\ Sums(Append(s, m), sums)
                     /\ sums[Len(Append(s, m))] = acc[Len(s)] + Size[m]
<1>. DEFINE t == Append(s, m)
            sums == [i \in 0..Len(t) |-> IF i = Len(t) THEN acc[Len(s)] + Size[m] ELSE acc[i]]
<1>1. Len(t) = Len(s) + 1 /\ t[Len(t)] = m /\ \A i \in 1..Len(s) : t[i] = s[i]
  OBVIOUS
<1>. HIDE DEF t
<1>2. Sums(t, sums)
  <2>1. acc[Len(s)] + Size[m] \in Int /\ Len(s) \in Nat
    BY Sizes DEF Sums
  <2>2. sums \in [0..Len(t) -> Int] /\ sums[0] = 0
    BY <1>1, <2>1 DEF Sums
  <2>3. ASSUME NEW i \in 1..Len(t)  PROVE sums[i] = sums[i-1] + Size[t[i]]
    <3>1. i \in 0..Len(t) /\ i - 1 \in 0..Len(s) /\ sums[i-1] = acc[i-1]
      BY <1>1, <2>1
    <3>2. CASE i = Len(t)
      BY <1>1, <2>1, <3>1, <3>2
    <3>3. CASE i # Len(t)
      <4>1. i \in 1..Len(s) /\ sums[i] = acc[i]
        BY <1>1, <2>1, <3>1, <3>3
      <4>. QED
        BY <1>1, <3>1, <4>1 DEF Sums
    <3>. QED
      BY <3>2, <3>3
  <2>. QED
    BY <2>2, <2>3 DEF Sums
<1>. QED
  BY <1>1, <1>2 DEF t

LEMMA TailSums ==
    ASSUME NEW s \in Seq(Msg), s # <<>>, NEW acc, Sums(s, acc)
    PROVE  \E sums : /\ Sums(Tail(s), sums)
                     /\ sums[Len(Tail(s))] = acc[Len(s)] - Size[Head(s)]
<1>. DEFINE t == Tail(s)
            sums == [i \in 0..Len(t) |-> acc[i + 1] - Size[s[1]]]
<1>1. /\ Len(s) > 0 /\ Len(t) = Len(s) - 1 /\ Head(s) = s[1] /\ s[1] \in Msg
      /\ \A i \in 1..Len(t) : t[i] = s[i + 1]
  OBVIOUS
<1>2. acc[1] = Size[s[1]]
  BY <1>1, Sizes DEF Sums
<1>3. Sums(t, sums)
  <2>1. Size[s[1]] \in Int /\ \A i \in 0..Len(t) : i + 1 \in 0..Len(s)
    BY <1>1, Sizes
  <2>2. sums \in [0..Len(t) -> Int] /\ sums[0] = 0
    BY <1>1, <1>2, <2>1 DEF Sums
  <2>3. ASSUME NEW i \in 1..Len(t)  PROVE sums[i] = sums[i-1] + Size[t[i]]
    <3>1. /\ i + 1 \in 1..Len(s) /\ (i + 1) - 1 = i /\ i \in 0..Len(s) /\ s[i + 1] \in Msg
          /\ i \in 0..Len(t) /\ i - 1 \in 0..Len(t) /\ (i - 1) + 1 = i
      BY <1>1
    <3>2. acc[i + 1] = acc[i] + Size[t[i]]
      BY <1>1, <3>1 DEF Sums
    <3>3. acc[i] \in Int /\ Size[t[i]] \in Int
      BY <1>1, <3>1, Sizes DEF Sums
    <3>4. sums[i] = acc[i + 1] - Size[s[1]] /\ sums[i-1] = acc[i] - Size[s[1]]
      BY <3>1
    <3>. QED
      BY <2>1, <3>2, <3>3, <3>4
  <2>. QED
    BY <2>2, <2>3 DEF Sums
<1>. QED
  BY <1>1, <1>3

\* c is the size of all the messages of s.
Counts(s, c) == \E acc : Sums(s, acc) /\ acc[Len(s)] = c

LEMMA CountsList ==
    ASSUME NEW s \in Seq(Msg), NEW c, Counts(s, c)
    PROVE  /\ c \in Nat /\ c = Occupancy(s)
           /\ s # <<>> => c > 0
           /\ s = <<>> => c = 0
           /\ \A m \in Msg : Counts(Append(s, m), c + Size[m])
           /\ s # <<>> => Counts(Tail(s), c - Size[Head(s)])
<1>1. PICK acc : Sums(s, acc) /\ acc[Len(s)] = c
  BY DEF Counts
<1>2. /\ c \in Nat
      /\ s # <<>> => c > 0
      /\ s = <<>> => c = 0
  BY <1>1, SumsPositive DEF Sums
<1>3. c = Occupancy(s)
  BY <1>1, SumsOccupancy
<1>4. ASSUME NEW m \in Msg  PROVE Counts(Append(s, m), c + Size[m])
  BY <1>1, AppendSums DEF Counts
<1>5. s # <<>> => Counts(Tail(s), c - Size[Head(s)])
  BY <1>1, TailSums DEF Counts
<1>. QED
  BY <1>2, <1>3, <1>4, <1>5

OnlyOnce(s) == \A i, j \in 1..Len(s) : s[i] = s[j] => i = j

LEMMA AppendOnce ==
    ASSUME NEW s \in Seq(Msg), NEW m \in Msg, OnlyOnce(s), ~ Listed(m, s)
    PROVE  /\ OnlyOnce(Append(s, m))
           /\ \A x \in Msg : Listed(x, Append(s, m)) <=> Listed(x, s) \/ x = m
<1>. DEFINE t == Append(s, m)
<1>1. Len(t) = Len(s) + 1 /\ t[Len(t)] = m /\ \A i \in 1..Len(s) : t[i] = s[i]
  OBVIOUS
<1>. HIDE DEF t
<1>2. OnlyOnce(t)
  BY <1>1 DEF OnlyOnce, Listed
<1>3. \A x \in Msg : Listed(x, t) <=> Listed(x, s) \/ x = m
  BY <1>1 DEF Listed
<1>. QED
  BY <1>2, <1>3 DEF t

LEMMA TailOnce ==
    ASSUME NEW s \in Seq(Msg), NEW m \in Msg, OnlyOnce(s), Listed(m, s), Head(s) = m
    PROVE  /\ s # <<>>
           /\ OnlyOnce(Tail(s))
           /\ \A x \in Msg : Listed(x, Tail(s)) <=> Listed(x, s) /\ x # m
<1>. DEFINE t == Tail(s)
<1>1. s # <<>> /\ Len(s) > 0 /\ s[1] = m
  BY DEF Listed
<1>2. Len(t) = Len(s) - 1 /\ \A i \in 1..Len(t) : t[i] = s[i + 1]
  BY <1>1
<1>. HIDE DEF t
<1>3. OnlyOnce(t)
  BY <1>1, <1>2 DEF OnlyOnce
<1>4. ASSUME NEW x \in Msg, Listed(x, t)  PROVE Listed(x, s) /\ x # m
  <2>1. PICK i \in 1..Len(t) : t[i] = x
    BY <1>4 DEF Listed
  <2>2. i + 1 \in 1..Len(s) /\ 1 \in 1..Len(s) /\ s[i + 1] = x /\ i + 1 # 1
    BY <1>1, <1>2, <2>1
  <2>. QED
    BY <1>1, <2>2 DEF Listed, OnlyOnce
<1>5. ASSUME NEW x \in Msg, Listed(x, s), x # m  PROVE Listed(x, t)
  <2>1. PICK i \in 1..Len(s) : s[i] = x
    BY <1>5 DEF Listed
  <2>2. i - 1 \in 1..Len(t) /\ t[i - 1] = x
    BY <1>1, <1>2, <1>5, <2>1
  <2>. QED
    BY <2>2 DEF Listed
<1>. QED
  BY <1>1, <1>3, <1>4, <1>5 DEF t

-----------------------------------------------------------------------------
(* The messages in the buffers: where they are, how they came there, and what *)
(* they wait for                                                              *)

\* A list holds, once each, the messages whose buffer it is.
ListsExact ==
    \A b \in Buffer :
        /\ OnlyOnce(queue[b])
        /\ \A m \in Msg : Listed(m, queue[b]) <=> InNetwork(m) /\ place[m] = b

CountsExact == \A b \in Buffer : Counts(queue[b], count[b]) /\ count[b] <= BufferSize[b]

\* A message is on the link that the table names for its destination, and has
\* arrived when it is received.
OnRoute ==
    \A m \in Msg :
        /\ InNetwork(m) => route.out[<<place[m][2][1], Dst[m]>>] = OutBuf(place[m][2])
        /\ stage[m] \in {"receive", "absorb"} => NodeOf(place[m]) = Dst[m]

\* The buffer a message moves to next; one that has arrived stays.
Needs(m) == IF stage[m] = "send" THEN FirstBuffer(m)
            ELSE IF stage[m] = "out" THEN InBuf(place[m][2])
            ELSE IF NodeOf(place[m]) = Dst[m] THEN place[m] ELSE NextBuffer(m)

WaitsExact ==
    \A m \in Msg : waits[m] # None => waits[m] \in {place[m], Needs(m)}

FlowInv == ListsExact /\ CountsExact /\ OnRoute /\ WaitsExact

LEMMA InNetworkPlaces ==
    ASSUME NetInv
    PROVE  \A m \in Msg : /\ InNetwork(m) => place[m] \in Buffer /\ place[m] # None
                          /\ ~ InNetwork(m) => place[m] = None
<1>. SUFFICES ASSUME NEW m \in Msg
              PROVE  /\ InNetwork(m) => place[m] \in Buffer /\ place[m] # None
                     /\ ~ InNetwork(m) => place[m] = None
  OBVIOUS
<1>1. stage[m] \in Stages
  BY DEF NetInv, NetTypeOK
<1>2. InNetwork(m) => IsOut(place[m]) \/ IsIn(place[m])
  BY DEF NetInv, StagesExact, InNetwork
<1>3. \A b : IsOut(b) \/ IsIn(b) => b \in Buffer
  BY DEF IsOut, IsIn, Buffer
<1>4. ~ InNetwork(m) => place[m] = None
  BY <1>1 DEF NetInv, StagesExact, InNetwork, Stages
<1>. QED
  BY <1>2, <1>3, <1>4, Sizes

\* Nothing moves.
LEMMA FlowWaits ==
    ASSUME NetInv, FlowInv, NEW m \in Msg, UNCHANGED <<route, place, queue, count>>,
           UNCHANGED stage \/ (~ InNetwork(m) /\ stage' = [stage EXCEPT ![m] = "send"]),
           \/ UNCHANGED waits /\ (UNCHANGED stage \/ waits[m] = None)
           \/ \E b \in {place[m], Needs(m)'} : waits' = [waits EXCEPT ![m] = b]
    PROVE  FlowInv'
<1>. USE DEF NetInv, FlowInv
<1>0. \A x \in Msg : /\ InNetwork(x)' <=> InNetwork(x)
                     /\ x # m => stage'[x] = stage[x]
                     /\ stage'[x] \in {"receive", "absorb"} => stage[x] = stage'[x]
  BY DEF InNetwork, NetTypeOK
<1>1. ListsExact'
  BY <1>0 DEF ListsExact
<1>2. CountsExact'
  BY DEF CountsExact
<1>3. OnRoute'
  BY <1>0 DEF OnRoute
<1>4. WaitsExact'
  <2>1. \A x \in Msg : x # m => Needs(x)' = Needs(x)
    BY <1>0 DEF Needs, FirstBuffer, NextBuffer, NodeOf
  <2>2. ASSUME NEW x \in Msg, x # m, waits'[x] # None  PROVE waits'[x] \in {place[x], Needs(x)'}
    BY <2>1, <2>2 DEF WaitsExact, NetTypeOK
  <2>3. ASSUME waits'[m] # None  PROVE waits'[m] \in {place[m], Needs(m)'}
    <3>1. CASE UNCHANGED waits /\ UNCHANGED stage
      BY <2>3, <3>1 DEF WaitsExact, Needs, FirstBuffer, NextBuffer, NodeOf
    <3>2. CASE ~ (UNCHANGED waits /\ UNCHANGED stage)
      BY <2>3, <3>2 DEF NetTypeOK
    <3>. QED
      BY <3>1, <3>2
  <2>. QED
    BY <2>2, <2>3 DEF WaitsExact
<1>. QED
  BY <1>1, <1>2, <1>3, <1>4

LEMMA FlowSend ==
    ASSUME NetInv, FlowInv, NEW m \in Msg, Send(m)
    PROVE  FlowInv'
<1>. USE DEF NetInv, FlowInv
<1>. DEFINE b == FirstBuffer(m)
<1>1. PICK l \in Link : b = OutBuf(l) /\ l[1] = Src[m]
  <2>1. <<Src[m], Dst[m]>> \in Node \X Node /\ route \in Tables /\ b # None
    BY MessageNodes DEF Send, NetTypeOK
  <2>2. b \in {OutBuf(l) : l \in Link} /\ NodeOf(b) = Src[m]
    BY <2>1, NetworkAssumption DEF FirstBuffer
  <2>. QED
    BY <2>2 DEF NodeOf, OutBuf
<1>2. waits[m] = None /\ ~ InNetwork(m) /\ b \in Buffer /\ b[2] = l
  BY <1>1 DEF Send, CanTry, Ready, StagesExact, InNetwork, Buffer, OutBuf
<1>3. /\ queue' = [queue EXCEPT ![b] = Append(queue[b], m)]
      /\ count' = [count EXCEPT ![b] = count[b] + Size[m]]
      /\ place' = [place EXCEPT ![m] = b]
      /\ stage' = [stage EXCEPT ![m] = "out"]
      /\ count[b] + Size[m] <= BufferSize[b]
      /\ UNCHANGED <<route, waits>>
  BY DEF Send, Fits
<1>4. b = route.out[<<l[1], Dst[m]>>]
  BY <1>1 DEF FirstBuffer
<1>. HIDE DEF b
<1>5. \A x \in Msg : /\ InNetwork(x)' <=> InNetwork(x) \/ x = m
                     /\ x # m => place'[x] = place[x] /\ stage'[x] = stage[x]
                     /\ place'[m] = b /\ stage'[m] = "out"
  BY <1>3 DEF InNetwork, NetTypeOK
<1>6. queue[b] \in Seq(Msg) /\ ~ Listed(m, queue[b])
  BY <1>2 DEF NetTypeOK, ListsExact
<1>7. ListsExact'
  <2>. SUFFICES ASSUME NEW a \in Buffer
                PROVE  /\ OnlyOnce(queue'[a])
                       /\ \A x \in Msg : Listed(x, queue'[a]) <=> InNetwork(x)' /\ place'[x] = a
    BY DEF ListsExact
  <2>1. CASE a = b
    <3>1. queue'[a] = Append(queue[b], m)
      BY <1>2, <1>3, <2>1 DEF NetTypeOK
    <3>2. OnlyOnce(queue[b])
      BY <1>2 DEF ListsExact
    <3>. QED
      BY <1>2, <1>5, <1>6, <2>1, <3>1, <3>2, AppendOnce DEF ListsExact
  <2>2. CASE a # b
    <3>1. queue'[a] = queue[a]
      BY <1>3, <2>2 DEF NetTypeOK
    <3>. QED
      BY <1>2, <1>5, <2>2, <3>1 DEF ListsExact
  <2>. QED
    BY <2>1, <2>2
<1>8. CountsExact'
  <2>1. Counts(queue'[b], count'[b]) /\ count'[b] <= BufferSize[b]
    BY <1>2, <1>3, <1>6, CountsList DEF CountsExact, NetTypeOK
  <2>. QED
    BY <1>3, <2>1 DEF CountsExact, NetTypeOK
<1>9. OnRoute'
  <2>1. ASSUME NEW x \in Msg, x # m
        PROVE  /\ InNetwork(x)' => route'.out[<<place'[x][2][1], Dst[x]>>] = OutBuf(place'[x][2])
               /\ stage'[x] \in {"receive", "absorb"} => NodeOf(place'[x]) = Dst[x]
    BY <1>3, <1>5, <2>1 DEF OnRoute
  <2>2. /\ route'.out[<<place'[m][2][1], Dst[m]>>] = OutBuf(place'[m][2])
        /\ stage'[m] = "out"
    BY <1>1, <1>2, <1>3, <1>4, <1>5
  <2>. QED
    BY <2>1, <2>2 DEF OnRoute
<1>10. WaitsExact'
  <2>1. \A x \in Msg : x # m => Needs(x)' = Needs(x)
    BY <1>3, <1>5 DEF Needs, FirstBuffer, NextBuffer, NodeOf
  <2>. QED
    BY <1>2, <1>3, <1>5, <2>1 DEF WaitsExact
<1>. QED
  BY <1>7, <1>8, <1>9, <1>10

LEMMA FlowMove ==
    ASSUME NetInv, FlowInv, NEW m \in Msg, NEW src \in Buffer, NEW dst \in Buffer, src # dst,
           InNetwork(m), place[m] = src, AtHead(m), Move(m, src, dst), Fits(dst, m),
           stage' = [stage EXCEPT ![m] = "in"] \/ stage' = [stage EXCEPT ![m] = "out"],
           route.out[<<dst[2][1], Dst[m]>>] = OutBuf(dst[2]), waits[m] = None, UNCHANGED route
    PROVE  FlowInv'
<1>. USE DEF NetInv, FlowInv
<1>1. /\ queue[src] \in Seq(Msg) /\ queue[dst] \in Seq(Msg)
      /\ Listed(m, queue[src]) /\ Head(queue[src]) = m /\ ~ Listed(m, queue[dst])
      /\ OnlyOnce(queue[src]) /\ OnlyOnce(queue[dst])
  BY DEF NetTypeOK, ListsExact, AtHead
<1>2. /\ queue' = [queue EXCEPT ![src] = Tail(queue[src]), ![dst] = Append(queue[dst], m)]
      /\ count' = [count EXCEPT ![src] = count[src] - Size[m], ![dst] = count[dst] + Size[m]]
      /\ place' = [place EXCEPT ![m] = dst]
      /\ waits' = [x \in Msg |-> IF waits[x] = src THEN None ELSE waits[x]]
  BY DEF Move, Woken, NetTypeOK
<1>3. /\ queue'[src] = Tail(queue[src]) /\ queue'[dst] = Append(queue[dst], m)
      /\ count'[src] = count[src] - Size[m] /\ count'[dst] = count[dst] + Size[m]
      /\ \A a \in Buffer : a \notin {src, dst} => queue'[a] = queue[a] /\ count'[a] = count[a]
  BY <1>2 DEF NetTypeOK
<1>4. \A x \in Msg : /\ InNetwork(x)' <=> InNetwork(x)
                     /\ x # m => place'[x] = place[x] /\ stage'[x] = stage[x]
                     /\ place'[m] = dst /\ stage'[m] \in {"in", "out"}
  BY <1>2 DEF InNetwork, NetTypeOK
<1>5. ListsExact'
  <2>. SUFFICES ASSUME NEW a \in Buffer
                PROVE  /\ OnlyOnce(queue'[a])
                       /\ \A x \in Msg : Listed(x, queue'[a]) <=> InNetwork(x)' /\ place'[x] = a
    BY DEF ListsExact
  <2>1. CASE a = src
    <3>1. /\ OnlyOnce(queue'[src])
          /\ \A x \in Msg : Listed(x, queue'[src]) <=> Listed(x, queue[src]) /\ x # m
      BY <1>1, <1>3, TailOnce
    <3>. QED
      BY <1>4, <2>1, <3>1 DEF ListsExact
  <2>2. CASE a = dst
    <3>1. /\ OnlyOnce(queue'[dst])
          /\ \A x \in Msg : Listed(x, queue'[dst]) <=> Listed(x, queue[dst]) \/ x = m
      BY <1>1, <1>3, AppendOnce
    <3>. QED
      BY <1>4, <2>2, <3>1 DEF ListsExact
  <2>3. CASE a \notin {src, dst}
    BY <1>3, <1>4, <2>3 DEF ListsExact
  <2>. QED
    BY <2>1, <2>2, <2>3
<1>6. CountsExact'
  <2>1. Counts(queue'[dst], count'[dst]) /\ count'[dst] <= BufferSize[dst]
    BY <1>1, <1>3, CountsList DEF CountsExact, Fits
  <2>2. Counts(queue'[src], count'[src]) /\ count'[src] <= BufferSize[src]
    <3>1. queue[src] # <<>>
      BY <1>1, TailOnce
    <3>2. Counts(queue'[src], count'[src])
      BY <1>1, <1>3, <3>1, CountsList DEF CountsExact
    <3>. QED
      BY <1>3, <3>2, Sizes DEF CountsExact, NetTypeOK
  <2>. QED
    BY <1>3, <2>1, <2>2 DEF CountsExact
<1>7. OnRoute'
  <2>1. ASSUME NEW x \in Msg, x # m
        PROVE  /\ InNetwork(x)' => route'.out[<<place'[x][2][1], Dst[x]>>] = OutBuf(place'[x][2])
               /\ stage'[x] \in {"receive", "absorb"} => NodeOf(place'[x]) = Dst[x]
    BY <1>4, <2>1 DEF OnRoute
  <2>2. route'.out[<<place'[m][2][1], Dst[m]>>] = OutBuf(place'[m][2])
    BY <1>4
  <2>. QED
    BY <1>4, <2>1, <2>2 DEF OnRoute
<1>8. WaitsExact'
  <2>1. \A x \in Msg : x # m => Needs(x)' = Needs(x)
    BY <1>4 DEF Needs, FirstBuffer, NextBuffer, NodeOf
  <2>2. ASSUME NEW x \in Msg, waits'[x] # None  PROVE x # m /\ waits'[x] = waits[x]
    BY <1>2, <2>2
  <2>. QED
    BY <1>4, <2>1, <2>2 DEF WaitsExact
<1>. QED
  BY <1>5, <1>6, <1>7, <1>8

LEMMA FlowAbsorb ==
    ASSUME NetInv, FlowInv, NEW m \in Msg, Absorb(m)
    PROVE  FlowInv'
<1>. USE DEF NetInv, FlowInv
<1>. DEFINE b == place[m]
<1>1. b \in Buffer /\ b # None /\ InNetwork(m) /\ waits[m] = None /\ Head(queue[b]) = m
  BY InNetworkPlaces DEF Absorb, Ready, InNetwork, AllListed, AtHead
<1>2. queue[b] \in Seq(Msg) /\ Listed(m, queue[b]) /\ OnlyOnce(queue[b])
  BY <1>1 DEF NetTypeOK, ListsExact
<1>3. /\ queue' = [queue EXCEPT ![b] = Tail(queue[b])]
      /\ count' = [count EXCEPT ![b] = count[b] - Size[m]]
      /\ place' = [place EXCEPT ![m] = None]
      /\ stage' \in {[stage EXCEPT ![m] = "unsent"], [stage EXCEPT ![m] = "done"]}
      /\ waits' = [x \in Msg |-> IF waits[x] = b THEN None ELSE waits[x]]
      /\ route' = route
  BY DEF Absorb, Woken
<1>. HIDE DEF b
<1>4. \A x \in Msg : /\ InNetwork(x)' <=> InNetwork(x) /\ x # m
                     /\ x # m => place'[x] = place[x] /\ stage'[x] = stage[x]
                     /\ stage'[m] \in {"unsent", "done"}
  BY <1>3 DEF InNetwork, NetTypeOK
<1>5. /\ queue'[b] = Tail(queue[b]) /\ count'[b] = count[b] - Size[m]
      /\ \A a \in Buffer : a # b => queue'[a] = queue[a] /\ count'[a] = count[a]
  BY <1>1, <1>3 DEF NetTypeOK
<1>6. ListsExact'
  <2>. SUFFICES ASSUME NEW a \in Buffer
                PROVE  /\ OnlyOnce(queue'[a])
                       /\ \A x \in Msg : Listed(x, queue'[a]) <=> InNetwork(x)' /\ place'[x] = a
    BY DEF ListsExact
  <2>1. CASE a = b
    BY <1>1, <1>2, <1>4, <1>5, <2>1, TailOnce DEF ListsExact
  <2>2. CASE a # b
    <3>1. \A x \in Msg : Listed(x, queue[a]) => x # m
      BY <2>2 DEF ListsExact, b
    <3>. QED
      BY <1>4, <1>5, <2>2, <3>1 DEF ListsExact
  <2>. QED
    BY <2>1, <2>2
<1>7. CountsExact'
  <2>1. Counts(queue'[b], count'[b])
    BY <1>1, <1>2, <1>5, TailOnce, CountsList DEF CountsExact
  <2>2. count'[b] <= BufferSize[b]
    BY <1>1, <1>5, Sizes DEF CountsExact, NetTypeOK
  <2>. QED
    BY <1>5, <2>1, <2>2 DEF CountsExact
<1>8. OnRoute'
  BY <1>3, <1>4 DEF OnRoute
<1>9. WaitsExact'
  <2>1. \A x \in Msg : x # m => Needs(x)' = Needs(x)
    BY <1>3, <1>4 DEF Needs, FirstBuffer, NextBuffer, NodeOf
  <2>2. ASSUME NEW x \in Msg, waits'[x] # None  PROVE x # m /\ waits'[x] = waits[x]
    BY <1>1, <1>3, <2>2
  <2>. QED
    BY <1>4, <2>1, <2>2 DEF WaitsExact
<1>. QED
  BY <1>6, <1>7, <1>8, <1>9

LEMMA FlowArrive ==
    ASSUME NetInv, FlowInv, NEW m \in Msg, Arrive(m) \/ Receive(m)
    PROVE  FlowInv'
<1>. USE DEF NetInv, FlowInv
<1>1. /\ UNCHANGED <<route, place, waits, queue, count>>
      /\ stage' \in {[stage EXCEPT ![m] = "receive"], [stage EXCEPT ![m] = "absorb"]}
      /\ InNetwork(m) /\ waits[m] = None /\ NodeOf(place[m]) = Dst[m]
  BY DEF Arrive, Receive, Ready, OnRoute, InNetwork
<1>2. \A x \in Msg : /\ InNetwork(x)' <=> InNetwork(x)
                     /\ x # m => stage'[x] = stage[x]
  BY <1>1 DEF InNetwork, NetTypeOK
<1>3. ListsExact'
  BY <1>1, <1>2 DEF ListsExact
<1>4. CountsExact'
  BY <1>1 DEF CountsExact
<1>5. OnRoute'
  BY <1>1, <1>2 DEF OnRoute
<1>6. WaitsExact'
  <2>1. \A x \in Msg : x # m => Needs(x)' = Needs(x)
    BY <1>1, <1>2 DEF Needs, FirstBuffer, NextBuffer, NodeOf
  <2>. QED
    BY <1>1, <2>1 DEF WaitsExact
<1>. QED
  BY <1>3, <1>4, <1>5, <1>6

LEMMA FlowStep ==
    ASSUME NetInv, FlowInv, [Next]_vars
    PROVE  FlowInv'
<1>1. ASSUME NEW m \in Msg, SendLater(m)  PROVE FlowInv'
  <2>1. ~ InNetwork(m) /\ stage'[m] = "send"
    BY <1>1 DEF SendLater, CanTry, Ready, InNetwork, NetInv, NetTypeOK
  <2>2. /\ UNCHANGED <<route, place, queue, count>>
        /\ stage' = [stage EXCEPT ![m] = "send"] /\ waits[m] = None
    BY <1>1 DEF SendLater, CanTry, Ready, NetInv, StagesExact
  <2>3. UNCHANGED waits \/ waits' = [waits EXCEPT ![m] = Needs(m)']
    BY <1>1, <2>1, <2>2 DEF SendLater, Retry, Wait, Needs, FirstBuffer
  <2>. QED
    BY <2>1, <2>2, <2>3, FlowWaits
<1>2. ASSUME NEW m \in Msg, OutputStall(m) \/ InputStall(m) \/ NotMyTurn(m)  PROVE FlowInv'
  <2>1. UNCHANGED <<route, stage, place, queue, count>>
    BY <1>2 DEF OutputStall, InputStall, NotMyTurn, MayCross
  <2>2. UNCHANGED waits \/ \E b \in {place[m], Needs(m)'} : waits' = [waits EXCEPT ![m] = b]
    BY <1>2, <2>1 DEF OutputStall, InputStall, NotMyTurn, Retry, Wait, Needs, NextBuffer, NodeOf
  <2>. QED
    BY <2>1, <2>2, FlowWaits
<1>3. ASSUME NEW m \in Msg, CrossLink(m)  PROVE FlowInv'
  <2>1. PICK l \in Link : place[m] = OutBuf(l)
    BY <1>3 DEF CrossLink, NetInv, StagesExact, IsOut
  <2>2. /\ place[m][2] = l /\ InBuf(l)[2] = l /\ place[m] # InBuf(l)
        /\ place[m] \in Buffer /\ InBuf(l) \in Buffer
    BY <2>1 DEF OutBuf, InBuf, Buffer
  <2>3. /\ Move(m, place[m], InBuf(l)) /\ stage' = [stage EXCEPT ![m] = "in"]
        /\ Fits(InBuf(l), m) /\ InNetwork(m) /\ waits[m] = None /\ AtHead(m) /\ UNCHANGED route
    BY <1>3, <2>2 DEF CrossLink, Ready, InNetwork
  <2>4. route.out[<<l[1], Dst[m]>>] = OutBuf(l)
    BY <2>2, <2>3 DEF FlowInv, OnRoute
  <2>. QED
    BY <2>2, <2>3, <2>4, FlowMove
<1>4. ASSUME NEW m \in Msg, CrossSwitch(m)  PROVE FlowInv'
  <2>1. IsIn(place[m]) /\ NodeOf(place[m]) \in Node /\ Dst[m] \in Node
    BY <1>4, LinksJoinNodes, MessageNodes
    DEF CrossSwitch, MayCross, NetInv, StagesExact, IsIn, InBuf, NodeOf
  <2>2. <<NodeOf(place[m]), Dst[m]>> \in Node \X Node /\ NextBuffer(m) # None /\ route \in Tables
    BY <1>4, <2>1 DEF CrossSwitch, MayCross, NetInv, NetTypeOK
  <2>3. /\ NextBuffer(m) \in {OutBuf(l) : l \in Link}
        /\ NodeOf(NextBuffer(m)) = NodeOf(place[m])
    BY <2>2, NetworkAssumption DEF NextBuffer
  <2>4. PICK l \in Link : NextBuffer(m) = OutBuf(l) /\ l[1] = NodeOf(place[m])
    BY <2>3 DEF NodeOf, OutBuf
  <2>5. /\ OutBuf(l)[2] = l /\ place[m] # OutBuf(l)
        /\ place[m] \in Buffer /\ OutBuf(l) \in Buffer
    BY <2>1, OutIsNotIn DEF IsOut, OutBuf
  <2>6. route.out[<<l[1], Dst[m]>>] = OutBuf(l)
    BY <2>4 DEF NextBuffer
  <2>7. /\ Move(m, place[m], OutBuf(l)) /\ stage' = [stage EXCEPT ![m] = "out"]
        /\ Fits(OutBuf(l), m) /\ InNetwork(m) /\ waits[m] = None /\ AtHead(m) /\ UNCHANGED route
    BY <1>4, <2>4 DEF CrossSwitch, MayCross, Ready, InNetwork
  <2>. QED
    BY <2>5, <2>6, <2>7, FlowMove
<1>5. ASSUME NEW m \in Msg, SendLater(m) \/ Send(m) \/ Handle(m)  PROVE FlowInv'
  BY <1>1, <1>2, <1>3, <1>4, <1>5, FlowSend, FlowArrive, FlowAbsorb DEF Handle
<1>6. CASE Tick \/ UNCHANGED vars
  <2>1. UNCHANGED <<route, stage, place, waits, queue, count>>
    BY <1>6 DEF Tick, vars
  <2>. QED
    BY <2>1 DEF FlowInv, ListsExact, CountsExact, OnRoute, WaitsExact, InNetwork, Needs,
                FirstBuffer, NextBuffer
<1>. QED
  BY <1>5, <1>6 DEF Next

LEMMA FlowInit == Init => FlowInv
<1>. SUFFICES ASSUME Init  PROVE FlowInv
  OBVIOUS
<1>1. ListsExact /\ OnRoute /\ WaitsExact
  BY DEF Init, ListsExact, OnRoute, WaitsExact, OnlyOnce, Listed, InNetwork
<1>2. Counts(<<>>, 0)
  <2>. DEFINE acc == [i \in 0..0 |-> 0]
  <2>1. Sums(<<>>, acc) /\ acc[Len(<<>>)] = 0
    BY DEF Sums
  <2>. QED
    BY <2>1 DEF Counts
<1>. QED
  BY <1>1, <1>2, Sizes DEF Init, FlowInv, CountsExact

\* A list names the messages of its buffer, once each, and the buffer counts
\* their sizes; so net_buffer_insert never overruns a buffer, nor does
\* net_buffer_extract ever take a message the buffer does not hold.
THEOREM BuffersStayExact == Spec => []BuffersExact
<1>1. NetInv /\ FlowInv /\ [Next]_vars => (NetInv /\ FlowInv)'
  BY NetStep, FlowStep
<1>2. NetInv /\ FlowInv => BuffersExact
  <2>. SUFFICES ASSUME NetInv, FlowInv, NEW b \in Buffer
                PROVE  /\ \A m \in Msg : Cardinality({i \in 1..Len(queue[b]) : queue[b][i] = m})
                                         = (IF InNetwork(m) /\ place[m] = b THEN 1 ELSE 0)
                       /\ count[b] = Occupancy(queue[b])
                       /\ count[b] <= BufferSize[b]
    BY DEF BuffersExact
  <2>1. ASSUME NEW m \in Msg
        PROVE  Cardinality({i \in 1..Len(queue[b]) : queue[b][i] = m})
               = (IF InNetwork(m) /\ place[m] = b THEN 1 ELSE 0)
    <3>. DEFINE P == {i \in 1..Len(queue[b]) : queue[b][i] = m}
    <3>1. Listed(m, queue[b]) <=> InNetwork(m) /\ place[m] = b
      BY DEF FlowInv, ListsExact
    <3>2. CASE Listed(m, queue[b])
      <4>1. PICK i \in 1..Len(queue[b]) : queue[b][i] = m
        BY <3>2 DEF Listed
      <4>2. P = {i}
        BY <4>1 DEF FlowInv, ListsExact, OnlyOnce
      <4>. QED
        BY <3>1, <3>2, <4>2, FS_Singleton
    <3>3. CASE ~ Listed(m, queue[b])
      <4>1. P = {}
        BY <3>3 DEF Listed
      <4>. QED
        BY <3>1, <3>3, <4>1, FS_EmptySet
    <3>. QED
      BY <3>2, <3>3
  <2>. QED
    BY <2>1, CountsList DEF NetInv, NetTypeOK, FlowInv, CountsExact
<1>. QED
  BY NetInit, FlowInit, <1>1, <1>2, PTL DEF Spec

\* What is waited for is not empty.
LEMMA WaitedForIsNotEmpty ==
    ASSUME NetInv, FlowInv, NEW m \in Msg, waits[m] # None
    PROVE  waits[m] \in Buffer /\ queue[waits[m]] # <<>> /\ count[waits[m]] > 0
<1>1. waits[m] \in Buffer /\ queue[waits[m]] \in Seq(Msg)
  BY DEF NetInv, NetTypeOK
<1>2. CASE waits[m] = place[m]
  <2>1. Listed(m, queue[waits[m]])
    BY <1>1, <1>2, InNetworkPlaces DEF FlowInv, ListsExact
  <2>2. queue[waits[m]] # <<>>
    BY <1>1, <2>1 DEF Listed
  <2>. QED
    BY <1>1, <2>2, CountsList DEF FlowInv, CountsExact
<1>3. CASE waits[m] # place[m]
  <2>1. ~ Fits(waits[m], m)
    BY <1>3 DEF NetInv, NoLostWakeup
  <2>2. count[waits[m]] # 0
    BY <1>1, <2>1, Sizes, NetworkAssumption DEF Fits
  <2>3. queue[waits[m]] # <<>>
    BY <1>1, <2>2, CountsList DEF FlowInv, CountsExact
  <2>. QED
    BY <1>1, <2>3, CountsList DEF FlowInv, CountsExact
<1>. QED
  BY <1>2, <1>3

\* In a network without a cycle of output buffers somebody can always go on: of
\* the links on which something is left, one leads to no other, and what is
\* nearest to the end of that link waits for nobody.
THEOREM NeverStuckWithoutCycle == Spec => []StuckOnlyOnCycles
<1>1. NetInv /\ FlowInv /\ [Next]_vars => (NetInv /\ FlowInv)'
  BY NetStep, FlowStep
<1>2. NetInv /\ FlowInv => StuckOnlyOnCycles
  <2>. SUFFICES ASSUME NetInv, FlowInv, Stuck, ~ route.hasCycle  PROVE FALSE
    BY DEF StuckOnlyOnCycles
  <2>. DEFINE Used(l) == queue[OutBuf(l)] # <<>> \/ queue[InBuf(l)] # <<>>
              S == {b \in {OutBuf(l) : l \in Link} : Used(b[2])}
  <2>0. \A l \in Link : /\ OutBuf(l) \in Buffer /\ InBuf(l) \in Buffer /\ OutBuf(l) # InBuf(l)
                        /\ OutBuf(l)[2] = l /\ InBuf(l)[2] = l
                        /\ NodeOf(OutBuf(l)) = l[1] /\ NodeOf(InBuf(l)) = l[2]
    BY DEF OutBuf, InBuf, Buffer, NodeOf
  <2>1. ASSUME NEW w \in Buffer, queue[w] # <<>>
        PROVE  w[2] \in Link /\ OutBuf(w[2]) \in S
    BY <2>0, <2>1 DEF Buffer
  <2>2. ASSUME NEW m \in Msg, waits[m] # None  PROVE waits[m] \in Buffer /\ queue[waits[m]] # <<>>
    BY <2>2, WaitedForIsNotEmpty
  \* The head of a list waits for the buffer it needs next.
  <2>3. ASSUME NEW b \in Buffer, queue[b] # <<>>
        PROVE  \E m \in Msg : /\ InNetwork(m) /\ place[m] = b /\ stage[m] \in {"out", "in"}
                              /\ Needs(m) \in Buffer /\ queue[Needs(m)] # <<>>
                              /\ Needs(m) # place[m]
    <3>. DEFINE m == Head(queue[b])
    <3>1. queue[b] \in Seq(Msg)
      BY DEF NetInv, NetTypeOK
    <3>2. m \in Msg /\ Listed(m, queue[b])
      BY <2>3, <3>1 DEF Listed
    <3>3. InNetwork(m) /\ place[m] = b /\ AtHead(m)
      BY <3>2 DEF FlowInv, ListsExact, AtHead
    <3>. HIDE DEF m
    <3>4. waits[m] # None
      BY <3>2, <3>3 DEF Stuck, InFlight
    <3>5. stage[m] \in {"out", "in"}
      BY <3>2, <3>3, <3>4 DEF NetInv, StagesExact, InNetwork
    <3>6. waits[m] = Needs(m) /\ waits[m] # place[m]
      BY <3>2, <3>3, <3>4 DEF NetInv, NoLostWakeup, FlowInv, WaitsExact
    <3>. QED
      BY <2>2, <3>2, <3>3, <3>4, <3>5, <3>6
  <2>4. S # {}
    <3>1. PICK m \in Msg : waits[m] # None
      BY DEF Stuck
    <3>. QED
      BY <2>1, <2>2, <3>1
  <2>5. PICK b \in S : \A c \in S : ~ DependsOn(route, b, c)
    <3>1. route \in Tables
      BY DEF NetInv, NetTypeOK
    <3>2. Acyclic(route)
      BY <3>1, NetworkAssumption
    <3>. QED
      BY <2>4, <3>2 DEF Acyclic
  <2>6. PICK l \in Link : b = OutBuf(l)
    OBVIOUS
  <2>7. queue[InBuf(l)] # <<>>
    <3>. SUFFICES ASSUME queue[OutBuf(l)] # <<>>  PROVE queue[InBuf(l)] # <<>>
      BY <2>0, <2>6
    <3>1. PICK m \in Msg : /\ InNetwork(m) /\ place[m] = OutBuf(l) /\ stage[m] \in {"out", "in"}
                           /\ Needs(m) \in Buffer /\ queue[Needs(m)] # <<>>
                           /\ Needs(m) # place[m]
      BY <2>0, <2>3
    <3>2. stage[m] = "out"
      BY <3>1, OutIsNotIn DEF NetInv, StagesExact, IsOut, IsIn
    <3>. QED
      BY <2>0, <3>1, <3>2 DEF Needs
  <2>8. PICK m \in Msg : /\ InNetwork(m) /\ place[m] = InBuf(l) /\ stage[m] \in {"out", "in"}
                         /\ Needs(m) \in Buffer /\ queue[Needs(m)] # <<>>
                         /\ Needs(m) # place[m]
    BY <2>0, <2>3, <2>7
  <2>9. stage[m] = "in"
    BY <2>8, OutIsNotIn DEF NetInv, StagesExact, IsOut, IsIn
  <2>10. l[2] # Dst[m] /\ Needs(m) = route.out[<<l[2], Dst[m]>>]
    BY <2>0, <2>8, <2>9 DEF Needs, NextBuffer
  <2>11. Dst[m] \in Node /\ l[2] \in Node /\ Needs(m) # None
    BY <2>8, LinksJoinNodes, MessageNodes, Sizes
  <2>12. PICK k \in Link : Needs(m) = OutBuf(k)
    BY <2>10, <2>11, RoutesAreOutputs DEF IsOut, NetInv, NetTypeOK
  <2>13. OutBuf(k) \in S
    BY <2>0, <2>1, <2>8, <2>12
  <2>14. route.out[<<l[1], Dst[m]>>] = b
    BY <2>0, <2>6, <2>8 DEF FlowInv, OnRoute
  <2>15. DependsOn(route, b, OutBuf(k))
    <3>1. NodeOf(b) = l[1] /\ b[2][2] = l[2]
      BY <2>0, <2>6
    <3>2. route.out[<<l[2], Dst[m]>>] = OutBuf(k)
      BY <2>10, <2>12
    <3>. QED
      BY <2>10, <2>11, <2>14, <3>1, <3>2 DEF DependsOn
  <2>. QED
    BY <2>5, <2>13, <2>15
<1>. QED
  BY NetInit, FlowInit, <1>1, <1>2, PTL DEF Spec

-----------------------------------------------------------------------------
(* Types and assertions *)

\* A function may be defined by recursion up to n, in only one way.
LEMMA RecursionExists ==
    ASSUME NEW V, NEW v \in V, NEW n \in Nat, NEW step \in [1..n -> [V -> V]]
    PROVE  \E g \in [0..n -> V] : g[0] = v /\ \A i \in 1..n : g[i] = step[i][g[i-1]]
<1>. DEFINE Upto(k, g) == /\ g \in [0..k -> V] /\ g[0] = v
                          /\ \A i \in 1..k : g[i] = step[i][g[i-1]]
            B == {k \in 0..n : ~ \E g : Upto(k, g)}
<1>1. CASE B = {}
  BY <1>1
<1>2. CASE B # {}
  <2>0. B \in SUBSET Nat
    OBVIOUS
  <2>1. PICK k \in B : \A j \in B : k <= j
    BY <1>2, <2>0, Least
  <2>2. CASE k = 0
    <3>. DEFINE g == [i \in 0..0 |-> v]
    <3>1. Upto(0, g)
      OBVIOUS
    <3>. QED
      BY <2>1, <2>2, <3>1
  <2>3. CASE k # 0
    <3>1. k - 1 \in 0..n /\ k - 1 \notin B /\ k \in 1..n
      BY <2>1, <2>3
    <3>2. PICK h : Upto(k - 1, h)
      BY <3>1
    <3>. DEFINE g == [i \in 0..k |-> IF i = k THEN step[k][h[k-1]] ELSE h[i]]
    <3>3. h[k-1] \in V /\ step[k][h[k-1]] \in V
      BY <3>1, <3>2
    <3>4. g \in [0..k -> V] /\ g[0] = v
      BY <2>3, <3>1, <3>2, <3>3
    <3>5. ASSUME NEW i \in 1..k  PROVE g[i] = step[i][g[i-1]]
      <4>0. i - 1 \in 0..(k - 1) /\ i - 1 # k /\ i - 1 \in 0..k /\ i \in 0..k
        BY <3>1
      <4>1. g[i-1] = h[i-1]
        BY <4>0
      <4>2. CASE i = k
        BY <4>0, <4>1, <4>2
      <4>3. CASE i # k
        <5>1. i \in 1..(k - 1) /\ g[i] = h[i]
          BY <3>1, <4>0, <4>3
        <5>. QED
          BY <3>2, <4>1, <5>1
      <4>. QED
        BY <4>2, <4>3
    <3>6. Upto(k, g)
      BY <3>4, <3>5
    <3>. QED
      BY <2>1, <3>6
  <2>. QED
    BY <2>2, <2>3
<1>. QED
  BY <1>1, <1>2

LEMMA InputBuffersList ==
    ASSUME NEW n
    PROVE  InputBuffers(n) \in Seq({InBuf(l) : l \in Link})
<1>. DEFINE N == Len(LinkList)
            V == Seq({InBuf(l) : l \in Link})
            More(i, q) == IF LinkList[i][2] = n THEN Append(q, InBuf(LinkList[i])) ELSE q
            step == [i \in 1..N |-> [q \in V |-> More(i, q)]]
            Eq(g) == g = [i \in 0..N |-> IF i = 0 THEN <<>> ELSE More(i, g[i-1])]
            list == CHOOSE g : Eq(g)
<1>1. N \in Nat /\ \A i \in 1..N : InBuf(LinkList[i]) \in {InBuf(l) : l \in Link}
  <2>1. N \in Nat /\ DOMAIN LinkList = 1..N
    BY LinkListType
  <2>2. \A i \in 1..N : LinkList[i] \in Link
    BY <2>1 DEF Link, ToSet
  <2>. QED
    BY <2>1, <2>2
<1>2. <<>> \in V
  OBVIOUS
<1>3. \A i \in 1..N, q \in V : More(i, q) \in V
  BY <1>1
<1>4. InputBuffers(n) = list[N]
  BY DEF InputBuffers
<1>. HIDE DEF V, N, More
<1>5. step \in [1..N -> [V -> V]]
  BY <1>3
<1>. HIDE DEF step
<1>6. \E g \in [0..N -> V] : g[0] = <<>> /\ \A i \in 1..N : g[i] = step[i][g[i-1]]
  BY <1>1, <1>2, <1>5, RecursionExists
<1>7. PICK g \in [0..N -> V] : g[0] = <<>> /\ \A i \in 1..N : g[i] = step[i][g[i-1]]
  BY <1>6
<1>8. ASSUME NEW i \in 1..N  PROVE i - 1 \in 0..N /\ g[i-1] \in V /\ g[i] = More(i, g[i-1])
  <2>1. i - 1 \in 0..N /\ g[i-1] \in V
    BY <1>1, <1>7
  <2>2. \A q \in V : step[i][q] = More(i, q)
    BY DEF step
  <2>. QED
    BY <1>7, <2>1, <2>2
<1>9. Eq(g)
  BY <1>1, <1>7, <1>8
<1>10. Eq(list)
  BY <1>9
<1>. HIDE DEF list
<1>11. list[0] = <<>> /\ \A i \in 1..N : list[i] = More(i, list[i-1])
  BY <1>1, <1>10
<1>12. ASSUME NEW k \in 0..N, list[k] # g[k]  PROVE FALSE
  <2>. DEFINE B == {i \in 0..N : list[i] # g[i]}
  <2>0. B \in SUBSET Nat /\ B # {}
    BY <1>12
  <2>1. PICK i \in B : \A j \in B : i <= j
    BY <2>0, Least
  <2>2. i \in 1..N
    BY <1>1, <1>7, <1>11, <2>1
  <2>3. i - 1 \in 0..N /\ i - 1 \notin B
    BY <1>1, <2>1, <2>2
  <2>. QED
    BY <1>8, <1>11, <2>1, <2>2, <2>3
<1>. QED
  BY <1>1, <1>4, <1>7, <1>12 DEF V

\* Every counter is a number, and while a message is in the network its next
\* event does not come before the end of its last transfer.
TimesExact ==
    /\ due \in [Msg -> Nat] /\ msgBusy \in [Msg -> Nat]
    /\ readBusy \in [Buffer -> Nat] /\ writeBusy \in [Buffer -> Nat]
    /\ linkBusy \in [Link -> Nat]
    /\ \A m \in Msg : InNetwork(m) => msgBusy[m] <= due[m]

\* The scheduler's last choice is an input buffer of the same node.
ChoicesExact ==
    /\ schedNow \in [Buffer -> BOOLEAN]
    /\ schedBuf \in [Buffer -> Buffer \cup {None}]
    /\ \A b \in Buffer : schedBuf[b] # None =>
           \E i \in 1..Len(InputBuffers(NodeOf(b))) : InputBuffers(NodeOf(b))[i] = schedBuf[b]

LEMMA Latencies ==
    ASSUME NEW m \in Msg, NEW x \in Node \cup Link, x \notin EndNode
    PROVE  Latency(m, Bandwidth[x]) \in Nat
<1>1. Size[m] - 1 \in Nat /\ Bandwidth[x] \in Nat /\ Bandwidth[x] > 0
  BY NetworkAssumption
<1>2. (Size[m] - 1) \div Bandwidth[x] \in Nat
  BY <1>1
<1>. QED
  BY <1>2 DEF Latency

LEMMA ScheduleChoice ==
    ASSUME NetInv, ChoicesExact, NEW out \in Buffer
    PROVE  \/ Schedule(out) = None
           \/ /\ Schedule(out) \in Buffer
              /\ \E i \in 1..Len(InputBuffers(NodeOf(out))) :
                     InputBuffers(NodeOf(out))[i] = Schedule(out)
<1>. DEFINE into == InputBuffers(NodeOf(out))
            n == Len(into)
            last == IF schedBuf[out] = None THEN 1
                    ELSE CHOOSE i \in 1..n : into[i] = schedBuf[out]
            turn(i) == into[((last + i - 1) % n) + 1]
            ready == {i \in 1..n : Candidate(turn(i), out)}
            first == CHOOSE i \in ready : \A j \in ready : i <= j
<1>1. Schedule(out) = IF schedNow[out] THEN schedBuf[out]
                      ELSE IF ready = {} THEN None ELSE turn(first)
  BY DEF Schedule
<1>2. into \in Seq({InBuf(l) : l \in Link})
  BY InputBuffersList
<1>3. \A i \in 1..n : into[i] \in Buffer
  BY <1>2 DEF Buffer
<1>4. n \in Nat /\ last \in Nat /\ last >= 1
  BY <1>2 DEF ChoicesExact
<1>. HIDE DEF into, n, last
<1>5. ASSUME ready # {}  PROVE turn(first) \in Buffer /\ \E i \in 1..n : into[i] = turn(first)
  <2>1. ready \in SUBSET Nat
    BY <1>4
  <2>2. first \in ready
    BY <1>5, <2>1, Least
  <2>3. first \in 1..n
    BY <2>2
  <2>. HIDE DEF ready, first
  <2>4. ((last + first - 1) % n) + 1 \in 1..n
    <3>1. last + first - 1 \in Nat /\ n > 0
      BY <1>4, <2>3
    <3>. QED
      BY <1>4, <3>1
  <2>. QED
    BY <1>3, <2>4
<1>. HIDE DEF ready, first
<1>. QED
  BY <1>1, <1>5 DEF ChoicesExact, n, into

LEMMA TimesStep ==
    ASSUME NetInv, TimesExact, [Next]_vars
    PROVE  TimesExact'
<1>. USE DEF TimesExact
\* An event that is retried or waits had no transfer left.
<1>1. ASSUME NEW m \in Msg, UNCHANGED busyVars, UNCHANGED due \/ \E n \in Nat : due' = [due EXCEPT ![m] = n],
             \A x \in Msg : InNetwork(x)' => InNetwork(x), InNetwork(m) => due[m] = 0
      PROVE  TimesExact'
  <2>1. due' \in [Msg -> Nat] /\ \A x \in Msg : due'[x] = due[x] \/ x = m
    BY <1>1
  <2>2. ASSUME NEW x \in Msg, InNetwork(x)'  PROVE msgBusy'[x] <= due'[x]
    BY <1>1, <2>1, <2>2 DEF busyVars
  <2>. QED
    BY <1>1, <2>1, <2>2 DEF busyVars
<1>2. ASSUME NEW m \in Msg, SendLater(m)  PROVE TimesExact'
  <2>1. \A x \in Msg : InNetwork(x)' => InNetwork(x)
    BY <1>2 DEF SendLater, InNetwork, NetInv, NetTypeOK
  <2>2. ~ InNetwork(m) /\ UNCHANGED busyVars
    BY <1>2 DEF SendLater, CanTry, InNetwork
  <2>3. writeBusy[FirstBuffer(m)] \in Nat
    BY <1>2, MessageNodes, RoutesAreOutputs
    DEF SendLater, FirstBuffer, NetInv, NetTypeOK, IsOut, Buffer
  <2>4. UNCHANGED due \/ \E n \in Nat : due' = [due EXCEPT ![m] = n]
    BY <1>2, <2>3 DEF SendLater, Retry, Wait
  <2>. QED
    BY <1>1, <2>1, <2>2, <2>4
<1>3. ASSUME NEW m \in Msg, OutputStall(m)  PROVE TimesExact'
  <2>1. /\ readBusy[place[m]] \in Nat /\ linkBusy[place[m][2]] \in Nat
        /\ writeBusy[InBuf(place[m][2])] \in Nat
    BY <1>3 DEF OutputStall, NetInv, StagesExact, IsOut, OutBuf, InBuf, Buffer
  <2>2. UNCHANGED due \/ \E n \in Nat : due' = [due EXCEPT ![m] = n]
    BY <1>3, <2>1 DEF OutputStall, Retry, Wait
  <2>. QED
    BY <1>1, <1>3, <2>2 DEF OutputStall, Ready, InNetwork
<1>4. ASSUME NEW m \in Msg, InputStall(m)  PROVE TimesExact'
  <2>1. IsIn(place[m]) /\ NodeOf(place[m]) \in Node /\ Dst[m] \in Node
    BY <1>4, LinksJoinNodes, MessageNodes DEF InputStall, NetInv, StagesExact, IsIn, InBuf, NodeOf
  <2>2. /\ readBusy[place[m]] \in Nat
        /\ NextBuffer(m) # None => writeBusy[NextBuffer(m)] \in Nat
    BY <2>1, RoutesAreOutputs DEF NextBuffer, NetInv, NetTypeOK, IsOut, IsIn, Buffer
  <2>3. UNCHANGED due \/ \E n \in Nat : due' = [due EXCEPT ![m] = n]
    BY <1>4, <2>2 DEF InputStall, Retry, Wait
  <2>. QED
    BY <1>1, <1>4, <2>3 DEF InputStall, Ready, InNetwork
<1>5. ASSUME NEW m \in Msg, NotMyTurn(m)  PROVE TimesExact'
  <2>1. \E n \in Nat : due' = [due EXCEPT ![m] = n]
    BY <1>5 DEF NotMyTurn, Retry
  <2>. QED
    BY <1>1, <1>5, <2>1 DEF NotMyTurn, MayCross, Ready, InNetwork
<1>6. ASSUME NEW m \in Msg, Arrive(m) \/ Receive(m) \/ Absorb(m)  PROVE TimesExact'
  <2>1. \A x \in Msg : InNetwork(x)' => InNetwork(x)
    BY <1>6 DEF Arrive, Receive, Absorb, InNetwork, NetInv, NetTypeOK
  <2>2. InNetwork(m) => due[m] = 0
    BY <1>6 DEF Arrive, Receive, Absorb, Ready
  <2>. QED
    BY <1>1, <1>6, <2>1, <2>2 DEF Arrive, Receive, Absorb
\* A message that moves runs again when its transfer is over.
<1>7. ASSUME NEW m \in Msg, NEW n \in Nat, NEW a \in Buffer, NEW b \in Buffer, Occupy(m, a, b, n),
             linkBusy' \in [Link -> Nat], \A x \in Msg : x # m /\ InNetwork(x)' => InNetwork(x)
      PROVE  TimesExact'
  <2>1. /\ due' \in [Msg -> Nat] /\ msgBusy' \in [Msg -> Nat]
        /\ readBusy' \in [Buffer -> Nat] /\ writeBusy' \in [Buffer -> Nat]
    BY <1>7 DEF Occupy
  <2>2. ASSUME NEW x \in Msg, InNetwork(x)'  PROVE msgBusy'[x] <= due'[x]
    BY <1>7, <2>2 DEF Occupy
  <2>. QED
    BY <1>7, <2>1, <2>2
<1>8. ASSUME NEW m \in Msg, CrossLink(m)  PROVE TimesExact'
  <2>1. place[m] \in Buffer /\ place[m][2] \in Link /\ InBuf(place[m][2]) \in Buffer
    BY <1>8 DEF CrossLink, NetInv, StagesExact, IsOut, OutBuf, InBuf, Buffer
  <2>. DEFINE lat == Latency(m, Bandwidth[place[m][2]])
  <2>2. lat \in Nat
    <3>1. place[m][2] \notin EndNode
      BY <2>1, NetworkAssumption
    <3>. QED
      BY <2>1, <3>1, Latencies
  <2>3. /\ Occupy(m, place[m], InBuf(place[m][2]), lat)
        /\ linkBusy' = [linkBusy EXCEPT ![place[m][2]] = lat]
    BY <1>8 DEF CrossLink
  <2>4. \A x \in Msg : x # m /\ InNetwork(x)' => InNetwork(x)
    BY <1>8 DEF CrossLink, InNetwork, NetInv, NetTypeOK
  <2>. HIDE DEF lat
  <2>. QED
    BY <1>7, <2>1, <2>2, <2>3, <2>4
<1>9. ASSUME NEW m \in Msg, CrossSwitch(m)  PROVE TimesExact'
  <2>1. IsIn(place[m]) /\ NodeOf(place[m]) \in Node /\ Dst[m] \in Node
    BY <1>9, LinksJoinNodes, MessageNodes
    DEF CrossSwitch, MayCross, NetInv, StagesExact, IsIn, InBuf, NodeOf
  <2>2. place[m] \in Buffer /\ NextBuffer(m) \in Buffer
    BY <1>9, <2>1, RoutesAreOutputs
    DEF CrossSwitch, MayCross, NextBuffer, NetInv, NetTypeOK, IsOut, IsIn, Buffer
  <2>. DEFINE lat == Latency(m, Bandwidth[NodeOf(place[m])])
  <2>3. lat \in Nat
    <3>1. NodeOf(place[m]) \notin EndNode
      BY <1>9 DEF CrossSwitch
    <3>. QED
      BY <2>1, <3>1, Latencies
  <2>4. Occupy(m, place[m], NextBuffer(m), lat) /\ UNCHANGED linkBusy
    BY <1>9 DEF CrossSwitch
  <2>5. \A x \in Msg : x # m /\ InNetwork(x)' => InNetwork(x)
    BY <1>9 DEF CrossSwitch, InNetwork, NetInv, NetTypeOK
  <2>. HIDE DEF lat
  <2>. QED
    BY <1>7, <2>2, <2>3, <2>4, <2>5
<1>10. ASSUME NEW m \in Msg, Send(m)  PROVE TimesExact'
  <2>1. /\ due' = [due EXCEPT ![m] = 1] /\ msgBusy' = [msgBusy EXCEPT ![m] = 1]
        /\ writeBusy' = [writeBusy EXCEPT ![FirstBuffer(m)] = 1] /\ UNCHANGED <<readBusy, linkBusy>>
    BY <1>10 DEF Send
  <2>2. \A x \in Msg : x # m /\ InNetwork(x)' => InNetwork(x)
    BY <1>10 DEF Send, InNetwork, NetInv, NetTypeOK
  <2>3. ASSUME NEW x \in Msg, InNetwork(x)'  PROVE msgBusy'[x] <= due'[x]
    BY <2>1, <2>2, <2>3
  <2>. QED
    BY <2>1, <2>3
<1>11. CASE Tick
  <2>1. /\ due' = [m \in Msg |-> IF waits[m] = None /\ due[m] > 0 THEN due[m] - 1 ELSE due[m]]
        /\ readBusy' = Dec(readBusy) /\ writeBusy' = Dec(writeBusy)
        /\ linkBusy' = Dec(linkBusy) /\ msgBusy' = Dec(msgBusy) /\ UNCHANGED <<stage, waits>>
    BY <1>11 DEF Tick
  <2>2. /\ readBusy' \in [Buffer -> Nat] /\ writeBusy' \in [Buffer -> Nat]
        /\ linkBusy' \in [Link -> Nat] /\ msgBusy' \in [Msg -> Nat] /\ due' \in [Msg -> Nat]
    BY <2>1 DEF Dec
  <2>3. ASSUME NEW m \in Msg, InNetwork(m)'  PROVE msgBusy'[m] <= due'[m]
    <3>1. msgBusy[m] <= due[m] /\ due[m] \in Nat /\ msgBusy[m] \in Nat
      BY <2>1, <2>3 DEF InNetwork
    <3>2. /\ due'[m] = IF waits[m] = None /\ due[m] > 0 THEN due[m] - 1 ELSE due[m]
          /\ msgBusy'[m] = IF msgBusy[m] > 0 THEN msgBusy[m] - 1 ELSE 0
      BY <2>1 DEF Dec
    <3>. QED
      BY <3>1, <3>2
  <2>. QED
    BY <2>2, <2>3
<1>12. CASE UNCHANGED vars
  BY <1>12 DEF vars, InNetwork
<1>. QED
  BY <1>2, <1>3, <1>4, <1>5, <1>6, <1>8, <1>9, <1>10, <1>11, <1>12 DEF Next, Handle

LEMMA ChoicesStep ==
    ASSUME NetInv, ChoicesExact, [Next]_vars
    PROVE  ChoicesExact'
<1>1. CASE UNCHANGED schedVars
  BY <1>1 DEF ChoicesExact, schedVars
<1>2. CASE Tick
  BY <1>2 DEF Tick, ChoicesExact
<1>3. ASSUME NEW m \in Msg, MayCross(m)  PROVE ChoicesExact'
  <2>1. /\ NextBuffer(m) \in Buffer
    <3>1. IsIn(place[m]) /\ NodeOf(place[m]) \in Node /\ Dst[m] \in Node
      BY <1>3, LinksJoinNodes, MessageNodes DEF MayCross, NetInv, StagesExact, IsIn, InBuf, NodeOf
    <3>. QED
      BY <1>3, <3>1, RoutesAreOutputs DEF MayCross, NextBuffer, NetInv, NetTypeOK, IsOut, Buffer
  <2>. DEFINE out == NextBuffer(m)
              choice == Schedule(out)
  <2>2. /\ schedNow' = [schedNow EXCEPT ![out] = TRUE]
        /\ schedBuf' = [schedBuf EXCEPT ![out] = choice]
    BY <1>3 DEF MayCross
  <2>3. \/ choice = None
        \/ /\ choice \in Buffer
           /\ \E i \in 1..Len(InputBuffers(NodeOf(out))) : InputBuffers(NodeOf(out))[i] = choice
    BY <2>1, ScheduleChoice
  <2>. HIDE DEF out, choice
  <2>. QED
    BY <2>1, <2>2, <2>3 DEF ChoicesExact, out
<1>4. ASSUME NEW m \in Msg, SendLater(m) \/ Send(m) \/ Handle(m)  PROVE ChoicesExact'
  <2>1. CASE NotMyTurn(m) \/ CrossSwitch(m)
    BY <1>3, <2>1 DEF NotMyTurn, CrossSwitch
  <2>2. CASE ~ (NotMyTurn(m) \/ CrossSwitch(m))
    BY <1>1, <1>4, <2>2
    DEF Handle, SendLater, Send, OutputStall, CrossLink, InputStall, Arrive, Receive, Absorb
  <2>. QED
    BY <2>1, <2>2
<1>. QED
  BY <1>1, <1>2, <1>4 DEF Next, vars, schedVars

NetworkInv == NetInv /\ FlowInv /\ TimesExact /\ ChoicesExact

LEMMA NetworkInductive == Init /\ [][Next]_vars => []NetworkInv
<1>1. Init => NetworkInv
  BY NetInit, FlowInit
  DEF NetworkInv, Init, TimesExact, ChoicesExact, InNetwork
<1>2. NetworkInv /\ [Next]_vars => NetworkInv'
  BY NetStep, FlowStep, TimesStep, ChoicesStep DEF NetworkInv
<1>. QED
  BY <1>1, <1>2, PTL

\* Every field keeps its type; no occupancy and no time becomes negative.
THEOREM NetworkTypeCorrect == Spec => []TypeOK
<1>1. NetworkInv => TypeOK
  <2>. SUFFICES ASSUME NetworkInv  PROVE TypeOK
    OBVIOUS
  <2>1. \A b \in Buffer : count[b] \in Nat
    BY CountsList DEF NetworkInv, NetInv, NetTypeOK, FlowInv, CountsExact
  <2>2. count \in [Buffer -> Nat]
    BY <2>1 DEF NetworkInv, NetInv, NetTypeOK
  <2>. QED
    BY <2>2 DEF NetworkInv, NetInv, NetTypeOK, TimesExact, ChoicesExact, TypeOK
<1>. QED
  BY NetworkInductive, <1>1, PTL DEF Spec

\* A link out of a node that a route enters: the node is the destination, or a
\* switch whose table has a route on.
LEMMA RouteGoesOn ==
    ASSUME NetInv, FlowInv, WellRouted(route), NEW m \in Msg, stage[m] = "in",
           NodeOf(place[m]) # Dst[m]
    PROVE  /\ NodeOf(place[m]) \in Node /\ NodeOf(place[m]) \notin EndNode
           /\ NextBuffer(m) # None
<1>1. PICK l \in Link : place[m] = InBuf(l)
  BY DEF NetInv, StagesExact, IsIn
<1>2. /\ place[m][2] = l /\ NodeOf(place[m]) = l[2] /\ OutBuf(l)[2] = l /\ OutBuf(l) # None
      /\ l[1] \in Node /\ l[2] \in Node
  BY <1>1, LinksJoinNodes, NetworkAssumption DEF InBuf, OutBuf, NodeOf, Buffer
<1>3. Dst[m] \in EndNode
  BY MessageNodes
<1>4. route.out[<<l[1], Dst[m]>>] = OutBuf(l)
  BY <1>2 DEF FlowInv, OnRoute, InNetwork
<1>5. route.out[<<l[1], Dst[m]>>][2][2] = l[2]
  BY <1>2, <1>4
<1>6. l[2] # Dst[m] => l[2] \notin EndNode /\ route.out[<<l[2], Dst[m]>>] # None
  BY <1>2, <1>3, <1>4, <1>5 DEF WellRouted
<1>. QED
  BY <1>2, <1>6 DEF NextBuffer

\* No assertion of the handlers, of net_node_schedule, of net_receive or of
\* net_buffer_wait fails in a network whose routes lead through switches: those
\* on the node hold wherever a message is, and the others whatever the routes.
THEOREM NetworkAssertionsHold == Spec => [](WellRouted(route) => AssertionsHold)
<1>1. NetworkInv => (WellRouted(route) => AssertionsHold)
  <2>. SUFFICES ASSUME NetworkInv, WellRouted(route), NEW m \in Msg
                PROVE  /\ stage[m] = "in" /\ NodeOf(place[m]) # Dst[m] =>
                            /\ NodeOf(place[m]) \notin EndNode /\ Bandwidth[NodeOf(place[m])] > 0
                            /\ NextBuffer(m) # None
                       /\ Ready(m) /\ InNetwork(m) => msgBusy[m] = 0
                       /\ stage[m] \in {"receive", "absorb"} => NodeOf(place[m]) = Dst[m] /\ AtHead(m)
                       /\ waits[m] # None => count[waits[m]] > 0
    BY DEF AssertionsHold, SwitchesForward
  <2>1. Ready(m) /\ InNetwork(m) => msgBusy[m] = 0
    BY DEF NetworkInv, TimesExact, Ready
  <2>2. stage[m] \in {"receive", "absorb"} => NodeOf(place[m]) = Dst[m] /\ AtHead(m)
    BY DEF NetworkInv, FlowInv, OnRoute, NetInv, AllListed
  <2>3. waits[m] # None => count[waits[m]] > 0
    BY WaitedForIsNotEmpty DEF NetworkInv
  <2>4. ASSUME stage[m] = "in", NodeOf(place[m]) # Dst[m]
        PROVE  /\ NodeOf(place[m]) \notin EndNode /\ Bandwidth[NodeOf(place[m])] > 0
               /\ NextBuffer(m) # None
    <3>1. /\ NodeOf(place[m]) \in Node /\ NodeOf(place[m]) \notin EndNode
          /\ NextBuffer(m) # None
      BY <2>4, RouteGoesOn DEF NetworkInv
    <3>2. Bandwidth[NodeOf(place[m])] \in Nat /\ Bandwidth[NodeOf(place[m])] # 0
      BY <3>1, NetworkAssumption
    <3>. QED
      BY <3>1, <3>2
  <2>. QED
    BY <2>1, <2>2, <2>3, <2>4
<1>. QED
  BY NetworkInductive, <1>1, PTL DEF Spec

-----------------------------------------------------------------------------
(* Choosing from a list *)

\* A set of numbers up to n that has a and, with each, the next one.
LEMMA Upwards ==
    ASSUME NEW a \in Nat, NEW n \in Nat, NEW T, a \in T,
           \A h \in (a + 1)..n : h - 1 \in T => h \in T
    PROVE  a..n \subseteq T
<1>. DEFINE B == (a..n) \ T
<1>1. SUFFICES ASSUME B # {}  PROVE FALSE
  OBVIOUS
<1>2. B \in SUBSET Nat
  OBVIOUS
<1>3. PICK x \in B : \A y \in B : x <= y
  BY <1>1, <1>2, Least
<1>4. x \in (a + 1)..n
  BY <1>3
<1>5. x - 1 \in a..n /\ x - 1 \notin B
  BY <1>3, <1>4
<1>. QED
  BY <1>3, <1>4, <1>5

\* A set of numbers that has n and, with each, the one before.
LEMMA Downwards ==
    ASSUME NEW n \in Nat, NEW T, n \in T,
           \A h \in 0..(n - 1) : h + 1 \in T => h \in T
    PROVE  0..n \subseteq T
<1>. DEFINE D == {h \in 0..n : n - h \in T}
<1>1. 0 \in D
  OBVIOUS
<1>2. ASSUME NEW h \in (0 + 1)..n, h - 1 \in D  PROVE h \in D
  <2>1. n - h \in 0..(n - 1) /\ (n - h) + 1 = n - (h - 1)
    OBVIOUS
  <2>. QED
    BY <1>2, <2>1
<1>. HIDE DEF D
<1>3. 0..n \subseteq D
  BY <1>1, <1>2, Upwards
<1>4. ASSUME NEW h \in 0..n  PROVE h \in T
  <2>1. n - h \in 0..n /\ n - (n - h) = h
    OBVIOUS
  <2>. QED
    BY <1>3, <2>1 DEF D
<1>. QED
  BY <1>4

Made(V, v, n, step, g) ==
    g \in [0..n -> V] /\ g[0] = v /\ \A i \in 1..n : g[i] = step[i][g[i-1]]

LEMMA RecursionMade ==
    ASSUME NEW V, NEW v \in V, NEW n \in Nat, NEW step \in [1..n -> [V -> V]]
    PROVE  \E g : Made(V, v, n, step, g)
<1>1. PICK g \in [0..n -> V] : g[0] = v /\ \A i \in 1..n : g[i] = step[i][g[i-1]]
  BY RecursionExists
<1>2. Made(V, v, n, step, g)
  BY <1>1 DEF Made
<1>. QED
  BY <1>2

\* The recursion of Among.
AmongIn(s, S, g) ==
    /\ g \in [0..Len(s) -> Seq(Msg)]
    /\ g[0] = <<>> /\ Among(s, S) = g[Len(s)]
    /\ \A k \in 1..Len(s) : /\ s[k] \in S => g[k] = Append(g[k-1], s[k])
                            /\ s[k] \notin S => g[k] = g[k-1]

LEMMA AmongSteps ==
    ASSUME NEW s \in Seq(Msg), NEW S
    PROVE  \E g : AmongIn(s, S, g)
<1>. DEFINE N == Len(s)
            W == Seq(Msg)
            More(k, q) == IF s[k] \in S THEN Append(q, s[k]) ELSE q
            step == [k \in 1..N |-> [q \in W |-> More(k, q)]]
            Eq(g) == g = [k \in 0..N |-> IF k = 0 THEN <<>> ELSE More(k, g[k-1])]
            some == CHOOSE g : Eq(g)
<1>1. N \in Nat /\ \A k \in 1..N : s[k] \in Msg
  OBVIOUS
<1>2. <<>> \in W
  OBVIOUS
<1>3. \A k \in 1..N, q \in W : More(k, q) \in W
  BY <1>1
<1>4. Among(s, S) = some[N]
  BY DEF Among
<1>. HIDE DEF W, N, More
<1>5. step \in [1..N -> [W -> W]]
  BY <1>3
<1>. HIDE DEF step
<1>6. N \in Nat
  BY <1>1
<1>7. PICK g \in [0..N -> W] : g[0] = <<>> /\ \A k \in 1..N : g[k] = step[k][g[k-1]]
  <2>1. \E g : Made(W, <<>>, N, step, g)
    BY <1>2, <1>5, <1>6, RecursionMade
  <2>. QED
    BY <2>1 DEF Made
<1>8. ASSUME NEW k \in 1..N  PROVE k - 1 \in 0..N /\ g[k-1] \in W /\ g[k] = More(k, g[k-1])
  <2>1. k - 1 \in 0..N /\ g[k-1] \in W
    BY <1>1, <1>7
  <2>2. \A q \in W : step[k][q] = More(k, q)
    BY DEF step
  <2>. QED
    BY <1>7, <2>1, <2>2
<1>9. Eq(g)
  BY <1>1, <1>7, <1>8
<1>10. Eq(some)
  BY <1>9
<1>. HIDE DEF some
<1>11. some[0] = <<>> /\ \A k \in 1..N : some[k] = More(k, some[k-1])
  BY <1>1, <1>10
<1>. DEFINE T == {k \in 0..N : some[k] = g[k]}
<1>12. 0 \in T
  BY <1>1, <1>7, <1>11
<1>13. ASSUME NEW k \in (0 + 1)..N, k - 1 \in T  PROVE k \in T
  BY <1>1, <1>8, <1>11, <1>13
<1>. HIDE DEF T
<1>14. 0..N \subseteq T
  BY <1>1, <1>12, <1>13, Upwards
<1>15. Among(s, S) = g[N]
  <2>1. N \in 0..N
    BY <1>1
  <2>. QED
    BY <1>4, <1>14, <2>1 DEF T
<1>16. \A k \in 1..N : /\ s[k] \in S => g[k] = Append(g[k-1], s[k])
                       /\ s[k] \notin S => g[k] = g[k-1]
  BY <1>8 DEF More
<1>17. AmongIn(s, S, g)
  BY <1>7, <1>15, <1>16 DEF AmongIn, W, N
<1>. QED
  BY <1>17

LEMMA AmongType ==
    ASSUME NEW s \in Seq(Msg), NEW S
    PROVE  Among(s, S) \in Seq(Msg)
<1>1. PICK g : AmongIn(s, S, g)
  BY AmongSteps
<1>2. Len(s) \in 0..Len(s)
  BY LenProperties
<1>. QED
  BY <1>1, <1>2 DEF AmongIn

LEMMA AmongNone ==
    ASSUME NEW S
    PROVE  Among(<<>>, S) = <<>>
<1>1. <<>> \in Seq(Msg) /\ Len(<<>>) = 0
  OBVIOUS
<1>2. PICK g : AmongIn(<<>>, S, g)
  BY <1>1, AmongSteps
<1>. QED
  BY <1>1, <1>2 DEF AmongIn

LEMMA AmongAppend ==
    ASSUME NEW s \in Seq(Msg), NEW m \in Msg, NEW S
    PROVE  /\ m \in S => Among(Append(s, m), S) = Append(Among(s, S), m)
           /\ m \notin S => Among(Append(s, m), S) = Among(s, S)
<1>. DEFINE N == Len(s)
            r == Append(s, m)
<1>1. /\ N \in Nat /\ r \in Seq(Msg) /\ Len(r) = N + 1 /\ r[N+1] = m
      /\ \A k \in 1..N : r[k] = s[k]
  BY AppendProperties, LenProperties
<1>2. PICK g : AmongIn(s, S, g)
  BY AmongSteps
<1>. HIDE DEF r
<1>3. PICK f : AmongIn(r, S, f)
  BY <1>1, AmongSteps
<1>. DEFINE T == {k \in 0..N : f[k] = g[k]}
<1>. HIDE DEF N
<1>4. /\ g[0] = <<>> /\ Among(s, S) = g[N]
      /\ \A k \in 1..N : /\ s[k] \in S => g[k] = Append(g[k-1], s[k])
                         /\ s[k] \notin S => g[k] = g[k-1]
  BY <1>2 DEF AmongIn, N
<1>5. /\ f[0] = <<>> /\ Among(r, S) = f[N+1]
      /\ \A k \in 1..(N+1) : /\ r[k] \in S => f[k] = Append(f[k-1], r[k])
                             /\ r[k] \notin S => f[k] = f[k-1]
  BY <1>1, <1>3 DEF AmongIn
<1>6. 0 \in T
  BY <1>1, <1>4, <1>5
<1>7. ASSUME NEW k \in (0 + 1)..N, k - 1 \in T  PROVE k \in T
  <2>1. k \in 1..N /\ k \in 1..(N+1) /\ r[k] = s[k] /\ f[k-1] = g[k-1] /\ k \in 0..N
    BY <1>1, <1>7
  <2>. QED
    BY <1>4, <1>5, <2>1
<1>. HIDE DEF T
<1>8. 0..N \subseteq T
  BY <1>1, <1>6, <1>7, Upwards
<1>9. f[N] = g[N]
  BY <1>1, <1>8 DEF T
<1>10. N + 1 \in 1..(N+1) /\ (N + 1) - 1 = N
  BY <1>1
<1>11. (m \in S => f[N+1] = Append(g[N], m)) /\ (m \notin S => f[N+1] = g[N])
  BY <1>1, <1>5, <1>9, <1>10
<1>. QED
  BY <1>4, <1>5, <1>11 DEF r

LEMMA Prepend ==
    ASSUME NEW s \in Seq(Msg), NEW m \in Msg, NEW x \in Msg
    PROVE  /\ Append(<<m>> \o s, x) = <<m>> \o Append(s, x)
           /\ <<m>> \o s # <<>> /\ Head(<<m>> \o s) = m /\ Tail(<<m>> \o s) = s
<1>1. <<m>> \in Seq(Msg) /\ <<x>> \in Seq(Msg) /\ <<m>> \o s \in Seq(Msg)
  BY ConcatProperties
<1>2. Append(<<m>> \o s, x) = (<<m>> \o s) \o <<x>>
  BY <1>1, AppendIsConcat
<1>3. <<m>> \o Append(s, x) = <<m>> \o (s \o <<x>>)
  BY AppendIsConcat
<1>4. (<<m>> \o s) \o <<x>> = <<m>> \o (s \o <<x>>)
  BY <1>1, ConcatAssociative
<1>5. Len(<<m>> \o s) = 1 + Len(s) /\ Len(s) \in Nat
  BY <1>1, ConcatProperties, LenProperties
<1>6. <<m>> \o s # <<>>
  BY <1>1, <1>5
<1>7. /\ Len(<<m>>) = 1 /\ <<m>>[1] = m
      /\ \A i \in 1..(1 + Len(s)) : (<<m>> \o s)[i] = IF i <= 1 THEN <<m>>[i] ELSE s[i - 1]
  BY <1>1, ConcatProperties
<1>8. Head(<<m>> \o s) = m
  BY <1>1, <1>5, <1>6, <1>7
<1>9. /\ Tail(<<m>> \o s) \in Seq(Msg) /\ Len(Tail(<<m>> \o s)) = Len(s)
      /\ \A i \in 1..Len(s) : Tail(<<m>> \o s)[i] = (<<m>> \o s)[i+1]
  BY <1>1, <1>5, <1>6, HeadTailProperties
<1>10. \A i \in 1..Len(s) : Tail(<<m>> \o s)[i] = s[i]
  <2>1. ASSUME NEW i \in 1..Len(s)  PROVE Tail(<<m>> \o s)[i] = s[i]
    <3>1. i + 1 \in 1..(1 + Len(s)) /\ ~ (i + 1 <= 1) /\ (i + 1) - 1 = i
      BY <1>5
    <3>. QED
      BY <1>7, <1>9, <3>1
  <2>. QED
    BY <2>1
<1>11. Tail(<<m>> \o s) = s
  BY <1>9, <1>10, SeqEqual
<1>. QED
  BY <1>2, <1>3, <1>4, <1>6, <1>8, <1>11

LEMMA AmongTail ==
    ASSUME NEW s \in Seq(Msg), s # <<>>, NEW S
    PROVE  /\ Head(s) \in Msg /\ Tail(s) \in Seq(Msg)
           /\ Head(s) \in S => Among(s, S) = <<Head(s)>> \o Among(Tail(s), S)
           /\ Head(s) \notin S => Among(s, S) = Among(Tail(s), S)
<1>. DEFINE r == Tail(s)
            N == Len(r)
            m == Head(s)
<1>1. /\ m \in Msg /\ r \in Seq(Msg) /\ Len(s) = N + 1 /\ N \in Nat
      /\ \A i \in 1..N : r[i] = s[i+1]
  <2>1. Len(s) \in Nat /\ Len(r) \in Nat /\ Len(r) = Len(s) - 1
    BY HeadTailProperties, LenProperties
  <2>. QED
    BY <2>1, HeadTailProperties
<1>2. s[1] = m
  OBVIOUS
<1>3. PICK f : AmongIn(r, S, f)
  BY <1>1, AmongSteps
<1>4. PICK g : AmongIn(s, S, g)
  BY AmongSteps
<1>5. /\ f \in [0..N -> Seq(Msg)]
      /\ f[0] = <<>> /\ Among(r, S) = f[N]
      /\ \A k \in 1..N : /\ r[k] \in S => f[k] = Append(f[k-1], r[k])
                         /\ r[k] \notin S => f[k] = f[k-1]
  BY <1>3 DEF AmongIn
<1>. HIDE DEF N, m, r
<1>6. /\ g[0] = <<>> /\ Among(s, S) = g[N+1]
      /\ \A k \in 1..(N+1) : /\ s[k] \in S => g[k] = Append(g[k-1], s[k])
                             /\ s[k] \notin S => g[k] = g[k-1]
  BY <1>1, <1>4 DEF AmongIn
<1>7. 1 \in 1..(N+1) /\ 1 - 1 = 0
  BY <1>1
<1>8. CASE m \in S
  <2>. DEFINE T == {k \in 0..N : g[k+1] = <<m>> \o f[k]}
  <2>1. g[1] = <<m>> \o f[0]
    <3>1. g[1] = Append(<<>>, m)
      BY <1>2, <1>6, <1>7, <1>8
    <3>2. <<m>> \in Seq(Msg)
      BY <1>1
    <3>3. <<m>> \o <<>> = <<m>>
      BY <3>2, ConcatEmptySeq
    <3>. QED
      BY <1>1, <1>5, <3>1, <3>3
  <2>2. 0 \in T
    BY <1>1, <2>1
  <2>3. ASSUME NEW k \in (0 + 1)..N, k - 1 \in T  PROVE k \in T
    <3>1. /\ k \in 1..N /\ k + 1 \in 1..(N+1) /\ k - 1 \in 0..N /\ (k + 1) - 1 = k /\ (k - 1) + 1 = k
          /\ k \in 0..N
      BY <1>1, <2>3
    <3>2. r[k] = s[k+1] /\ g[k] = <<m>> \o f[k-1] /\ f[k-1] \in Seq(Msg) /\ r[k] \in Msg
      BY <1>1, <1>5, <2>3, <3>1, ElementOfSeq DEF N
    <3>3. Append(<<m>> \o f[k-1], r[k]) = <<m>> \o Append(f[k-1], r[k])
      BY <1>1, <3>2, Prepend
    <3>4. CASE r[k] \in S
      <4>1. g[k+1] = Append(g[k], r[k])
        BY <1>6, <3>1, <3>2, <3>4
      <4>2. f[k] = Append(f[k-1], r[k])
        BY <1>5, <3>1, <3>4
      <4>. QED
        BY <3>1, <3>2, <3>3, <4>1, <4>2
    <3>5. CASE r[k] \notin S
      <4>1. g[k+1] = g[k] /\ f[k] = f[k-1]
        BY <1>5, <1>6, <3>1, <3>2, <3>5
      <4>. QED
        BY <3>1, <3>2, <4>1
    <3>. QED
      BY <3>4, <3>5
  <2>. HIDE DEF T
  <2>4. 0..N \subseteq T
    BY <1>1, <2>2, <2>3, Upwards
  <2>5. N \in T
    BY <1>1, <2>4
  <2>6. g[N+1] = <<m>> \o f[N]
    BY <2>5 DEF T
  <2>. QED
    BY <1>1, <1>5, <1>6, <1>8, <2>6 DEF m, r
<1>9. CASE m \notin S
  <2>. DEFINE T == {k \in 0..N : g[k+1] = f[k]}
  <2>1. g[1] = f[0]
    BY <1>2, <1>5, <1>6, <1>7, <1>9
  <2>2. 0 \in T
    BY <1>1, <2>1
  <2>3. ASSUME NEW k \in (0 + 1)..N, k - 1 \in T  PROVE k \in T
    <3>1. /\ k \in 1..N /\ k + 1 \in 1..(N+1) /\ k - 1 \in 0..N /\ (k + 1) - 1 = k /\ (k - 1) + 1 = k
          /\ k \in 0..N
      BY <1>1, <2>3
    <3>2. r[k] = s[k+1] /\ g[k] = f[k-1]
      BY <1>1, <2>3, <3>1
    <3>3. g[k+1] = f[k]
      <4>1. CASE r[k] \in S
        <5>1. g[k+1] = Append(g[k], r[k])
          BY <1>6, <3>1, <3>2, <4>1
        <5>2. f[k] = Append(f[k-1], r[k])
          BY <1>5, <3>1, <4>1
        <5>. QED
          BY <3>2, <5>1, <5>2
      <4>2. CASE r[k] \notin S
        <5>1. g[k+1] = g[k] /\ f[k] = f[k-1]
          BY <1>5, <1>6, <3>1, <3>2, <4>2
        <5>. QED
          BY <3>2, <5>1
      <4>. QED
        BY <4>1, <4>2
    <3>. QED
      BY <3>1, <3>3
  <2>. HIDE DEF T
  <2>4. 0..N \subseteq T
    BY <1>1, <2>2, <2>3, Upwards
  <2>5. N \in T
    BY <1>1, <2>4
  <2>6. g[N+1] = f[N]
    BY <2>5 DEF T
  <2>. QED
    BY <1>1, <1>5, <1>6, <1>9, <2>6 DEF m, r
<1>. QED
  BY <1>8, <1>9

-----------------------------------------------------------------------------
(* The route from one node to another *)

Hops == Cardinality(Node)

\* The route to d ends at n.
Ends(t, n, d) == n = d \/ t.out[<<n, d>>] = None

\* w[i] is the node after i hops of the route from s to d.
Way(t, s, d, w) ==
    /\ w \in [0..Hops -> Node]
    /\ w[0] = s
    /\ \A i \in 1..Hops :
           w[i] = IF Ends(t, w[i-1], d) THEN w[i-1] ELSE t.out[<<w[i-1], d>>][2][2]

Hop(w, i) == <<w[i], w[i+1]>>

LEMMA HopsType == Hops \in Nat /\ IsFiniteSet(Node)
<1>1. IsFiniteSet(Node)
  BY NetworkAssumption
<1>. QED
  BY <1>1, FS_CardinalityType DEF Hops

\* A route goes on over a link to its next node.
LEMMA NextHop ==
    ASSUME NEW t \in Tables, NEW n \in Node, NEW d \in Node, t.out[<<n, d>>] # None
    PROVE  LET b == t.out[<<n, d>>]
           IN  /\ b[2] \in Link /\ b = OutBuf(b[2]) /\ b[2] = <<n, b[2][2]>>
               /\ b[2][2] \in Node /\ NodeOf(b) = n
<1>. DEFINE b == t.out[<<n, d>>]
<1>1. <<n, d>> \in Node \X Node
  OBVIOUS
<1>2. b \in {OutBuf(l) : l \in Link} /\ NodeOf(b) = n
  <2>1. \A p \in Node \X Node : t.out[p] # None => t.out[p] \in {OutBuf(l) : l \in Link}
                                                   /\ NodeOf(t.out[p]) = p[1]
    BY NetworkAssumption
  <2>2. <<n, d>>[1] = n
    OBVIOUS
  <2>. QED
    BY <1>1, <2>1, <2>2
<1>. HIDE DEF b
<1>3. PICK l \in Link : b = OutBuf(l)
  BY <1>2
<1>4. b[1] = "out" /\ b[2] = l
  BY <1>3 DEF OutBuf
<1>5. l \in Node \X Node /\ l[1] = n
  BY <1>2, <1>4, LinksJoinNodes DEF NodeOf
<1>. QED
  BY <1>2, <1>3, <1>4, <1>5 DEF b

LEMMA WayExists ==
    ASSUME NEW t \in Tables, NEW s \in Node, NEW d \in Node
    PROVE  \E w : Way(t, s, d, w)
<1>. DEFINE More(n) == IF Ends(t, n, d) THEN n ELSE t.out[<<n, d>>][2][2]
            step == [i \in 1..Hops |-> [n \in Node |-> More(n)]]
<1>1. ASSUME NEW n \in Node  PROVE More(n) \in Node
  <2>1. CASE Ends(t, n, d)
    BY <2>1
  <2>2. CASE ~ Ends(t, n, d)
    BY <2>2, NextHop DEF Ends
  <2>. QED
    BY <2>1, <2>2
<1>. HIDE DEF More
<1>2. step \in [1..Hops -> [Node -> Node]]
  BY <1>1
<1>. HIDE DEF step
<1>3. PICK w : Made(Node, s, Hops, step, w)
  BY <1>2, HopsType, RecursionMade
<1>4. ASSUME NEW i \in 1..Hops  PROVE w[i] = More(w[i-1])
  <2>1. i - 1 \in 0..Hops
    BY HopsType
  <2>2. w[i-1] \in Node /\ w[i] = step[i][w[i-1]]
    BY <1>3, <2>1 DEF Made
  <2>. QED
    BY <2>2 DEF step
<1>5. Way(t, s, d, w)
  BY <1>3, <1>4 DEF Way, Made, More
<1>. QED
  BY <1>5

\* What a way is good for: it ends within Hops, goes over links, and comes to
\* no node twice.
Straight(t, d, w) ==
    /\ w \in [0..Hops -> Node]
    /\ Ends(t, w[Hops], d)
    /\ \A i \in 0..(Hops - 1) : Ends(t, w[i], d) => w[i+1] = w[i]
    /\ \A i \in 0..(Hops - 1) : ~ Ends(t, w[i], d) =>
           Hop(w, i) \in Link /\ t.out[<<w[i], d>>] = OutBuf(Hop(w, i))
    /\ \A i, j \in 0..Hops : ~ Ends(t, w[i], d) /\ ~ Ends(t, w[j], d) /\ w[i] = w[j] => i = j

\* From its node i a way stays there, or goes on over the link of the table.
GoesOn(t, d, w, i) ==
    /\ Ends(t, w[i], d) => w[i+1] = w[i]
    /\ ~ Ends(t, w[i], d) => /\ Hop(w, i) \in Link
                             /\ t.out[<<w[i], d>>] = OutBuf(Hop(w, i))
                             /\ NodeOf(t.out[<<w[i], d>>]) = w[i]
                             /\ t.out[<<w[i], d>>][2][2] = w[i+1]

LEMMA WayGoesOn ==
    ASSUME NEW t \in Tables, NEW s \in Node, NEW d \in Node, NEW w, Way(t, s, d, w), NEW i \in 0..(Hops - 1)
    PROVE  GoesOn(t, d, w, i)
<1>1. i + 1 \in 1..Hops /\ (i + 1) - 1 = i /\ i \in 0..Hops
  BY HopsType
<1>2. w[i] \in Node
  BY <1>1 DEF Way
<1>3. w[i+1] = IF Ends(t, w[i], d) THEN w[i] ELSE t.out[<<w[i], d>>][2][2]
  BY <1>1 DEF Way
<1>4. CASE Ends(t, w[i], d)
  BY <1>3, <1>4 DEF GoesOn
<1>5. CASE ~ Ends(t, w[i], d)
  <2>1. t.out[<<w[i], d>>] # None
    BY <1>5 DEF Ends
  <2>. QED
    BY <1>2, <1>3, <1>5, <2>1, NextHop DEF GoesOn, Hop
<1>. QED
  BY <1>4, <1>5

LEMMA WayStops ==
    ASSUME NEW t \in Tables, NEW s \in Node, NEW d \in Node, NEW w, Way(t, s, d, w), NEW i \in 0..Hops,
           Ends(t, w[i], d), NEW j \in i..Hops
    PROVE  w[j] = w[i]
<1>0. ASSUME NEW x \in 0..(Hops - 1), Ends(t, w[x], d)  PROVE w[x + 1] = w[x]
  <2>1. GoesOn(t, d, w, x)
    BY WayGoesOn
  <2>. QED
    BY <1>0, <2>1 DEF GoesOn
<1>. DEFINE T == {h \in 0..Hops : w[h] = w[i]}
<1>1. i \in T
  OBVIOUS
<1>2. ASSUME NEW h \in (i + 1)..Hops, h - 1 \in T  PROVE h \in T
  <2>1. h - 1 \in 0..(Hops - 1) /\ (h - 1) + 1 = h /\ h \in 0..Hops
    BY HopsType
  <2>2. w[h - 1] = w[i]
    BY <1>2
  <2>3. Ends(t, w[h - 1], d)
    BY <2>2
  <2>4. w[(h - 1) + 1] = w[h - 1]
    BY <1>0, <2>1, <2>3
  <2>. QED
    BY <2>1, <2>2, <2>4
<1>. HIDE DEF T
<1>3. i..Hops \subseteq T
  BY <1>1, <1>2, HopsType, Upwards
<1>. QED
  BY <1>3 DEF T

\* Without a cycle of the table a way comes to no node twice.
LEMMA WayNeverReturns ==
    ASSUME NEW t \in Tables, Acyclic(t), NEW s \in Node, NEW d \in Node, NEW w, Way(t, s, d, w),
           NEW i \in 0..Hops, NEW j \in 0..Hops, i < j, ~ Ends(t, w[j], d)
    PROVE  w[i] # w[j]
<1>. SUFFICES ASSUME w[i] = w[j]  PROVE FALSE
  OBVIOUS
<1>1. ASSUME NEW x \in 0..j  PROVE ~ Ends(t, w[x], d)
  <2>1. x \in 0..Hops /\ j \in x..Hops
    BY HopsType
  <2>. QED
    BY <2>1, WayStops
<1>. DEFINE out(x) == t.out[<<w[x], d>>]
            S == {out(x) : x \in i..(j-1)}
<1>2. ASSUME NEW x \in i..(j-1)
      PROVE  /\ Hop(w, x) \in Link /\ out(x) = OutBuf(Hop(w, x)) /\ NodeOf(out(x)) = w[x]
             /\ out(x)[2][2] = w[x+1] /\ out(x) \in {OutBuf(l) : l \in Link}
  <2>1. x \in 0..(Hops - 1) /\ x \in 0..j
    BY HopsType
  <2>2. ~ Ends(t, w[x], d)
    BY <1>1, <2>1
  <2>3. GoesOn(t, d, w, x)
    BY <2>1, WayGoesOn
  <2>. QED
    BY <2>1, <2>2, <2>3 DEF GoesOn
<1>3. S \in SUBSET {OutBuf(l) : l \in Link} /\ S # {}
  <2>1. i \in i..(j-1)
    OBVIOUS
  <2>. QED
    BY <1>2, <2>1
<1>4. PICK b \in S : \A c \in S : ~ DependsOn(t, b, c)
  BY <1>3 DEF Acyclic
<1>5. PICK x \in i..(j-1) : b = out(x)
  BY <1>4
<1>6. PICK y \in i..(j-1) : w[y] = w[x+1]
  <2>1. CASE x + 1 = j
    <3>1. i \in i..(j-1)
      OBVIOUS
    <3>. QED
      BY <2>1, <3>1
  <2>2. CASE x + 1 # j
    <3>1. x + 1 \in i..(j-1)
      BY <2>2
    <3>. QED
      BY <3>1
  <2>. QED
    BY <2>1, <2>2
<1>7. out(y) \in S
  OBVIOUS
<1>8. DependsOn(t, b, out(y))
  <2>1. NodeOf(b) = w[x] /\ b[2][2] = w[x+1]
    BY <1>2, <1>5
  <2>2. w[x+1] # d
    <3>1. x + 1 \in 0..j
      OBVIOUS
    <3>2. ~ Ends(t, w[x+1], d)
      BY <1>1, <3>1
    <3>. QED
      BY <3>2 DEF Ends
  <2>. QED
    BY <1>5, <1>6, <2>1, <2>2 DEF DependsOn
<1>. QED
  BY <1>4, <1>7, <1>8

LEMMA WayIsStraight ==
    ASSUME NEW t \in Tables, Acyclic(t), NEW s \in Node, NEW d \in Node, NEW w, Way(t, s, d, w)
    PROVE  Straight(t, d, w)
<1>1. w \in [0..Hops -> Node]
  BY DEF Way
<1>2. ASSUME NEW i \in 0..Hops, NEW j \in 0..Hops, ~ Ends(t, w[i], d), ~ Ends(t, w[j], d), w[i] = w[j]
      PROVE  i = j
  <2>1. CASE i < j
    BY <1>2, <2>1, WayNeverReturns
  <2>2. CASE j < i
    BY <1>2, <2>2, WayNeverReturns
  <2>. QED
    BY <2>1, <2>2
<1>3. ASSUME ~ Ends(t, w[Hops], d)  PROVE FALSE
  <2>1. \A i \in 0..Hops : ~ Ends(t, w[i], d)
    <3>1. ASSUME NEW i \in 0..Hops  PROVE ~ Ends(t, w[i], d)
      <4>1. Hops \in i..Hops
        BY HopsType
      <4>. QED
        BY <1>3, <4>1, WayStops
    <3>. QED
      BY <3>1
  <2>2. w \in Injection(0..Hops, Node)
    BY <1>1, <1>2, <2>1 DEF Injection, IsInjective
  <2>3. Cardinality(0..Hops) <= Hops
    BY <2>2, HopsType, FS_Injection DEF Hops
  <2>4. Cardinality(0..Hops) = Hops + 1
    <3>1. 0 \in Int /\ Hops \in Int /\ 0 <= Hops
      BY HopsType
    <3>2. Cardinality(0..Hops) = Hops - 0 + 1
      BY <3>1, FS_Interval
    <3>. QED
      BY <3>1, <3>2
  <2>. QED
    BY <2>3, <2>4, HopsType
<1>4. ASSUME NEW i \in 0..(Hops - 1)
      PROVE  /\ Ends(t, w[i], d) => w[i+1] = w[i]
             /\ ~ Ends(t, w[i], d) => Hop(w, i) \in Link /\ t.out[<<w[i], d>>] = OutBuf(Hop(w, i))
  <2>1. GoesOn(t, d, w, i)
    BY WayGoesOn
  <2>. QED
    BY <2>1 DEF GoesOn
<1>. QED
  BY <1>1, <1>2, <1>3, <1>4 DEF Straight

-----------------------------------------------------------------------------
(* What is in transit, as a chain of the links of the route *)

\* The messages from p[1] to p[2].
Mine(p) == {m \in Msg : <<Src[m], Dst[m]>> = p}

\* InTransit for lists q and table t.
Moving(q, t, p) ==
    LET mine == {m \in Msg : <<Src[m], Dst[m]>> = p}
        here(b) == Among(q[b], mine)
        from[h \in 0..Cardinality(Node)] ==
            [n \in Node |->
                LET b == t.out[<<n, p[2]>>]
                IN  IF h = 0 \/ n = p[2] \/ b = None THEN <<>>
                    ELSE (from[h-1][b[2][2]] \o here(InBuf(b[2]))) \o here(b)]
    IN  from[Cardinality(Node)][p[1]]

\* What there is on link l.
Part(q, p, l) == Among(q[InBuf(l)], Mine(p)) \o Among(q[OutBuf(l)], Mine(p))

\* U[i] is what is on way w from its node i on, nearest to the end first.
Chain(q, t, p, w, U) ==
    /\ U \in [0..Hops -> Seq(Msg)]
    /\ U[Hops] = <<>>
    /\ \A i \in 0..(Hops - 1) : Ends(t, w[i], p[2]) => U[i] = <<>>
    /\ \A i \in 0..(Hops - 1) : ~ Ends(t, w[i], p[2]) => U[i] = U[i+1] \o Part(q, p, Hop(w, i))
    /\ Moving(q, t, p) = U[0]

LEMMA Concats ==
    ASSUME NEW x \in Seq(Msg), NEW y \in Seq(Msg), NEW z \in Seq(Msg)
    PROVE  x \o y \in Seq(Msg) /\ y \o z \in Seq(Msg) /\ (x \o y) \o z = x \o (y \o z)
  BY ConcatProperties, ConcatAssociative

LEMMA LinkBuffers == \A l \in Link : InBuf(l) \in Buffer /\ OutBuf(l) \in Buffer /\ InBuf(l)[2] = l /\ OutBuf(l)[2] = l
  BY DEF Buffer, InBuf, OutBuf

LEMMA PartType ==
    ASSUME NEW q \in [Buffer -> Seq(Msg)], NEW p, NEW l \in Link
    PROVE  /\ Among(q[InBuf(l)], Mine(p)) \in Seq(Msg) /\ Among(q[OutBuf(l)], Mine(p)) \in Seq(Msg)
           /\ Part(q, p, l) \in Seq(Msg)
<1>1. q[InBuf(l)] \in Seq(Msg) /\ q[OutBuf(l)] \in Seq(Msg)
  BY LinkBuffers
<1>2. Among(q[InBuf(l)], Mine(p)) \in Seq(Msg) /\ Among(q[OutBuf(l)], Mine(p)) \in Seq(Msg)
  BY <1>1, AmongType
<1>. QED
  BY <1>2, ConcatProperties DEF Part

\* The recursion of InTransit is defined.
Levels(q, t, p, g) ==
    /\ g \in [0..Hops -> [Node -> Seq(Msg)]]
    /\ Moving(q, t, p) = g[Hops][p[1]]
    /\ \A n \in Node : g[0][n] = <<>>
    /\ \A h \in 1..Hops, n \in Node : Ends(t, n, p[2]) => g[h][n] = <<>>
    /\ \A h \in 1..Hops, n \in Node : ~ Ends(t, n, p[2]) =>
           g[h][n] = g[h-1][t.out[<<n, p[2]>>][2][2]] \o Part(q, p, t.out[<<n, p[2]>>][2])

LEMMA LevelsExist ==
    ASSUME NEW q \in [Buffer -> Seq(Msg)], NEW t \in Tables, NEW p \in Node \X Node
    PROVE  \E g : Levels(q, t, p, g)
<1>. DEFINE V == [Node -> Seq(Msg)]
            mine == {m \in Msg : <<Src[m], Dst[m]>> = p}
            here(b) == Among(q[b], mine)
            More(h, F) == [n \in Node |->
                LET b == t.out[<<n, p[2]>>]
                IN  IF h = 0 \/ n = p[2] \/ b = None THEN <<>>
                    ELSE (F[b[2][2]] \o here(InBuf(b[2]))) \o here(b)]
            step == [h \in 1..Hops |-> [F \in V |-> More(h, F)]]
            Eq(g) == g = [h \in 0..Hops |-> More(h, g[h-1])]
            from == CHOOSE g : Eq(g)
            none == [n \in Node |-> <<>>]
<1>1. Moving(q, t, p) = from[Hops][p[1]]
  BY DEF Moving, Hops
<1>2. p[2] \in Node /\ mine = Mine(p)
  BY DEF Mine
<1>3. ASSUME NEW h \in 1..Hops, NEW F \in V, NEW n \in Node, ~ Ends(t, n, p[2])
      PROVE  /\ More(h, F)[n] \in Seq(Msg)
             /\ More(h, F)[n] = F[t.out[<<n, p[2]>>][2][2]] \o Part(q, p, t.out[<<n, p[2]>>][2])
  <2>. DEFINE b == t.out[<<n, p[2]>>]
  <2>1. n # p[2] /\ b # None /\ h # 0
    BY <1>3, HopsType DEF Ends
  <2>2. b[2] \in Link /\ b = OutBuf(b[2]) /\ b[2][2] \in Node
    BY <1>2, <2>1, NextHop
  <2>3. More(h, F)[n] = (F[b[2][2]] \o here(InBuf(b[2]))) \o here(b)
    BY <2>1
  <2>. HIDE DEF b, here, More
  <2>4. F[b[2][2]] \in Seq(Msg)
    BY <2>2
  <2>5. here(InBuf(b[2])) = Among(q[InBuf(b[2])], Mine(p)) /\ here(b) = Among(q[OutBuf(b[2])], Mine(p))
    BY <1>2, <2>2 DEF here
  <2>6. /\ here(InBuf(b[2])) \in Seq(Msg) /\ here(b) \in Seq(Msg)
        /\ Part(q, p, b[2]) = here(InBuf(b[2])) \o here(b) /\ Part(q, p, b[2]) \in Seq(Msg)
    BY <2>2, <2>5, PartType DEF Part
  <2>7. (F[b[2][2]] \o here(InBuf(b[2]))) \o here(b) = F[b[2][2]] \o Part(q, p, b[2])
    <3>1. (F[b[2][2]] \o here(InBuf(b[2]))) \o here(b) = F[b[2][2]] \o (here(InBuf(b[2])) \o here(b))
      <4>. DEFINE x == F[b[2][2]]
                  y == here(InBuf(b[2]))
                  z == here(b)
      <4>1. x \in Seq(Msg) /\ y \in Seq(Msg) /\ z \in Seq(Msg)
        BY <2>4, <2>6
      <4>. HIDE DEF x, y, z
      <4>2. (x \o y) \o z = x \o (y \o z)
        BY <4>1, Concats
      <4>. QED
        BY <4>2 DEF x, y, z
    <3>. QED
      BY <2>6, <3>1
  <2>8. F[b[2][2]] \o Part(q, p, b[2]) \in Seq(Msg)
    BY <2>4, <2>6, ConcatProperties
  <2>. QED
    BY <2>3, <2>7, <2>8 DEF b
<1>4. ASSUME NEW h \in 0..Hops, NEW F, NEW n \in Node, h = 0 \/ Ends(t, n, p[2])
      PROVE  More(h, F)[n] = <<>>
  BY <1>4 DEF Ends
<1>5. ASSUME NEW h \in 1..Hops, NEW F \in V  PROVE More(h, F) \in V
  <2>1. \A n \in Node : More(h, F)[n] \in Seq(Msg)
    <3>1. <<>> \in Seq(Msg) /\ h \in 0..Hops
      BY HopsType
    <3>. HIDE DEF More, V
    <3>2. ASSUME NEW n \in Node  PROVE More(h, F)[n] \in Seq(Msg)
      <4>1. CASE Ends(t, n, p[2])
        <5>1. More(h, F)[n] = <<>>
          BY <1>4, <3>1, <4>1
        <5>. QED
          BY <3>1, <5>1
      <4>2. CASE ~ Ends(t, n, p[2])
        BY <1>3, <4>2
      <4>. QED
        BY <4>1, <4>2
    <3>. QED
      BY <3>2
  <2>2. More(h, F) = [n \in Node |-> More(h, F)[n]]
    OBVIOUS
  <2>. HIDE DEF More
  <2>. QED
    BY <2>1, <2>2
<1>6. none \in V
  <2>1. <<>> \in Seq(Msg)
    OBVIOUS
  <2>. QED
    BY <2>1
<1>7. ASSUME NEW F  PROVE More(0, F) = none
  OBVIOUS
<1>. HIDE DEF V, More, mine, here, none
<1>8. step \in [1..Hops -> [V -> V]]
  BY <1>5
<1>9. \A h \in 1..Hops, F \in V : step[h][F] = More(h, F)
  OBVIOUS
<1>. HIDE DEF step
<1>10. PICK g : Made(V, none, Hops, step, g)
  BY <1>6, <1>8, HopsType, RecursionMade
<1>11. ASSUME NEW h \in 1..Hops  PROVE h - 1 \in 0..Hops /\ g[h-1] \in V /\ g[h] = More(h, g[h-1])
  <2>1. h - 1 \in 0..Hops
    BY HopsType
  <2>2. g[h-1] \in V /\ g[h] = step[h][g[h-1]]
    BY <1>10, <2>1 DEF Made
  <2>. QED
    BY <1>9, <2>1, <2>2
<1>12. Eq(g)
  <2>1. g = [h \in 0..Hops |-> g[h]]
    BY <1>10 DEF Made
  <2>2. ASSUME NEW h \in 0..Hops  PROVE g[h] = More(h, g[h-1])
    <3>1. CASE h = 0
      BY <1>7, <1>10, <3>1 DEF Made
    <3>2. CASE h # 0
      <4>1. h \in 1..Hops
        BY <3>2, HopsType
      <4>. QED
        BY <1>11, <4>1
    <3>. QED
      BY <3>1, <3>2
  <2>. QED
    BY <2>1, <2>2
<1>13. Eq(from)
  BY <1>12
<1>. HIDE DEF from
<1>14. ASSUME NEW h \in 0..Hops  PROVE from[h] = More(h, from[h-1])
  BY <1>13
<1>. DEFINE T == {h \in 0..Hops : from[h] = g[h]}
<1>15. 0 \in T
  <2>1. 0 \in 0..Hops /\ g[0] = none
    BY <1>10, HopsType DEF Made
  <2>2. from[0] = none
    BY <1>7, <1>14, <2>1
  <2>. QED
    BY <2>1, <2>2
<1>16. ASSUME NEW h \in (0 + 1)..Hops, h - 1 \in T  PROVE h \in T
  <2>1. h \in 1..Hops /\ h \in 0..Hops /\ from[h-1] = g[h-1]
    BY <1>16, HopsType
  <2>2. from[h] = More(h, from[h-1]) /\ g[h] = More(h, g[h-1])
    BY <1>11, <1>14, <2>1
  <2>. QED
    BY <2>1, <2>2
<1>. HIDE DEF T
<1>17. 0..Hops \subseteq T
  BY <1>15, <1>16, HopsType, Upwards
<1>18. from[Hops] = g[Hops]
  <2>1. Hops \in 0..Hops
    BY HopsType
  <2>. QED
    BY <1>17, <2>1 DEF T
<1>19. Moving(q, t, p) = g[Hops][p[1]]
  BY <1>1, <1>18
<1>20. g \in [0..Hops -> [Node -> Seq(Msg)]]
  BY <1>10 DEF Made, V
<1>21. ASSUME NEW n \in Node  PROVE g[0][n] = <<>>
  BY <1>10 DEF Made, none
<1>22. ASSUME NEW h \in 1..Hops, NEW n \in Node, Ends(t, n, p[2])  PROVE g[h][n] = <<>>
  <2>1. h \in 0..Hops
    BY HopsType
  <2>. QED
    BY <1>4, <1>11, <1>22, <2>1
<1>23. ASSUME NEW h \in 1..Hops, NEW n \in Node, ~ Ends(t, n, p[2])
       PROVE  g[h][n] = g[h-1][t.out[<<n, p[2]>>][2][2]] \o Part(q, p, t.out[<<n, p[2]>>][2])
  <2>1. g[h-1] \in V /\ g[h] = More(h, g[h-1])
    BY <1>11
  <2>. QED
    BY <1>3, <1>23, <2>1
<1>24. Levels(q, t, p, g)
  BY <1>19, <1>20, <1>21, <1>22, <1>23 DEF Levels
<1>. QED
  BY <1>24

LEMMA ChainExists ==
    ASSUME NEW q \in [Buffer -> Seq(Msg)], NEW t \in Tables, NEW p \in Node \X Node,
           NEW w, Way(t, p[1], p[2], w)
    PROVE  \E U : Chain(q, t, p, w, U)
<1>1. PICK g : Levels(q, t, p, g)
  BY LevelsExist
<1>. DEFINE U == [i \in 0..Hops |-> g[Hops - i][w[i]]]
<1>2. p[1] \in Node /\ p[2] \in Node /\ w \in [0..Hops -> Node] /\ w[0] = p[1]
  BY DEF Way
<1>3. ASSUME NEW i \in 0..Hops  PROVE Hops - i \in 0..Hops /\ w[i] \in Node /\ U[i] \in Seq(Msg)
  <2>1. Hops - i \in 0..Hops /\ w[i] \in Node
    BY <1>2, HopsType
  <2>2. g[Hops - i] \in [Node -> Seq(Msg)]
    BY <1>1, <2>1 DEF Levels
  <2>. QED
    BY <2>1, <2>2
<1>4. U \in [0..Hops -> Seq(Msg)]
  BY <1>3
<1>5. U[Hops] = <<>>
  <2>1. Hops \in 0..Hops /\ Hops - Hops = 0
    BY HopsType
  <2>. QED
    BY <1>1, <1>3, <2>1 DEF Levels
<1>6. ASSUME NEW i \in 0..(Hops - 1)
      PROVE  /\ i \in 0..Hops /\ i + 1 \in 0..Hops /\ Hops - i \in 1..Hops
             /\ (Hops - i) - 1 = Hops - (i + 1)
  BY HopsType
<1>7. ASSUME NEW i \in 0..(Hops - 1), Ends(t, w[i], p[2])  PROVE U[i] = <<>>
  BY <1>1, <1>3, <1>6, <1>7 DEF Levels
<1>8. ASSUME NEW i \in 0..(Hops - 1), ~ Ends(t, w[i], p[2])
      PROVE  U[i] = U[i+1] \o Part(q, p, Hop(w, i))
  <2>1. /\ t.out[<<w[i], p[2]>>] = OutBuf(Hop(w, i))
        /\ t.out[<<w[i], p[2]>>][2][2] = w[i+1]
    <3>1. GoesOn(t, p[2], w, i)
      BY <1>2, WayGoesOn
    <3>. QED
      BY <1>8, <3>1 DEF GoesOn
  <2>2. t.out[<<w[i], p[2]>>][2] = Hop(w, i)
    BY <2>1 DEF OutBuf
  <2>3. g[Hops - i][w[i]] = g[(Hops - i) - 1][t.out[<<w[i], p[2]>>][2][2]]
                            \o Part(q, p, t.out[<<w[i], p[2]>>][2])
    BY <1>1, <1>3, <1>6, <1>8 DEF Levels
  <2>4. U[i] = g[Hops - i][w[i]] /\ U[i+1] = g[Hops - (i + 1)][w[i+1]]
    BY <1>6
  <2>5. g[(Hops - i) - 1][t.out[<<w[i], p[2]>>][2][2]] = U[i+1]
    <3>1. (Hops - i) - 1 = Hops - (i + 1)
      BY <1>6
    <3>. HIDE DEF U
    <3>. QED
      BY <2>1, <2>4, <3>1
  <2>. HIDE DEF U
  <2>. QED
    BY <2>2, <2>3, <2>4, <2>5
<1>9. Moving(q, t, p) = U[0]
  <2>1. 0 \in 0..Hops /\ Hops - 0 = Hops
    BY HopsType
  <2>. QED
    BY <1>1, <1>2, <2>1 DEF Levels
<1>. HIDE DEF U
<1>10. Chain(q, t, p, w, U)
  BY <1>4, <1>5, <1>7, <1>8, <1>9 DEF Chain
<1>. QED
  BY <1>10

-----------------------------------------------------------------------------
(* What a message that goes on changes on a link *)

\* The output buffer of l gets m.
Gets(q, r, m, l) == r[InBuf(l)] = q[InBuf(l)] /\ r[OutBuf(l)] = Append(q[OutBuf(l)], m)

\* On link l, m comes after what q has of the messages of p, and r has no others.
LastOf(q, r, p, m, l) == Part(r, p, l) = Part(q, p, l) \o <<m>>

LEMMA AppendPart ==
    ASSUME NEW q \in [Buffer -> Seq(Msg)], NEW r, NEW p, NEW l \in Link, NEW m \in Msg,
           m \in Mine(p), Gets(q, r, m, l)
    PROVE  LastOf(q, r, p, m, l)
<1>. DEFINE x == Among(q[InBuf(l)], Mine(p))
            y == Among(q[OutBuf(l)], Mine(p))
            z == Among(Append(q[OutBuf(l)], m), Mine(p))
<1>1. Part(q, p, l) = x \o y /\ Part(r, p, l) = x \o z
  BY DEF Part, Gets
<1>2. q[OutBuf(l)] \in Seq(Msg) /\ x \in Seq(Msg) /\ y \in Seq(Msg) /\ <<m>> \in Seq(Msg)
  <2>1. x \in Seq(Msg) /\ y \in Seq(Msg)
    BY PartType
  <2>2. q[OutBuf(l)] \in Seq(Msg)
    BY LinkBuffers
  <2>3. <<m>> \in Seq(Msg)
    OBVIOUS
  <2>. QED
    BY <2>1, <2>2, <2>3
<1>3. /\ m \in Mine(p) => z = Append(y, m)
      /\ m \notin Mine(p) => z = y
  BY <1>2, AmongAppend
<1>. HIDE DEF x, y, z
<1>4. Append(y, m) = y \o <<m>>
  BY <1>2, AppendIsConcat
<1>5. (x \o y) \o <<m>> = x \o (y \o <<m>>)
  BY <1>2, Concats
<1>. QED
  BY <1>1, <1>3, <1>4, <1>5 DEF LastOf

\* The input buffer of l loses m.
Loses(q, r, m, l) == /\ q[InBuf(l)] # <<>> /\ Head(q[InBuf(l)]) = m
                     /\ r[InBuf(l)] = Tail(q[InBuf(l)]) /\ r[OutBuf(l)] = q[OutBuf(l)]

\* On link l, m comes before what r has of the messages of p, and q has no others.
HeadOf(q, r, p, m, l) == Part(q, p, l) = <<m>> \o Part(r, p, l)

LEMMA TailPart ==
    ASSUME NEW q \in [Buffer -> Seq(Msg)], NEW r, NEW p, NEW l \in Link, NEW m \in Msg,
           m \in Mine(p), Loses(q, r, m, l)
    PROVE  HeadOf(q, r, p, m, l)
<1>. DEFINE x == Among(q[InBuf(l)], Mine(p))
            y == Among(q[OutBuf(l)], Mine(p))
            z == Among(Tail(q[InBuf(l)]), Mine(p))
<1>1. Part(q, p, l) = x \o y /\ Part(r, p, l) = z \o y
  BY DEF Part, Loses
<1>2. q[InBuf(l)] \in Seq(Msg) /\ x \in Seq(Msg) /\ y \in Seq(Msg)
  BY PartType, LinkBuffers
<1>3. /\ Tail(q[InBuf(l)]) \in Seq(Msg)
      /\ m \in Mine(p) => x = <<m>> \o z
      /\ m \notin Mine(p) => x = z
  <2>1. q[InBuf(l)] # <<>> /\ Head(q[InBuf(l)]) = m
    BY DEF Loses
  <2>. QED
    BY <1>2, <2>1, AmongTail
<1>4. z \in Seq(Msg) /\ <<m>> \in Seq(Msg)
  <2>1. z \in Seq(Msg)
    BY <1>3, AmongType
  <2>2. <<m>> \in Seq(Msg)
    BY <1>3
  <2>. QED
    BY <2>1, <2>2
<1>. HIDE DEF x, y, z
<1>5. (<<m>> \o z) \o y = <<m>> \o (z \o y)
  BY <1>2, <1>4, Concats
<1>. QED
  BY <1>1, <1>3, <1>5 DEF HeadOf

\* Message m crosses link l.
Crosses(q, r, m, l) ==
    /\ q[OutBuf(l)] # <<>> /\ Head(q[OutBuf(l)]) = m
    /\ r[OutBuf(l)] = Tail(q[OutBuf(l)]) /\ r[InBuf(l)] = Append(q[InBuf(l)], m)

LEMMA CrossPart ==
    ASSUME NEW q \in [Buffer -> Seq(Msg)], NEW r, NEW p, NEW l \in Link, NEW m \in Msg,
           Crosses(q, r, m, l)
    PROVE  Part(r, p, l) = Part(q, p, l)
<1>. DEFINE x == Among(q[InBuf(l)], Mine(p))
            y == Among(q[OutBuf(l)], Mine(p))
            z == Among(Tail(q[OutBuf(l)]), Mine(p))
            u == Among(Append(q[InBuf(l)], m), Mine(p))
<1>1. Part(q, p, l) = x \o y /\ Part(r, p, l) = u \o z
  BY DEF Part, Crosses
<1>2. /\ q[InBuf(l)] \in Seq(Msg) /\ q[OutBuf(l)] \in Seq(Msg)
      /\ x \in Seq(Msg) /\ y \in Seq(Msg)
  BY PartType, LinkBuffers
<1>3. /\ Tail(q[OutBuf(l)]) \in Seq(Msg)
      /\ m \in Mine(p) => y = <<m>> \o z
      /\ m \notin Mine(p) => y = z
  <2>1. q[OutBuf(l)] # <<>> /\ Head(q[OutBuf(l)]) = m
    BY DEF Crosses
  <2>. QED
    BY <1>2, <2>1, AmongTail
<1>4. z \in Seq(Msg) /\ <<m>> \in Seq(Msg)
  <2>1. z \in Seq(Msg)
    BY <1>3, AmongType
  <2>2. <<m>> \in Seq(Msg)
    BY <1>3
  <2>. QED
    BY <2>1, <2>2
<1>5. /\ m \in Mine(p) => u = Append(x, m)
      /\ m \notin Mine(p) => u = x
  BY <1>2, AmongAppend
<1>. HIDE DEF x, y, z, u
<1>6. Append(x, m) = x \o <<m>>
  BY <1>2, AppendIsConcat
<1>7. (x \o <<m>>) \o z = x \o (<<m>> \o z)
  BY <1>2, <1>4, Concats
<1>. QED
  BY <1>1, <1>3, <1>5, <1>6, <1>7

-----------------------------------------------------------------------------
(* What it changes in transit *)

\* Two contents of the network and their chains along the same way.
Two(q, r, t, p, w, U, X) ==
    /\ q \in [Buffer -> Seq(Msg)] /\ r \in [Buffer -> Seq(Msg)]
    /\ Straight(t, p[2], w)
    /\ Chain(q, t, p, w, U) /\ Chain(r, t, p, w, X)

\* They have the same on the hops of the way numbered in S.
Alike(q, r, t, p, w, S) ==
    \A i \in S : ~ Ends(t, w[i], p[2]) => Part(q, p, Hop(w, i)) = Part(r, p, Hop(w, i))

LEMMA GoesOnBefore ==
    ASSUME NEW t, NEW d, NEW w, Straight(t, d, w), NEW a \in 0..Hops, ~ Ends(t, w[a], d),
           NEW i \in 0..a
    PROVE  ~ Ends(t, w[i], d)
<1>. DEFINE T == {h \in 0..a : ~ Ends(t, w[h], d)}
<1>1. a \in T /\ a \in Nat
  BY HopsType
<1>2. ASSUME NEW h \in 0..(a - 1), h + 1 \in T  PROVE h \in T
  <2>1. h \in 0..(Hops - 1) /\ h \in 0..a
    BY HopsType
  <2>2. Ends(t, w[h], d) => w[h+1] = w[h]
    BY <2>1 DEF Straight
  <2>. QED
    BY <1>2, <2>1, <2>2
<1>. HIDE DEF T
<1>3. 0..a \subseteq T
  BY <1>1, <1>2, Downwards
<1>. QED
  BY <1>3 DEF T

\* The hops of a way are different links.
LEMMA HopsDiffer ==
    ASSUME NEW t, NEW d, NEW w, Straight(t, d, w), NEW i \in 0..(Hops - 1), NEW j \in 0..(Hops - 1),
           ~ Ends(t, w[i], d), ~ Ends(t, w[j], d), i # j
    PROVE  Hop(w, i) # Hop(w, j) /\ Hop(w, i) \in Link /\ Hop(w, j) \in Link
<1>1. i \in 0..Hops /\ j \in 0..Hops
  BY HopsType
<1>2. w[i] # w[j]
  BY <1>1 DEF Straight
<1>3. Hop(w, i) \in Link /\ Hop(w, j) \in Link
  BY DEF Straight
<1>. QED
  BY <1>2, <1>3 DEF Hop

LEMMA HopsEnd ==
    ASSUME NEW t, NEW d, NEW w, Straight(t, d, w), NEW i \in 0..Hops, ~ Ends(t, w[i], d)
    PROVE  i \in 0..(Hops - 1)
<1>1. i # Hops
  BY DEF Straight
<1>. QED
  BY <1>1, HopsType

\* The chains agree from a on.
LEMMA SameAfter ==
    ASSUME NEW q, NEW r, NEW t, NEW p, NEW w, NEW U, NEW X, Two(q, r, t, p, w, U, X),
           NEW a \in 0..Hops,
           Alike(q, r, t, p, w, a..(Hops - 1))
    PROVE  U[a] = X[a]
<1>. DEFINE T == {h \in 0..Hops : h < a \/ U[h] = X[h]}
<1>1. Hops \in T /\ Hops \in Nat
  <2>1. Hops \in 0..Hops /\ U[Hops] = X[Hops]
    BY HopsType DEF Two, Chain
  <2>. QED
    BY <2>1, HopsType
<1>2. ASSUME NEW h \in 0..(Hops - 1), h + 1 \in T  PROVE h \in T
  <2>1. h \in 0..Hops
    BY HopsType
  <2>2. CASE h < a
    BY <2>1, <2>2
  <2>3. CASE ~ (h < a)
    <3>1. h \in a..(Hops - 1) /\ ~ (h + 1 < a)
      BY <2>3, HopsType
    <3>2. U[h+1] = X[h+1]
      BY <1>2, <3>1
    <3>3. CASE Ends(t, w[h], p[2])
      <4>1. U[h] = <<>> /\ X[h] = <<>>
        BY <3>3 DEF Two, Chain
      <4>. QED
        BY <2>1, <4>1
    <3>4. CASE ~ Ends(t, w[h], p[2])
      <4>1. /\ U[h] = U[h+1] \o Part(q, p, Hop(w, h))
            /\ X[h] = X[h+1] \o Part(r, p, Hop(w, h))
        BY <3>4 DEF Two, Chain
      <4>2. Part(q, p, Hop(w, h)) = Part(r, p, Hop(w, h))
        BY <3>1, <3>4 DEF Alike
      <4>. QED
        BY <2>1, <3>2, <4>1, <4>2
    <3>. QED
      BY <3>3, <3>4
  <2>. QED
    BY <2>2, <2>3
<1>. HIDE DEF T
<1>3. 0..Hops \subseteq T
  BY <1>1, <1>2, Downwards
<1>. QED
  BY <1>3 DEF T

Prefixed(U, X, z, i) == U[i] = z \o X[i]

\* And what U has before X at a it has all the way back.
LEMMA SameBefore ==
    ASSUME NEW q, NEW r, NEW t, NEW p, NEW w, NEW U, NEW X, Two(q, r, t, p, w, U, X),
           NEW z \in Seq(Msg), NEW a \in 0..(Hops - 1), ~ Ends(t, w[a], p[2]), Prefixed(U, X, z, a),
           Alike(q, r, t, p, w, 0..(a - 1))
    PROVE  Prefixed(U, X, z, 0)
<1>. DEFINE T == {h \in 0..a : U[h] = z \o X[h]}
<1>1. a \in T /\ a \in Nat
  BY HopsType DEF Prefixed
<1>2. ASSUME NEW h \in 0..(a - 1), h + 1 \in T  PROVE h \in T
  <2>1. h \in 0..(Hops - 1) /\ h \in 0..a /\ h + 1 \in 0..Hops /\ a \in 0..Hops
    BY HopsType
  <2>2. ~ Ends(t, w[h], p[2])
    BY <2>1, GoesOnBefore DEF Two
  <2>3. /\ U[h] = U[h+1] \o Part(q, p, Hop(w, h))
        /\ X[h] = X[h+1] \o Part(r, p, Hop(w, h))
        /\ X[h+1] \in Seq(Msg)
    BY <2>1, <2>2 DEF Two, Chain
  <2>4. U[h+1] = z \o X[h+1] /\ Part(q, p, Hop(w, h)) = Part(r, p, Hop(w, h))
    BY <1>2, <2>2 DEF Alike
  <2>5. Part(r, p, Hop(w, h)) \in Seq(Msg)
    <3>1. Hop(w, h) \in Link
      BY <2>1, <2>2 DEF Two, Straight
    <3>2. r \in [Buffer -> Seq(Msg)]
      BY DEF Two
    <3>. QED
      BY <3>1, <3>2, PartType
  <2>. DEFINE x == X[h+1]
              y == Part(r, p, Hop(w, h))
  <2>6. x \in Seq(Msg) /\ y \in Seq(Msg) /\ U[h] = (z \o x) \o y /\ X[h] = x \o y
    BY <2>3, <2>4, <2>5
  <2>. HIDE DEF x, y
  <2>7. (z \o x) \o y = z \o (x \o y)
    BY <2>6, Concats
  <2>. QED
    BY <2>1, <2>6, <2>7
<1>. HIDE DEF T
<1>3. 0..a \subseteq T
  BY <1>1, <1>2, Downwards
<1>4. 0 \in T
  BY <1>1, <1>3
<1>. QED
  BY <1>4 DEF T, Prefixed

LEMMA TwoExist ==
    ASSUME NEW q \in [Buffer -> Seq(Msg)], NEW r \in [Buffer -> Seq(Msg)],
           NEW t \in Tables, Acyclic(t), NEW p \in Node \X Node, NEW w, Way(t, p[1], p[2], w)
    PROVE  \E U, X : Two(q, r, t, p, w, U, X)
<1>1. p[1] \in Node /\ p[2] \in Node
  OBVIOUS
<1>2. Straight(t, p[2], w)
  BY <1>1, WayIsStraight
<1>3. PICK U : Chain(q, t, p, w, U)
  BY ChainExists
<1>4. PICK X : Chain(r, t, p, w, X)
  BY ChainExists
<1>5. Two(q, r, t, p, w, U, X)
  BY <1>2, <1>3, <1>4 DEF Two
<1>. QED
  BY <1>5

\* The same on every link.
SameParts(q, r, p) == \A l \in Link : Part(q, p, l) = Part(r, p, l)

LEMMA MovingSame ==
    ASSUME NEW q \in [Buffer -> Seq(Msg)], NEW r \in [Buffer -> Seq(Msg)],
           NEW t \in Tables, Acyclic(t), NEW p \in Node \X Node,
           SameParts(q, r, p)
    PROVE  Moving(q, t, p) = Moving(r, t, p)
<1>1. p[1] \in Node /\ p[2] \in Node
  OBVIOUS
<1>2. PICK w : Way(t, p[1], p[2], w)
  BY <1>1, WayExists
<1>3. PICK U, X : Two(q, r, t, p, w, U, X)
  BY <1>2, TwoExist
<1>4. Alike(q, r, t, p, w, 0..(Hops - 1))
  BY <1>3 DEF Two, Straight, Alike, SameParts
<1>5. 0 \in 0..Hops
  BY HopsType
<1>6. U[0] = X[0]
  BY <1>3, <1>4, <1>5, SameAfter
<1>. QED
  BY <1>3, <1>6 DEF Two, Chain

\* Different links have different buffers.
LEMMA BuffersDiffer ==
    ASSUME NEW k \in Link, NEW l \in Link
    PROVE  /\ InBuf(k) # OutBuf(l)
           /\ k # l => InBuf(k) # InBuf(l) /\ OutBuf(k) # OutBuf(l)
  BY DEF InBuf, OutBuf

\* From lists q to lists r message m enters buffer b, leaves buffer a, or
\* passes from a to b.
Enters(q, r, m, b) == r = [q EXCEPT ![b] = Append(@, m)]
Leaves(q, r, m, a) == q[a] # <<>> /\ Head(q[a]) = m /\ r = [q EXCEPT ![a] = Tail(@)]
Passes(q, r, m, a, b) == /\ q[a] # <<>> /\ Head(q[a]) = m
                         /\ r = [q EXCEPT ![a] = Tail(@), ![b] = Append(@, m)]

Goes(q, r, m, a, b) == Enters(q, r, m, b) \/ Leaves(q, r, m, a) \/ Passes(q, r, m, a, b)

\* Message m starts from p[1] to p[2].
Starts(q, r, t, m, p) == /\ p[1] # p[2] /\ t.out[<<p[1], p[2]>>] # None
                         /\ Enters(q, r, m, t.out[<<p[1], p[2]>>])

\* A message sent is the last one in transit.
LEMMA MovingSend ==
    ASSUME NEW q \in [Buffer -> Seq(Msg)], NEW r \in [Buffer -> Seq(Msg)],
           NEW t \in Tables, Acyclic(t), NEW p \in Node \X Node, NEW m \in Mine(p),
           Starts(q, r, t, m, p)
    PROVE  Moving(r, t, p) = Append(Moving(q, t, p), m)
<1>1. p[1] \in Node /\ p[2] \in Node /\ m \in Msg
  BY DEF Mine
<1>2. PICK w : Way(t, p[1], p[2], w)
  BY <1>1, WayExists
<1>3. PICK U, X : Two(q, r, t, p, w, U, X)
  BY <1>2, TwoExist
<1>4. w[0] = p[1] /\ ~ Ends(t, w[0], p[2])
  BY <1>2 DEF Way, Ends, Starts
<1>5. 0 \in 0..Hops /\ 0 \in 0..(Hops - 1) /\ 1 \in 0..Hops
  <2>1. 0 \in 0..Hops
    BY HopsType
  <2>2. 0 \in 0..(Hops - 1)
    BY <1>3, <1>4, <2>1, HopsEnd DEF Two
  <2>. QED
    BY <2>1, <2>2, HopsType
<1>. DEFINE l == Hop(w, 0)
<1>6. l \in Link /\ t.out[<<p[1], p[2]>>] = OutBuf(l)
  BY <1>3, <1>4, <1>5 DEF Two, Straight
<1>. HIDE DEF l
<1>7. /\ InBuf(l) \in Buffer /\ OutBuf(l) \in Buffer /\ r[OutBuf(l)] = Append(q[OutBuf(l)], m)
      /\ \A b \in Buffer : b # OutBuf(l) => r[b] = q[b]
  BY <1>6, LinkBuffers DEF Enters, Starts
<1>8. Part(r, p, l) = Part(q, p, l) \o <<m>>
  <2>1. r[InBuf(l)] = q[InBuf(l)]
    BY <1>6, <1>7, BuffersDiffer
  <2>2. Gets(q, r, m, l)
    BY <1>7, <2>1 DEF Gets
  <2>3. m \in Msg /\ m \in Mine(p) /\ l \in Link
    BY <1>1, <1>6
  <2>4. LastOf(q, r, p, m, l)
    BY <2>2, <2>3, AppendPart
  <2>. QED
    BY <2>4 DEF LastOf
<1>9. ASSUME NEW i \in 1..(Hops - 1), ~ Ends(t, w[i], p[2])
      PROVE  Part(q, p, Hop(w, i)) = Part(r, p, Hop(w, i))
  <2>1. i \in 0..(Hops - 1) /\ i # 0
    BY HopsType
  <2>2. Hop(w, i) # l /\ Hop(w, i) \in Link
    BY <1>3, <1>4, <1>5, <1>9, <2>1, HopsDiffer DEF l, Two
  <2>3. /\ InBuf(Hop(w, i)) \in Buffer /\ OutBuf(Hop(w, i)) \in Buffer
        /\ InBuf(Hop(w, i)) # OutBuf(l) /\ OutBuf(Hop(w, i)) # OutBuf(l)
    BY <1>6, <2>2, LinkBuffers, BuffersDiffer
  <2>4. /\ q[InBuf(Hop(w, i))] = r[InBuf(Hop(w, i))]
        /\ q[OutBuf(Hop(w, i))] = r[OutBuf(Hop(w, i))]
    BY <1>7, <2>3
  <2>. QED
    BY <2>4 DEF Part
<1>10. U[1] = X[1]
  <2>1. Alike(q, r, t, p, w, 1..(Hops - 1))
    BY <1>9 DEF Alike
  <2>. QED
    BY <1>3, <1>5, <2>1, SameAfter
<1>11. U[0] = U[1] \o Part(q, p, l) /\ X[0] = X[1] \o Part(r, p, l)
  <2>1. 0 + 1 = 1
    OBVIOUS
  <2>. QED
    BY <1>3, <1>4, <1>5, <2>1 DEF Two, Chain, l
<1>12. U[1] \in Seq(Msg) /\ Part(q, p, l) \in Seq(Msg) /\ U[0] \in Seq(Msg)
  BY <1>3, <1>5, <1>6, PartType DEF Two, Chain
<1>13. X[0] = U[0] \o <<m>>
  <2>. DEFINE x == U[1]
              y == Part(q, p, l)
  <2>1. <<m>> \in Seq(Msg)
    BY <1>1
  <2>2. x \in Seq(Msg) /\ y \in Seq(Msg) /\ U[0] = x \o y /\ X[0] = x \o (y \o <<m>>)
    BY <1>8, <1>10, <1>11, <1>12
  <2>. HIDE DEF x, y
  <2>3. (x \o y) \o <<m>> = x \o (y \o <<m>>)
    BY <2>1, <2>2, Concats
  <2>. QED
    BY <2>2, <2>3
<1>14. X[0] = Append(U[0], m)
  BY <1>1, <1>12, <1>13, AppendIsConcat
<1>. QED
  BY <1>3, <1>14 DEF Two, Chain

\* A message that is absorbed was the first one in transit.
LEMMA MovingAbsorb ==
    ASSUME NEW q \in [Buffer -> Seq(Msg)], NEW r \in [Buffer -> Seq(Msg)],
           NEW t \in Tables, Acyclic(t), NEW p \in Node \X Node, NEW m \in Mine(p),
           NEW w, Way(t, p[1], p[2], w), NEW i \in 0..(Hops - 1), ~ Ends(t, w[i], p[2]),
           w[i+1] = p[2],
           Leaves(q, r, m, InBuf(Hop(w, i)))
    PROVE  Moving(q, t, p) # <<>> /\ Moving(r, t, p) = Tail(Moving(q, t, p))
<1>1. m \in Msg
  BY DEF Mine
<1>2. PICK U, X : Two(q, r, t, p, w, U, X)
  BY TwoExist
<1>. DEFINE l == Hop(w, i)
<1>3. l \in Link
  BY <1>2 DEF Two, Straight
<1>4. i + 1 \in 0..Hops /\ 0 \in 0..Hops /\ i \in 0..Hops
  BY HopsType
<1>5. /\ InBuf(l) \in Buffer /\ OutBuf(l) \in Buffer /\ r[InBuf(l)] = Tail(q[InBuf(l)])
      /\ \A b \in Buffer : b # InBuf(l) => r[b] = q[b]
  BY <1>3, LinkBuffers DEF Leaves
<1>. HIDE DEF l
<1>6. Part(q, p, l) = <<m>> \o Part(r, p, l)
  <2>1. r[OutBuf(l)] = q[OutBuf(l)]
    BY <1>3, <1>5, BuffersDiffer
  <2>2. Loses(q, r, m, l)
    BY <1>5, <2>1 DEF l, Leaves, Loses
  <2>3. m \in Msg /\ m \in Mine(p) /\ l \in Link
    BY <1>1, <1>3
  <2>4. HeadOf(q, r, p, m, l)
    BY <2>2, <2>3, TailPart
  <2>. QED
    BY <2>4 DEF HeadOf
<1>7. U[i+1] = <<>> /\ X[i+1] = <<>>
  <2>1. Ends(t, w[i+1], p[2])
    BY DEF Ends
  <2>. QED
    <3>1. CASE i + 1 = Hops
      BY <1>2, <3>1 DEF Two, Chain
    <3>2. CASE i + 1 # Hops
      <4>1. i + 1 \in 0..(Hops - 1)
        BY <1>4, <3>2, HopsType
      <4>. QED
        BY <1>2, <2>1, <4>1 DEF Two, Chain
    <3>. QED
      BY <3>1, <3>2
<1>8. Part(q, p, l) \in Seq(Msg) /\ Part(r, p, l) \in Seq(Msg)
  BY <1>3, PartType
<1>9. U[i] = <<>> \o Part(q, p, l) /\ X[i] = <<>> \o Part(r, p, l)
  BY <1>2, <1>7 DEF Two, Chain, l
<1>10. U[i] = <<m>> \o X[i]
  BY <1>6, <1>8, <1>9, ConcatEmptySeq
<1>11. ASSUME NEW j \in 0..(i - 1)  PROVE Part(q, p, Hop(w, j)) = Part(r, p, Hop(w, j))
  <2>1. j \in 0..(Hops - 1) /\ j # i /\ j \in 0..i
    BY HopsType
  <2>2. ~ Ends(t, w[j], p[2])
    BY <1>2, <1>4, <2>1, GoesOnBefore DEF Two
  <2>3. Hop(w, j) # l /\ Hop(w, j) \in Link
    BY <1>2, <2>1, <2>2, HopsDiffer DEF l, Two
  <2>4. /\ InBuf(Hop(w, j)) \in Buffer /\ OutBuf(Hop(w, j)) \in Buffer
        /\ InBuf(Hop(w, j)) # InBuf(l) /\ OutBuf(Hop(w, j)) # InBuf(l)
    BY <1>3, <2>3, LinkBuffers, BuffersDiffer
  <2>5. /\ q[InBuf(Hop(w, j))] = r[InBuf(Hop(w, j))]
        /\ q[OutBuf(Hop(w, j))] = r[OutBuf(Hop(w, j))]
    BY <1>5, <2>4
  <2>. QED
    BY <2>5 DEF Part
<1>12. <<m>> \in Seq(Msg)
  BY <1>1
<1>13. U[0] = <<m>> \o X[0]
  <2>1. Alike(q, r, t, p, w, 0..(i - 1))
    BY <1>11 DEF Alike
  <2>. DEFINE e == <<m>>
  <2>2. e \in Seq(Msg) /\ Prefixed(U, X, e, i)
    BY <1>10, <1>12 DEF Prefixed
  <2>. HIDE DEF e
  <2>3. Prefixed(U, X, e, 0)
    BY <1>2, <2>1, <2>2, SameBefore
  <2>. QED
    BY <2>3 DEF e, Prefixed
<1>14. X[0] \in Seq(Msg)
  BY <1>2, <1>4 DEF Two, Chain
<1>15. U[0] # <<>> /\ Tail(U[0]) = X[0]
  BY <1>1, <1>13, <1>14, Prepend
<1>. QED
  BY <1>2, <1>15 DEF Two, Chain

\* A message that crosses a switch on its route stays where it is in transit.
LEMMA MovingSwitch ==
    ASSUME NEW q \in [Buffer -> Seq(Msg)], NEW r \in [Buffer -> Seq(Msg)],
           NEW t \in Tables, Acyclic(t), NEW p \in Node \X Node, NEW m \in Mine(p),
           NEW w, Way(t, p[1], p[2], w), NEW i \in 0..(Hops - 1), ~ Ends(t, w[i], p[2]),
           ~ Ends(t, w[i+1], p[2]),
           Passes(q, r, m, InBuf(Hop(w, i)), t.out[<<w[i+1], p[2]>>])
    PROVE  Moving(q, t, p) = Moving(r, t, p)
<1>1. m \in Msg
  BY DEF Mine
<1>2. PICK U, X : Two(q, r, t, p, w, U, X)
  BY TwoExist
<1>. DEFINE j == i + 1
            l == Hop(w, i)
            k == Hop(w, j)
<1>3. /\ j \in 0..Hops /\ 0 \in 0..Hops /\ i \in 0..Hops /\ j # i /\ j = i + 1
      /\ ~ Ends(t, w[j], p[2])
  BY HopsType
<1>. HIDE DEF j
<1>4. j \in 0..(Hops - 1)
  BY <1>2, <1>3, HopsEnd DEF Two
<1>5. /\ l \in Link /\ k \in Link /\ l # k
      /\ t.out[<<w[j], p[2]>>] = OutBuf(k)
  <2>1. l \in Link /\ k \in Link /\ l # k
    BY <1>2, <1>3, <1>4, HopsDiffer DEF Two
  <2>2. t.out[<<w[j], p[2]>>] = OutBuf(k)
    BY <1>2, <1>3, <1>4 DEF Two, Straight
  <2>. QED
    BY <2>1, <2>2
<1>6. r = [q EXCEPT ![InBuf(l)] = Tail(q[InBuf(l)]), ![OutBuf(k)] = Append(q[OutBuf(k)], m)]
  <2>1. r = [q EXCEPT ![InBuf(l)] = Tail(@), ![OutBuf(k)] = Append(@, m)]
    BY <1>3, <1>5 DEF Passes
  <2>. HIDE DEF l, k
  <2>2. InBuf(l) # OutBuf(k) /\ InBuf(l) \in Buffer /\ OutBuf(k) \in Buffer
    BY <1>5, LinkBuffers, BuffersDiffer
  <2>. QED
    BY <2>1, <2>2
<1>7. q[InBuf(l)] # <<>> /\ Head(q[InBuf(l)]) = m
  BY DEF Passes
<1>. HIDE DEF l, k
<1>8. /\ InBuf(l) \in Buffer /\ OutBuf(l) \in Buffer /\ InBuf(k) \in Buffer /\ OutBuf(k) \in Buffer
      /\ InBuf(l) # InBuf(k) /\ OutBuf(l) # OutBuf(k)
      /\ InBuf(l) # OutBuf(k) /\ InBuf(k) # OutBuf(l) /\ InBuf(k) # OutBuf(k) /\ InBuf(l) # OutBuf(l)
  BY <1>5, LinkBuffers, BuffersDiffer
<1>9. /\ r[InBuf(l)] = Tail(q[InBuf(l)]) /\ r[OutBuf(k)] = Append(q[OutBuf(k)], m)
      /\ r[OutBuf(l)] = q[OutBuf(l)] /\ r[InBuf(k)] = q[InBuf(k)]
      /\ \A b \in Buffer : b # InBuf(l) /\ b # OutBuf(k) => r[b] = q[b]
  BY <1>6, <1>8
<1>10. Part(q, p, l) = <<m>> \o Part(r, p, l)
  <2>1. Loses(q, r, m, l)
    BY <1>7, <1>9 DEF Loses
  <2>2. m \in Msg /\ m \in Mine(p) /\ l \in Link
    BY <1>1, <1>5
  <2>3. HeadOf(q, r, p, m, l)
    BY <2>1, <2>2, TailPart
  <2>. QED
    BY <2>3 DEF HeadOf
<1>11. Part(r, p, k) = Part(q, p, k) \o <<m>>
  <2>1. Gets(q, r, m, k)
    BY <1>9 DEF Gets
  <2>2. m \in Msg /\ m \in Mine(p) /\ k \in Link
    BY <1>1, <1>5
  <2>3. LastOf(q, r, p, m, k)
    BY <2>1, <2>2, AppendPart
  <2>. QED
    BY <2>3 DEF LastOf
<1>12. ASSUME NEW h \in 0..(Hops - 1), h # i, h # j, ~ Ends(t, w[h], p[2])
       PROVE  Part(q, p, Hop(w, h)) = Part(r, p, Hop(w, h))
  <2>1. Hop(w, h) # l /\ Hop(w, h) \in Link
    BY <1>2, <1>12, HopsDiffer DEF l, Two
  <2>2. Hop(w, h) # k
    BY <1>2, <1>3, <1>4, <1>12, HopsDiffer DEF k, Two
  <2>3. /\ InBuf(Hop(w, h)) \in Buffer /\ OutBuf(Hop(w, h)) \in Buffer
        /\ InBuf(Hop(w, h)) # InBuf(l) /\ InBuf(Hop(w, h)) # OutBuf(k)
        /\ OutBuf(Hop(w, h)) # InBuf(l) /\ OutBuf(Hop(w, h)) # OutBuf(k)
    BY <1>5, <2>1, <2>2, LinkBuffers, BuffersDiffer
  <2>4. /\ q[InBuf(Hop(w, h))] = r[InBuf(Hop(w, h))]
        /\ q[OutBuf(Hop(w, h))] = r[OutBuf(Hop(w, h))]
    BY <1>9, <2>3
  <2>. QED
    BY <2>4 DEF Part
<1>13. j + 1 \in 0..Hops /\ \A h \in (j + 1)..(Hops - 1) : h \in 0..(Hops - 1) /\ h # i /\ h # j
  BY <1>3, <1>4, HopsType
<1>14. U[j+1] = X[j+1]
  <2>1. Alike(q, r, t, p, w, (j + 1)..(Hops - 1))
    BY <1>12, <1>13 DEF Alike
  <2>. QED
    BY <1>2, <1>13, <2>1, SameAfter
<1>15. U[j] = U[j+1] \o Part(q, p, k) /\ X[j] = X[j+1] \o Part(r, p, k)
  BY <1>2, <1>3, <1>4 DEF Two, Chain, k
<1>16. U[i] = U[j] \o Part(q, p, l) /\ X[i] = X[j] \o Part(r, p, l)
  BY <1>2, <1>3 DEF Two, Chain, l
<1>17. /\ U[j+1] \in Seq(Msg) /\ U[j] \in Seq(Msg) /\ X[i] \in Seq(Msg) /\ <<m>> \in Seq(Msg)
       /\ Part(q, p, k) \in Seq(Msg) /\ Part(r, p, l) \in Seq(Msg)
  <2>1. U[j+1] \in Seq(Msg) /\ U[j] \in Seq(Msg) /\ X[i] \in Seq(Msg)
    BY <1>2, <1>3, <1>13 DEF Two, Chain
  <2>2. Part(q, p, k) \in Seq(Msg) /\ Part(r, p, l) \in Seq(Msg)
    BY <1>5, PartType
  <2>3. <<m>> \in Seq(Msg)
    BY <1>1
  <2>. QED
    BY <2>1, <2>2, <2>3
<1>18. X[j] = U[j] \o <<m>>
  <2>. DEFINE x == U[j+1]
              y == Part(q, p, k)
              e == <<m>>
  <2>1. /\ x \in Seq(Msg) /\ y \in Seq(Msg) /\ e \in Seq(Msg)
        /\ U[j] = x \o y /\ X[j] = x \o (y \o e)
    BY <1>11, <1>14, <1>15, <1>17
  <2>. HIDE DEF x, y, e
  <2>2. (x \o y) \o e = x \o (y \o e)
    BY <2>1, Concats
  <2>3. X[j] = U[j] \o e
    BY <2>1, <2>2
  <2>. QED
    BY <2>3 DEF e
<1>19. U[i] = X[i]
  <2>. DEFINE x == U[j]
              y == Part(r, p, l)
              e == <<m>>
  <2>1. /\ x \in Seq(Msg) /\ y \in Seq(Msg) /\ e \in Seq(Msg)
        /\ U[i] = x \o (e \o y) /\ X[i] = (x \o e) \o y
    BY <1>10, <1>16, <1>17, <1>18
  <2>. HIDE DEF x, y, e
  <2>2. (x \o e) \o y = x \o (e \o y)
    BY <2>1, Concats
  <2>. QED
    BY <2>1, <2>2
<1>20. ASSUME NEW h \in 0..(i - 1)  PROVE Part(q, p, Hop(w, h)) = Part(r, p, Hop(w, h))
  <2>1. h \in 0..(Hops - 1) /\ h # i /\ h # j /\ h \in 0..i
    BY <1>3, HopsType
  <2>2. ~ Ends(t, w[h], p[2])
    BY <1>2, <1>3, <2>1, GoesOnBefore DEF Two
  <2>. QED
    BY <1>12, <2>1, <2>2
<1>21. <<>> \in Seq(Msg) /\ U[i] = <<>> \o X[i]
  BY <1>17, <1>19, ConcatEmptySeq
<1>22. U[0] = <<>> \o X[0]
  <2>1. Alike(q, r, t, p, w, 0..(i - 1))
    BY <1>20 DEF Alike
  <2>. DEFINE e == <<>>
  <2>2. e \in Seq(Msg) /\ Prefixed(U, X, e, i)
    BY <1>21 DEF Prefixed
  <2>. HIDE DEF e
  <2>3. Prefixed(U, X, e, 0)
    BY <1>2, <2>1, <2>2, SameBefore
  <2>. QED
    BY <2>3 DEF e, Prefixed
<1>23. X[0] \in Seq(Msg)
  BY <1>2, <1>3 DEF Two, Chain
<1>24. U[0] = X[0]
  BY <1>22, <1>23, ConcatEmptySeq
<1>. QED
  BY <1>2, <1>24 DEF Two, Chain

-----------------------------------------------------------------------------
(* The channels of all pairs *)

Contents(q, t) == [p \in Pairs |-> IF t.hasCycle THEN <<>> ELSE Moving(q, t, p)]

\* The buffer a message is in is one of its route.
OnWay(t, m, w, b) == \E i \in 0..(Hops - 1) : ~ Ends(t, w[i], Dst[m]) /\ b[2] = Hop(w, i)

Routed(t, m, b) == \A w : Way(t, Src[m], Dst[m], w) => OnWay(t, m, w, b)

LEMMA PairsAreNodes ==
    ASSUME NEW p \in Pairs
    PROVE  p \in Node \X Node /\ p[1] \in Node /\ p[2] \in Node
  BY MessageNodes DEF Pairs

LEMMA MinePair ==
    ASSUME NEW m \in Msg
    PROVE  /\ <<Src[m], Dst[m]>> \in Pairs /\ m \in Mine(<<Src[m], Dst[m]>>)
           /\ \A p : m \in Mine(p) <=> p = <<Src[m], Dst[m]>>
  BY DEF Pairs, Mine

LEMMA NoCycleAcyclic ==
    ASSUME NEW t \in Tables, ~ t.hasCycle
    PROVE  Acyclic(t)
  BY NetworkAssumption

LEMMA EntersRouted ==
    ASSUME NEW t \in Tables, ~ t.hasCycle, NEW m \in Msg, t.out[<<Src[m], Dst[m]>>] # None
    PROVE  Routed(t, m, t.out[<<Src[m], Dst[m]>>])
<1>. SUFFICES ASSUME NEW w, Way(t, Src[m], Dst[m], w)
              PROVE  OnWay(t, m, w, t.out[<<Src[m], Dst[m]>>])
  BY DEF Routed
<1>1. Src[m] \in Node /\ Dst[m] \in Node /\ Src[m] # Dst[m]
  BY MessageNodes, NetworkAssumption
<1>2. Straight(t, Dst[m], w)
  BY <1>1, NoCycleAcyclic, WayIsStraight
<1>3. w[0] = Src[m] /\ ~ Ends(t, w[0], Dst[m])
  BY <1>1 DEF Way, Ends
<1>4. 0 \in 0..Hops
  BY HopsType
<1>5. 0 \in 0..(Hops - 1)
  BY <1>2, <1>3, <1>4, HopsEnd
<1>6. t.out[<<w[0], Dst[m]>>] = OutBuf(Hop(w, 0))
  BY <1>2, <1>3, <1>5 DEF Straight
<1>. QED
  BY <1>3, <1>5, <1>6 DEF OnWay, OutBuf

LEMMA CrossesRouted ==
    ASSUME NEW t \in Tables, ~ t.hasCycle, NEW m \in Msg, NEW l \in Link, Routed(t, m, InBuf(l)),
           l[2] # Dst[m], t.out[<<l[2], Dst[m]>>] # None
    PROVE  Routed(t, m, t.out[<<l[2], Dst[m]>>])
<1>. SUFFICES ASSUME NEW w, Way(t, Src[m], Dst[m], w)
              PROVE  OnWay(t, m, w, t.out[<<l[2], Dst[m]>>])
  BY DEF Routed
<1>1. Src[m] \in Node /\ Dst[m] \in Node
  BY MessageNodes
<1>2. Straight(t, Dst[m], w)
  BY <1>1, NoCycleAcyclic, WayIsStraight
<1>3. PICK i \in 0..(Hops - 1) : ~ Ends(t, w[i], Dst[m]) /\ l = Hop(w, i)
  BY LinkBuffers DEF Routed, OnWay
<1>4. l[2] = w[i+1] /\ i + 1 \in 0..Hops
  BY <1>3, HopsType DEF Hop
<1>5. ~ Ends(t, w[i+1], Dst[m])
  BY <1>4 DEF Ends
<1>6. i + 1 \in 0..(Hops - 1)
  BY <1>2, <1>4, <1>5, HopsEnd
<1>7. t.out[<<w[i+1], Dst[m]>>] = OutBuf(Hop(w, i+1))
  BY <1>2, <1>5, <1>6 DEF Straight
<1>8. OutBuf(Hop(w, i+1))[2] = Hop(w, i+1)
  BY DEF OutBuf
<1>. QED
  BY <1>4, <1>5, <1>6, <1>7, <1>8 DEF OnWay

\* Only the channel of its own pair changes when a message goes on.
LEMMA OthersKeep ==
    ASSUME NEW q \in [Buffer -> Seq(Msg)], NEW r, NEW p, NEW m \in Msg, m \notin Mine(p),
           NEW a \in Buffer, NEW b \in Buffer, a # b,
           Goes(q, r, m, a, b)
    PROVE  SameParts(q, r, p)
<1>1. q[a] \in Seq(Msg) /\ q[b] \in Seq(Msg)
  OBVIOUS
<1>2. Among(Append(q[b], m), Mine(p)) = Among(q[b], Mine(p))
  BY <1>1, AmongAppend
<1>3. ASSUME q[a] # <<>>, Head(q[a]) = m  PROVE Among(Tail(q[a]), Mine(p)) = Among(q[a], Mine(p))
  BY <1>1, <1>3, AmongTail
<1>4. ASSUME NEW c \in Buffer  PROVE Among(r[c], Mine(p)) = Among(q[c], Mine(p))
  <2>1. CASE Enters(q, r, m, b)
    <3>1. r[c] = IF c = b THEN Append(q[b], m) ELSE q[c]
      BY <2>1 DEF Enters
    <3>. QED
      BY <1>2, <3>1
  <2>2. CASE Leaves(q, r, m, a)
    <3>1. r[c] = IF c = a THEN Tail(q[a]) ELSE q[c]
      BY <2>2 DEF Leaves
    <3>2. q[a] # <<>> /\ Head(q[a]) = m
      BY <2>2 DEF Leaves
    <3>. QED
      BY <1>3, <3>1, <3>2
  <2>3. CASE Passes(q, r, m, a, b)
    <3>1. r[c] = IF c = a THEN Tail(q[a]) ELSE IF c = b THEN Append(q[b], m) ELSE q[c]
      BY <2>3 DEF Passes
    <3>2. q[a] # <<>> /\ Head(q[a]) = m
      BY <2>3 DEF Passes
    <3>. QED
      BY <1>2, <1>3, <3>1, <3>2
  <2>. QED
    BY <2>1, <2>2, <2>3 DEF Goes
<1>. QED
  BY <1>4, LinkBuffers DEF Part, SameParts

\* The channels with a message more or less for pair p.
LEMMA ContentsSend ==
    ASSUME NEW q \in [Buffer -> Seq(Msg)], NEW r \in [Buffer -> Seq(Msg)], NEW t \in Tables,
           ~ t.hasCycle, NEW m \in Msg, t.out[<<Src[m], Dst[m]>>] # None,
           Enters(q, r, m, t.out[<<Src[m], Dst[m]>>])
    PROVE  Enters(Contents(q, t), Contents(r, t), m, <<Src[m], Dst[m]>>)
<1>. DEFINE s == <<Src[m], Dst[m]>>
<1>1. s \in Pairs /\ m \in Mine(s) /\ \A p : m \in Mine(p) <=> p = s
  BY MinePair
<1>2. Src[m] \in Node /\ Dst[m] \in Node /\ Src[m] # Dst[m]
  BY MessageNodes, NetworkAssumption
<1>3. Acyclic(t)
  BY NoCycleAcyclic
<1>4. s[1] = Src[m] /\ s[2] = Dst[m] /\ s \in Node \X Node
  BY <1>2
<1>5. t.out[s] \in Buffer
  BY <1>2, NextHop, LinkBuffers
<1>6. PICK a \in Buffer : a # t.out[s]
  <2>1. t.out[s] = OutBuf(t.out[s][2]) /\ t.out[s][2] \in Link
    BY <1>2, NextHop
  <2>2. InBuf(t.out[s][2]) \in Buffer /\ InBuf(t.out[s][2]) # OutBuf(t.out[s][2])
    BY <2>1, LinkBuffers, BuffersDiffer
  <2>. QED
    BY <2>1, <2>2
<1>7. Starts(q, r, t, m, s) /\ Enters(q, r, m, t.out[s])
  BY <1>2 DEF Starts
<1>. HIDE DEF s
<1>8. Moving(r, t, s) = Append(Moving(q, t, s), m)
  BY <1>1, <1>3, <1>4, <1>7, MovingSend
<1>9. ASSUME NEW p \in Pairs, p # s  PROVE Moving(r, t, p) = Moving(q, t, p)
  <2>1. m \notin Mine(p) /\ p \in Node \X Node
    BY <1>1, <1>9, PairsAreNodes
  <2>2. Goes(q, r, m, a, t.out[s])
    BY <1>7 DEF Goes
  <2>3. SameParts(q, r, p)
    BY <1>5, <1>6, <2>1, <2>2, OthersKeep
  <2>. QED
    BY <1>3, <2>1, <2>3, MovingSame
<1>10. Enters(Contents(q, t), Contents(r, t), m, s)
  BY <1>1, <1>8, <1>9 DEF Contents, Enters
<1>. QED
  BY <1>10 DEF s

LEMMA ContentsAbsorb ==
    ASSUME NEW q \in [Buffer -> Seq(Msg)], NEW r \in [Buffer -> Seq(Msg)], NEW t \in Tables,
           ~ t.hasCycle, NEW m \in Msg, NEW l \in Link, l[2] = Dst[m],
           Leaves(q, r, m, InBuf(l)), Routed(t, m, InBuf(l))
    PROVE  /\ Contents(q, t)[<<Src[m], Dst[m]>>] # <<>>
           /\ Contents(r, t) = [Contents(q, t) EXCEPT ![<<Src[m], Dst[m]>>] = Tail(@)]
<1>. DEFINE s == <<Src[m], Dst[m]>>
<1>1. s \in Pairs /\ m \in Mine(s) /\ \A p : m \in Mine(p) <=> p = s
  BY MinePair
<1>2. Src[m] \in Node /\ Dst[m] \in Node
  BY MessageNodes
<1>3. Acyclic(t)
  BY NoCycleAcyclic
<1>4. s[1] = Src[m] /\ s[2] = Dst[m] /\ s \in Node \X Node
  BY <1>2
<1>5. PICK w : Way(t, Src[m], Dst[m], w)
  BY <1>2, WayExists
<1>6. PICK i \in 0..(Hops - 1) : ~ Ends(t, w[i], Dst[m]) /\ l = Hop(w, i)
  BY <1>5, LinkBuffers DEF Routed, OnWay
<1>7. w[i+1] = s[2]
  BY <1>4, <1>6 DEF Hop
<1>8. Way(t, s[1], s[2], w) /\ ~ Ends(t, w[i], s[2]) /\ Leaves(q, r, m, InBuf(Hop(w, i)))
  BY <1>4, <1>5, <1>6
<1>. HIDE DEF s
<1>9. Moving(q, t, s) # <<>> /\ Moving(r, t, s) = Tail(Moving(q, t, s))
  BY <1>1, <1>3, <1>4, <1>7, <1>8, MovingAbsorb
<1>10. ASSUME NEW p \in Pairs, p # s  PROVE Moving(r, t, p) = Moving(q, t, p)
  <2>1. m \notin Mine(p) /\ p \in Node \X Node
    BY <1>1, <1>10, PairsAreNodes
  <2>2. InBuf(l) \in Buffer /\ OutBuf(l) \in Buffer /\ InBuf(l) # OutBuf(l)
    BY LinkBuffers, BuffersDiffer
  <2>3. SameParts(q, r, p)
    <3>1. Goes(q, r, m, InBuf(l), OutBuf(l))
      BY DEF Goes
    <3>. QED
      BY <2>1, <2>2, <3>1, OthersKeep
  <2>. QED
    BY <1>3, <2>1, <2>3, MovingSame
<1>11. /\ Contents(q, t)[s] # <<>>
       /\ Contents(r, t) = [Contents(q, t) EXCEPT ![s] = Tail(@)]
  BY <1>1, <1>9, <1>10 DEF Contents
<1>. QED
  BY <1>11 DEF s

LEMMA ContentsCrossLink ==
    ASSUME NEW q \in [Buffer -> Seq(Msg)], NEW r \in [Buffer -> Seq(Msg)], NEW t \in Tables,
           ~ t.hasCycle, NEW m \in Msg, NEW l \in Link,
           Passes(q, r, m, OutBuf(l), InBuf(l))
    PROVE  Contents(r, t) = Contents(q, t)
<1>1. Acyclic(t)
  BY NoCycleAcyclic
<1>2. ASSUME NEW p \in Pairs  PROVE Moving(r, t, p) = Moving(q, t, p)
  <2>1. p \in Node \X Node
    BY PairsAreNodes
  <2>2. ASSUME NEW k \in Link  PROVE Part(q, p, k) = Part(r, p, k)
    <3>1. /\ InBuf(l) \in Buffer /\ OutBuf(l) \in Buffer /\ InBuf(l) # OutBuf(l)
          /\ InBuf(k) \in Buffer /\ OutBuf(k) \in Buffer /\ InBuf(k) # OutBuf(l) /\ OutBuf(k) # InBuf(l)
      BY LinkBuffers, BuffersDiffer
    <3>2. CASE k = l
      <4>1. Crosses(q, r, m, l)
        BY <3>1 DEF Passes, Crosses
      <4>2. Part(r, p, l) = Part(q, p, l)
        BY <4>1, CrossPart
      <4>. QED
        BY <3>2, <4>2
    <3>3. CASE k # l
      <4>1. InBuf(k) # InBuf(l) /\ OutBuf(k) # OutBuf(l)
        BY <3>3, BuffersDiffer
      <4>2. q[InBuf(k)] = r[InBuf(k)] /\ q[OutBuf(k)] = r[OutBuf(k)]
        BY <3>1, <4>1 DEF Passes
      <4>. QED
        BY <4>2 DEF Part
    <3>. QED
      BY <3>2, <3>3
  <2>. QED
    <3>1. SameParts(q, r, p)
      BY <2>2 DEF SameParts
    <3>. QED
      BY <1>1, <2>1, <3>1, MovingSame
<1>. QED
  BY <1>2 DEF Contents

LEMMA ContentsCrossSwitch ==
    ASSUME NEW q \in [Buffer -> Seq(Msg)], NEW r \in [Buffer -> Seq(Msg)], NEW t \in Tables,
           ~ t.hasCycle, NEW m \in Msg, NEW l \in Link, l[2] # Dst[m], t.out[<<l[2], Dst[m]>>] # None,
           Passes(q, r, m, InBuf(l), t.out[<<l[2], Dst[m]>>]), Routed(t, m, InBuf(l))
    PROVE  Contents(r, t) = Contents(q, t)
<1>. DEFINE s == <<Src[m], Dst[m]>>
            b == t.out[<<l[2], Dst[m]>>]
<1>1. s \in Pairs /\ m \in Mine(s) /\ \A p : m \in Mine(p) <=> p = s
  BY MinePair
<1>2. Src[m] \in Node /\ Dst[m] \in Node /\ l[2] \in Node
  BY MessageNodes, LinksJoinNodes
<1>3. Acyclic(t)
  BY NoCycleAcyclic
<1>4. s[1] = Src[m] /\ s[2] = Dst[m] /\ s \in Node \X Node
  BY <1>2
<1>5. PICK w : Way(t, Src[m], Dst[m], w)
  BY <1>2, WayExists
<1>6. PICK i \in 0..(Hops - 1) : ~ Ends(t, w[i], Dst[m]) /\ l = Hop(w, i)
  BY <1>5, LinkBuffers DEF Routed, OnWay
<1>7. l[2] = w[i+1]
  BY <1>6 DEF Hop
<1>8. /\ Way(t, s[1], s[2], w) /\ ~ Ends(t, w[i], s[2]) /\ ~ Ends(t, w[i+1], s[2])
      /\ Passes(q, r, m, InBuf(Hop(w, i)), t.out[<<w[i+1], s[2]>>])
  BY <1>4, <1>5, <1>6, <1>7 DEF Ends
<1>9. b \in Buffer /\ InBuf(l) \in Buffer /\ InBuf(l) # b
  <2>1. b = OutBuf(b[2]) /\ b[2] \in Link
    BY <1>2, NextHop
  <2>. HIDE DEF b
  <2>2. OutBuf(b[2]) \in Buffer /\ InBuf(l) \in Buffer /\ InBuf(l) # OutBuf(b[2])
    BY <2>1, LinkBuffers, BuffersDiffer
  <2>. QED
    BY <2>1, <2>2
<1>10. Passes(q, r, m, InBuf(l), b)
  OBVIOUS
<1>. HIDE DEF s, b
<1>11. Moving(q, t, s) = Moving(r, t, s)
  BY <1>1, <1>3, <1>4, <1>8, MovingSwitch
<1>12. ASSUME NEW p \in Pairs, p # s  PROVE Moving(r, t, p) = Moving(q, t, p)
  <2>1. m \notin Mine(p) /\ p \in Node \X Node
    BY <1>1, <1>12, PairsAreNodes
  <2>2. SameParts(q, r, p)
    <3>1. Goes(q, r, m, InBuf(l), b)
      BY <1>10 DEF Goes
    <3>. QED
      BY <1>9, <2>1, <3>1, OthersKeep
  <2>. QED
    BY <1>3, <2>1, <2>2, MovingSame
<1>13. \A p \in Pairs : Moving(r, t, p) = Moving(q, t, p)
  BY <1>11, <1>12
<1>. QED
  BY <1>13 DEF Contents

\* Nothing is in transit when the lists are empty.
LEMMA MovingNothing ==
    ASSUME NEW q \in [Buffer -> Seq(Msg)], \A b \in Buffer : q[b] = <<>>,
           NEW t \in Tables, NEW p \in Node \X Node
    PROVE  Moving(q, t, p) = <<>>
<1>1. p[1] \in Node /\ p[2] \in Node
  OBVIOUS
<1>2. PICK w : Way(t, p[1], p[2], w)
  BY <1>1, WayExists
<1>3. PICK U : Chain(q, t, p, w, U)
  BY <1>2, ChainExists
<1>4. ASSUME NEW l \in Link  PROVE Part(q, p, l) = <<>>
  <2>1. q[InBuf(l)] = <<>> /\ q[OutBuf(l)] = <<>>
    BY LinkBuffers
  <2>2. Part(q, p, l) = <<>> \o <<>>
    BY <2>1, AmongNone DEF Part
  <2>3. <<>> \in Seq(Msg)
    OBVIOUS
  <2>4. <<>> \o <<>> = <<>>
    BY <2>3, ConcatEmptySeq
  <2>. QED
    BY <2>2, <2>4
<1>. DEFINE T == {h \in 0..Hops : U[h] = <<>>}
<1>5. Hops \in T /\ Hops \in Nat
  BY <1>3, HopsType DEF Chain
<1>6. ASSUME NEW h \in 0..(Hops - 1), h + 1 \in T  PROVE h \in T
  <2>1. h \in 0..Hops
    BY HopsType
  <2>2. CASE Ends(t, w[h], p[2])
    BY <1>3, <2>1, <2>2 DEF Chain
  <2>3. CASE ~ Ends(t, w[h], p[2])
    <3>1. GoesOn(t, p[2], w, h)
      BY <1>1, <1>2, WayGoesOn
    <3>2. Hop(w, h) \in Link
      BY <2>3, <3>1 DEF GoesOn
    <3>3. U[h] = U[h+1] \o Part(q, p, Hop(w, h))
      BY <1>3, <2>3 DEF Chain
    <3>4. U[h] = <<>> \o <<>>
      BY <1>4, <1>6, <3>2, <3>3
    <3>5. <<>> \in Seq(Msg)
      OBVIOUS
    <3>6. <<>> \o <<>> = <<>>
      BY <3>5, ConcatEmptySeq
    <3>. QED
      BY <2>1, <3>4, <3>6
  <2>. QED
    BY <2>2, <2>3
<1>. HIDE DEF T
<1>7. 0..Hops \subseteq T
  BY <1>5, <1>6, Downwards
<1>8. U[0] = <<>>
  BY <1>5, <1>7 DEF T
<1>. QED
  BY <1>3, <1>8 DEF Chain

-----------------------------------------------------------------------------
(* The network keeps every message on its route *)

OnWays == \A m \in Msg : InNetwork(m) /\ ~ route.hasCycle => Routed(route, m, place[m])

\* Only [2], the link, of a buffer matters.
LEMMA SameLinkRouted ==
    ASSUME NEW t, NEW m, NEW a, NEW b, Routed(t, m, a), a[2] = b[2]
    PROVE  Routed(t, m, b)
  BY DEF Routed, OnWay

\* Where message m goes in one step.
LEMMA MoveSteps ==
    ASSUME NetInv, NEW m \in Msg, CrossLink(m) \/ CrossSwitch(m)
    PROVE  /\ \E b \in Buffer : b # place[m] /\ Move(m, place[m], b)
           /\ place[m] \in Buffer /\ InNetwork(m) /\ queue[place[m]] # <<>> /\ AtHead(m)
           /\ CrossLink(m) => \E l \in Link : place[m] = OutBuf(l) /\ Move(m, OutBuf(l), InBuf(l))
           /\ CrossSwitch(m) => \E l \in Link : /\ place[m] = InBuf(l) /\ l[2] # Dst[m]
                                                /\ route.out[<<l[2], Dst[m]>>] # None
                                                /\ Move(m, InBuf(l), route.out[<<l[2], Dst[m]>>])
<1>1. InNetwork(m) /\ AtHead(m)
  BY DEF CrossLink, CrossSwitch, MayCross, InNetwork
<1>2. place[m] \in Buffer /\ queue[place[m]] \in Seq(Msg)
  BY <1>1, InNetworkPlaces DEF NetInv, NetTypeOK
<1>3. queue[place[m]] # <<>>
  <2>1. Listed(m, queue[place[m]])
    BY <1>1 DEF NetInv, AllListed
  <2>. QED
    BY <2>1 DEF Listed
<1>4. CASE CrossLink(m)
  <2>1. PICK l \in Link : place[m] = OutBuf(l)
    BY <1>4 DEF CrossLink, NetInv, StagesExact, IsOut
  <2>2. place[m][2] = l
    BY <2>1 DEF OutBuf
  <2>3. Move(m, OutBuf(l), InBuf(l))
    BY <1>4, <2>1, <2>2 DEF CrossLink
  <2>4. InBuf(l) \in Buffer /\ InBuf(l) # place[m]
    BY <2>1, LinkBuffers, BuffersDiffer
  <2>5. ~ CrossSwitch(m)
    BY <1>4 DEF CrossLink, CrossSwitch, MayCross
  <2>. QED
    BY <1>1, <1>2, <1>3, <2>1, <2>3, <2>4, <2>5
<1>5. CASE CrossSwitch(m)
  <2>1. PICK l \in Link : place[m] = InBuf(l)
    BY <1>5 DEF CrossSwitch, MayCross, NetInv, StagesExact, IsIn
  <2>2. NodeOf(place[m]) = l[2]
    BY <2>1 DEF InBuf, NodeOf
  <2>. DEFINE b == route.out[<<l[2], Dst[m]>>]
  <2>3. NextBuffer(m) = b
    BY <2>2 DEF NextBuffer
  <2>4. /\ l[2] # Dst[m] /\ b # None /\ Move(m, InBuf(l), b)
    BY <1>5, <2>1, <2>2, <2>3 DEF CrossSwitch, MayCross
  <2>5. route \in Tables /\ l[2] \in Node /\ Dst[m] \in Node
    BY MessageNodes, LinksJoinNodes DEF NetInv, NetTypeOK
  <2>6. b[2] \in Link /\ b = OutBuf(b[2])
    BY <2>4, <2>5, NextHop
  <2>. HIDE DEF b
  <2>7. b \in Buffer /\ b # place[m]
    BY <2>1, <2>6, LinkBuffers, BuffersDiffer
  <2>8. ~ CrossLink(m)
    BY <1>5 DEF CrossLink, CrossSwitch, MayCross
  <2>. QED
    BY <1>1, <1>2, <1>3, <2>1, <2>4, <2>7, <2>8 DEF b
<1>. QED
  BY <1>4, <1>5

LEMMA OnWaysStep ==
    ASSUME NetInv, OnWays, [Next]_vars
    PROVE  OnWays'
<1>0. route' = route
  BY DEF Next, Handle, vars, SendLater, Send, OutputStall, CrossLink, InputStall, Arrive, NotMyTurn,
         CrossSwitch, MayCross, Receive, Absorb, Tick
<1>. SUFFICES ASSUME NEW x \in Msg, InNetwork(x)', ~ route.hasCycle
              PROVE  Routed(route, x, place'[x])
  BY <1>0 DEF OnWays, Routed, OnWay, Way
<1>1. CASE InNetwork(x) /\ place'[x] = place[x]
  BY <1>1 DEF OnWays
<1>2. CASE UNCHANGED <<stage, place>>
  BY <1>1, <1>2 DEF InNetwork
<1>3. ASSUME NEW m \in Msg, SendLater(m) \/ Send(m) \/ Handle(m)
      PROVE  Routed(route, x, place'[x])
  <2>1. CASE SendLater(m)
    <3>1. place' = place /\ stage' = [stage EXCEPT ![m] = "send"]
      BY <2>1 DEF SendLater
    <3>. QED
      BY <1>1, <3>1 DEF InNetwork, NetInv, NetTypeOK
  <2>2. CASE OutputStall(m) \/ InputStall(m) \/ NotMyTurn(m)
    BY <1>2, <2>2 DEF OutputStall, InputStall, NotMyTurn
  <2>3. CASE Arrive(m) \/ Receive(m)
    <3>1. place' = place /\ InNetwork(m) /\ \E s : stage' = [stage EXCEPT ![m] = s]
      BY <2>3 DEF Arrive, Receive, InNetwork
    <3>2. InNetwork(x)
      BY <3>1 DEF InNetwork, NetInv, NetTypeOK
    <3>. QED
      BY <1>1, <3>1, <3>2
  <2>4. CASE Absorb(m)
    <3>1. /\ place' = [place EXCEPT ![m] = None]
          /\ stage' = [stage EXCEPT ![m] = IF m \in Repeated THEN "unsent" ELSE "done"]
      BY <2>4 DEF Absorb
    <3>2. x # m
      BY <3>1 DEF InNetwork, NetInv, NetTypeOK
    <3>3. place'[x] = place[x] /\ stage'[x] = stage[x]
      BY <3>1, <3>2 DEF NetInv, NetTypeOK
    <3>. QED
      BY <1>1, <3>3 DEF InNetwork
  <2>5. CASE Send(m)
    <3>1. /\ FirstBuffer(m) # None /\ place' = [place EXCEPT ![m] = FirstBuffer(m)]
          /\ stage' = [stage EXCEPT ![m] = "out"]
      BY <2>5 DEF Send
    <3>2. CASE x = m
      <4>1. place'[x] = route.out[<<Src[m], Dst[m]>>] /\ route.out[<<Src[m], Dst[m]>>] # None
        BY <3>1, <3>2 DEF NetInv, NetTypeOK, FirstBuffer
      <4>2. route \in Tables
        BY DEF NetInv, NetTypeOK
      <4>. QED
        BY <3>2, <4>1, <4>2, EntersRouted
    <3>3. CASE x # m
      <4>1. place'[x] = place[x] /\ stage'[x] = stage[x]
        BY <3>1, <3>3 DEF NetInv, NetTypeOK
      <4>. QED
        BY <1>1, <4>1 DEF InNetwork
    <3>. QED
      BY <3>2, <3>3
  <2>6. CASE CrossLink(m) \/ CrossSwitch(m)
    <3>1. \E b : place' = [place EXCEPT ![m] = b]
      BY <2>6 DEF CrossLink, CrossSwitch, Move
    <3>2. \E s : stage' = [stage EXCEPT ![m] = s]
      BY <2>6 DEF CrossLink, CrossSwitch
    <3>3. CASE x # m
      <4>1. place'[x] = place[x] /\ stage'[x] = stage[x]
        BY <3>1, <3>2, <3>3 DEF NetInv, NetTypeOK
      <4>. QED
        BY <1>1, <4>1 DEF InNetwork
    <3>4. CASE x = m
      <4>1. Routed(route, m, place[m]) /\ route \in Tables
        BY <2>6, MoveSteps DEF OnWays, NetInv, NetTypeOK
      <4>2. CASE CrossLink(m)
        <5>1. PICK l \in Link : place[m] = OutBuf(l) /\ Move(m, OutBuf(l), InBuf(l))
          BY <4>2, MoveSteps
        <5>2. place'[m] = InBuf(l)
          BY <5>1 DEF Move, NetInv, NetTypeOK
        <5>3. OutBuf(l)[2] = InBuf(l)[2]
          BY LinkBuffers
        <5>4. Routed(route, m, InBuf(l))
          BY <4>1, <5>1, <5>3, SameLinkRouted
        <5>. QED
          BY <3>4, <5>2, <5>4
      <4>3. CASE CrossSwitch(m)
        <5>1. PICK l \in Link : /\ place[m] = InBuf(l) /\ l[2] # Dst[m]
                                /\ route.out[<<l[2], Dst[m]>>] # None
                                /\ Move(m, InBuf(l), route.out[<<l[2], Dst[m]>>])
          BY <4>3, MoveSteps
        <5>2. place'[m] = route.out[<<l[2], Dst[m]>>]
          BY <5>1 DEF Move, NetInv, NetTypeOK
        <5>3. Routed(route, m, InBuf(l))
          BY <4>1, <5>1
        <5>4. Routed(route, m, route.out[<<l[2], Dst[m]>>])
          BY <4>1, <5>1, <5>3, CrossesRouted
        <5>. QED
          BY <3>4, <5>2, <5>4
      <4>. QED
        BY <2>6, <4>2, <4>3
    <3>. QED
      BY <3>3, <3>4
  <2>. QED
    BY <1>3, <2>1, <2>2, <2>3, <2>4, <2>5, <2>6 DEF Handle
<1>. QED
  BY <1>2, <1>3 DEF Next, Tick, vars

LEMMA OnWaysInit == Init => OnWays
  BY DEF Init, OnWays, InNetwork

-----------------------------------------------------------------------------
(* Every step is one of the channels, or none *)

LEMMA ChanIs == Chan = Contents(queue, route) /\ Chan' = Contents(queue', route')
  BY DEF Chan, InTransit, Contents, Moving

LEMMA ChanStep ==
    ASSUME NetInv, NetInv', FlowInv, OnWays, [Next]_vars
    PROVE  Transit!Next \/ Chan' = Chan
<1>0. route' = route
  BY DEF Next, Handle, vars, SendLater, Send, OutputStall, CrossLink, InputStall, Arrive, NotMyTurn,
         CrossSwitch, MayCross, Receive, Absorb, Tick
<1>1. /\ route \in Tables
      /\ queue \in [Buffer -> Seq(Msg)] /\ queue' \in [Buffer -> Seq(Msg)]
  BY DEF NetInv, NetTypeOK
<1>2. CASE queue' = queue
  BY <1>0, <1>2, ChanIs
<1>3. CASE route.hasCycle
  <2>1. Contents(queue', route') = Contents(queue, route)
    BY <1>0, <1>3 DEF Contents
  <2>. QED
    BY <2>1, ChanIs
<1>4. ASSUME NEW m \in Msg, Send(m), ~ route.hasCycle  PROVE Transit!Next
  <2>. DEFINE s == <<Src[m], Dst[m]>>
  <2>1. route.out[s] # None /\ Enters(queue, queue', m, route.out[s])
    BY <1>4 DEF Send, FirstBuffer, Enters
  <2>2. Enters(Contents(queue, route), Contents(queue', route), m, s)
    BY <1>1, <1>4, <2>1, ContentsSend
  <2>3. s \in Pairs
    BY MinePair
  <2>. HIDE DEF s
  <2>4. Chan' = [Chan EXCEPT ![s] = Append(@, m)]
    BY <1>0, <2>2, ChanIs DEF Enters
  <2>5. Transit!Put(s)
    BY <2>4 DEF Transit!Put
  <2>. QED
    BY <2>3, <2>5 DEF Transit!Next
<1>5. ASSUME NEW m \in Msg, Absorb(m), ~ route.hasCycle  PROVE Transit!Next
  <2>. DEFINE s == <<Src[m], Dst[m]>>
  <2>1. InNetwork(m) /\ stage[m] \in {"receive", "absorb"}
    BY <1>5 DEF Absorb, InNetwork
  <2>2. PICK l \in Link : place[m] = InBuf(l)
    BY <2>1 DEF NetInv, StagesExact, IsIn
  <2>3. l[2] = Dst[m]
    <3>1. NodeOf(place[m]) = Dst[m]
      BY <2>1 DEF FlowInv, OnRoute
    <3>. QED
      BY <2>2, <3>1 DEF NodeOf, InBuf
  <2>4. Routed(route, m, InBuf(l))
    BY <1>5, <2>1, <2>2 DEF OnWays
  <2>5. queue[InBuf(l)] # <<>> /\ Head(queue[InBuf(l)]) = m
    <3>1. Listed(m, queue[place[m]]) /\ AtHead(m)
      BY <2>1 DEF NetInv, AllListed
    <3>2. queue[place[m]] # <<>>
      BY <3>1 DEF Listed
    <3>. QED
      BY <2>2, <3>1, <3>2 DEF AtHead
  <2>6. queue' = [queue EXCEPT ![InBuf(l)] = Tail(@)]
    BY <1>5, <2>2 DEF Absorb
  <2>7. Leaves(queue, queue', m, InBuf(l))
    BY <2>5, <2>6 DEF Leaves
  <2>8. /\ Contents(queue, route)[s] # <<>>
        /\ Contents(queue', route) = [Contents(queue, route) EXCEPT ![s] = Tail(@)]
    BY <1>1, <1>5, <2>3, <2>4, <2>7, ContentsAbsorb
  <2>9. s \in Pairs
    BY MinePair
  <2>. HIDE DEF s
  <2>10. Chan[s] # <<>> /\ Chan' = [Chan EXCEPT ![s] = Tail(@)]
    BY <1>0, <2>8, ChanIs
  <2>11. Transit!Get(s)
    BY <2>10 DEF Transit!Get
  <2>. QED
    BY <2>9, <2>11 DEF Transit!Next
<1>6. ASSUME NEW m \in Msg, CrossLink(m), ~ route.hasCycle  PROVE Chan' = Chan
  <2>1. PICK l \in Link : place[m] = OutBuf(l) /\ Move(m, OutBuf(l), InBuf(l))
    BY <1>6, MoveSteps
  <2>2. queue[OutBuf(l)] # <<>> /\ Head(queue[OutBuf(l)]) = m
    BY <1>6, <2>1, MoveSteps DEF AtHead
  <2>3. Passes(queue, queue', m, OutBuf(l), InBuf(l))
    BY <2>1, <2>2 DEF Passes, Move
  <2>4. Contents(queue', route) = Contents(queue, route)
    BY <1>1, <1>6, <2>3, ContentsCrossLink
  <2>. QED
    BY <1>0, <2>4, ChanIs
<1>7. ASSUME NEW m \in Msg, CrossSwitch(m), ~ route.hasCycle  PROVE Chan' = Chan
  <2>1. PICK l \in Link : /\ place[m] = InBuf(l) /\ l[2] # Dst[m]
                          /\ route.out[<<l[2], Dst[m]>>] # None
                          /\ Move(m, InBuf(l), route.out[<<l[2], Dst[m]>>])
    BY <1>7, MoveSteps
  <2>2. queue[InBuf(l)] # <<>> /\ Head(queue[InBuf(l)]) = m /\ InNetwork(m)
    BY <1>7, <2>1, MoveSteps DEF AtHead
  <2>3. Passes(queue, queue', m, InBuf(l), route.out[<<l[2], Dst[m]>>])
    BY <2>1, <2>2 DEF Passes, Move
  <2>4. Routed(route, m, InBuf(l))
    BY <1>7, <2>1, <2>2 DEF OnWays
  <2>5. Contents(queue', route) = Contents(queue, route)
    BY <1>1, <1>7, <2>1, <2>3, <2>4, ContentsCrossSwitch
  <2>. QED
    BY <1>0, <2>5, ChanIs
<1>8. ASSUME NEW m \in Msg, SendLater(m) \/ OutputStall(m) \/ InputStall(m) \/ Arrive(m)
                            \/ NotMyTurn(m) \/ Receive(m)
      PROVE  Chan' = Chan
  <2>1. queue' = queue
    BY <1>8 DEF SendLater, OutputStall, InputStall, Arrive, NotMyTurn, Receive
  <2>. QED
    BY <1>2, <2>1, <1>0, ChanIs
<1>9. CASE Tick \/ UNCHANGED vars
  <2>1. queue' = queue
    BY <1>9 DEF Tick, vars
  <2>. QED
    BY <1>0, <2>1, ChanIs
<1>. QED
  BY <1>3, <1>4, <1>5, <1>6, <1>7, <1>8, <1>9 DEF Next, Handle

LEMMA ChanInit ==
    ASSUME NetInv, Init
    PROVE  Transit!Init
<1>1. /\ route \in Tables
      /\ queue \in [Buffer -> Seq(Msg)] /\ \A b \in Buffer : queue[b] = <<>>
  BY DEF NetInv, NetTypeOK, Init
<1>2. ASSUME NEW p \in Pairs  PROVE Moving(queue, route, p) = <<>>
  BY <1>1, PairsAreNodes, MovingNothing
<1>3. Contents(queue, route) = [p \in Pairs |-> <<>>]
  BY <1>2 DEF Contents
<1>. QED
  BY <1>3, ChanIs DEF Transit!Init

\* Without a cycle of the routing table the buffers and switches between two end
\* nodes are one first in, first out channel, however many hops and buffers
\* there are and whatever the others send: net_receive takes the oldest message
\* that net_send put in, and none is overtaken, lost or duplicated.
THEOREM NetworkImplementsChannel == Spec => ImplementsChannel
<1>1. Init => NetInv /\ FlowInv /\ OnWays
  BY NetInit, FlowInit, OnWaysInit
<1>2. NetInv /\ FlowInv /\ OnWays /\ [Next]_vars => (NetInv /\ FlowInv /\ OnWays)'
  BY NetStep, FlowStep, OnWaysStep
<1>3. NetInv /\ Init => Transit!Init
  BY ChanInit
<1>4. NetInv /\ NetInv' /\ FlowInv /\ OnWays /\ [Next]_vars => [Transit!Next]_Chan
  BY ChanStep
<1>. QED
  BY <1>1, <1>2, <1>3, <1>4, PTL DEF Spec, ImplementsChannel, Transit!Spec
==============================================================================
