------------------------------- MODULE Network -------------------------------
(***************************************************************************)
(* The interconnection network: messages travel from the source node's     *)
(* output buffer, over links and through the switches' input and output    *)
(* buffers, to an input buffer of the destination, one event of            *)
(* net_event_handler per hop.                                              *)
(*                                                                         *)
(* A link is a pair of nodes; net_add_link gives it one output buffer at   *)
(* its source and one input buffer at its destination.  Times are kept     *)
(* relative to esim_cycle: a busy counter is 0 when the C field is in the  *)
(* past and n when it is free again n cycles from now; due is the number   *)
(* of cycles before a message's event runs.  The events of one cycle run   *)
(* in any order.  Of the wake-up list of a buffer only the members count,  *)
(* so a message records the list it is on.                                 *)
(***************************************************************************)
EXTENDS Naturals, Sequences, FiniteSets, SequencesExt, Lists

CONSTANTS Node,           \* the nodes, end nodes and switches
          EndNode,        \* the end nodes among them
          LinkList,       \* net->link_list: every link of the network, in order
          Msg,            \* the messages the clients of the network send
          Src, Dst, Size, \* end nodes and size of each message
          Automatic,      \* the messages sent by net_send, without a receive event
          Repeated,       \* the messages a client sends again after each delivery
          BufferSize,     \* capacity of each buffer
          Bandwidth,      \* bandwidth of each link and of each node: end nodes have none
          Tables,         \* the routing tables the network may be configured with
          None

Link == ToSet(LinkList)
OutBuf(l) == <<"out", l>>
InBuf(l) == <<"in", l>>
Buffer == {OutBuf(l) : l \in Link} \cup {InBuf(l) : l \in Link}

\* The node a buffer belongs to.
NodeOf(b) == IF b[1] = "out" THEN b[2][1] ELSE b[2][2]

\* node->input_buffer_list
InputBuffers(n) ==
    LET list[i \in 0..Len(LinkList)] ==
            IF i = 0 THEN <<>>
            ELSE IF LinkList[i][2] = n THEN Append(list[i-1], InBuf(LinkList[i]))
            ELSE list[i-1]
    IN  list[Len(LinkList)]

\* What is in output buffer b may need c next, on its way to some other node.
DependsOn(t, b, c) == \E d \in Node : /\ t.out[<<NodeOf(b), d>>] = b
                                      /\ b[2][2] # d /\ t.out[<<b[2][2], d>>] = c

\* No output buffer waits for itself: of any of them, one waits for none of
\* them.  This is what net_routing_table_cycle_detection finds out, except for
\* a route over a link from a switch to itself (see module Routing).
Acyclic(t) ==
    \A S \in SUBSET {OutBuf(l) : l \in Link} :
        S # {} => \E b \in S : \A c \in S : ~ DependsOn(t, b, c)

\* Every route goes to its destination, or to a switch that has a route to it.
WellRouted(t) ==
    \A n \in Node, d \in EndNode : t.out[<<n, d>>] # None =>
        LET next == t.out[<<n, d>>][2][2]
        IN  next # d => next \notin EndNode /\ t.out[<<next, d>>] # None

ASSUME NetworkAssumption ==
    /\ IsFiniteSet(Node) /\ EndNode \subseteq Node
    /\ LinkList \in Seq(Node \X Node)
    /\ \A l \in Link : ~ (l[1] \in EndNode /\ l[2] \in EndNode)
    /\ Src \in [Msg -> EndNode] /\ Dst \in [Msg -> EndNode]
    /\ \A m \in Msg : Src[m] # Dst[m]
    /\ Size \in [Msg -> Nat \ {0}]
    /\ Automatic \subseteq Msg /\ Repeated \subseteq Msg
    /\ BufferSize \in [Buffer -> Nat]
    /\ \A m \in Msg, b \in Buffer : Size[m] <= BufferSize[b]  \* err_net_large_message
    /\ Bandwidth \in [Node \cup Link -> Nat]
    /\ \A x \in Node \cup Link : Bandwidth[x] = 0 <=> x \in EndNode
    /\ Node \cap Link = {} /\ None \notin Buffer
    /\ \A t \in Tables : /\ t.out \in [Node \X Node -> Buffer \cup {None}]
                         /\ t.hasCycle \in BOOLEAN
                         /\ ~ t.hasCycle => Acyclic(t)
                         /\ \A p \in Node \X Node :
                                t.out[p] # None => t.out[p] \in {OutBuf(l) : l \in Link}
                                                   /\ NodeOf(t.out[p]) = p[1]

VARIABLES route,      \* the routing table, fixed by the configuration
          stage,      \* which event of the message is next
          place,      \* msg->buffer
          due,        \* cycles until that event
          waits,      \* the buffer on whose wakeup_list the event is
          queue,      \* buffer->msg_list
          count,      \* buffer->count
          readBusy, writeBusy, linkBusy, msgBusy,
          schedNow,   \* output_buffer->sched_when is the current cycle
          schedBuf    \* output_buffer->sched_buffer

vars == <<route, stage, place, due, waits, queue, count, readBusy, writeBusy,
          linkBusy, msgBusy, schedNow, schedBuf>>

busyVars == <<readBusy, writeBusy, linkBusy, msgBusy>>
schedVars == <<schedNow, schedBuf>>

Stages == {"unsent", "send", "out", "in", "receive", "absorb", "done"}

InNetwork(m) == stage[m] \in {"out", "in", "receive", "absorb"}
InFlight(m) == InNetwork(m) \/ stage[m] = "send"
Ready(m) == InFlight(m) /\ waits[m] = None /\ due[m] = 0

TypeOK ==
    /\ stage \in [Msg -> Stages]
    /\ place \in [Msg -> Buffer \cup {None}]
    /\ due \in [Msg -> Nat]
    /\ waits \in [Msg -> Buffer \cup {None}]
    /\ queue \in [Buffer -> Seq(Msg)]
    /\ count \in [Buffer -> Nat]
    /\ readBusy \in [Buffer -> Nat] /\ writeBusy \in [Buffer -> Nat]
    /\ linkBusy \in [Link -> Nat] /\ msgBusy \in [Msg -> Nat]
    /\ schedNow \in [Buffer -> BOOLEAN]
    /\ schedBuf \in [Buffer -> Buffer \cup {None}]

Init ==
    /\ route \in Tables
    /\ stage = [m \in Msg |-> "unsent"]
    /\ place = [m \in Msg |-> None]
    /\ due = [m \in Msg |-> 0]
    /\ waits = [m \in Msg |-> None]
    /\ queue = [b \in Buffer |-> <<>>]
    /\ count = [b \in Buffer |-> 0]
    /\ readBusy = [b \in Buffer |-> 0] /\ writeBusy = [b \in Buffer |-> 0]
    /\ linkBusy = [l \in Link |-> 0] /\ msgBusy = [m \in Msg |-> 0]
    /\ schedNow = [b \in Buffer |-> FALSE]
    /\ schedBuf = [b \in Buffer |-> None]

-----------------------------------------------------------------------------
(* Buffers *)

\* Bug: there is room whatever the size of the message.
FitsAnySize(b, m) == count[b] < BufferSize[b]

Fits(b, m) == count[b] + Size[m] <= BufferSize[b]
AtHead(m) == Head(queue[place[m]]) = m

\* net_buffer_wait: the event goes on the buffer's wake-up list.
Wait(m, b) ==
    /\ waits' = [waits EXCEPT ![m] = b]
    /\ UNCHANGED due

\* esim_schedule_event of the same event, n cycles later.
Retry(m, n) ==
    /\ due' = [due EXCEPT ![m] = n]
    /\ UNCHANGED waits

\* Bug: only the messages that are in the buffer itself run again.
WokenInside(b) == [x \in Msg |-> IF waits[x] = b /\ place[x] = b THEN None ELSE waits[x]]

\* net_buffer_wakeup: the messages on b's wake-up list run again this cycle.
Woken(b) == [x \in Msg |-> IF waits[x] = b THEN None ELSE waits[x]]

\* Bug: the insertion does not count the bytes of the message.
MoveUncounted(m, src, dst) ==
    /\ queue' = [queue EXCEPT ![src] = Tail(@), ![dst] = Append(@, m)]
    /\ count' = [count EXCEPT ![src] = @ - Size[m]]
    /\ place' = [place EXCEPT ![m] = dst]
    /\ waits' = Woken(src)

\* net_buffer_extract of m from src, and net_buffer_insert into dst.
Move(m, src, dst) ==
    /\ queue' = [queue EXCEPT ![src] = Tail(@), ![dst] = Append(@, m)]
    /\ count' = [count EXCEPT ![src] = @ - Size[m], ![dst] = @ + Size[m]]
    /\ place' = [place EXCEPT ![m] = dst]
    /\ waits' = Woken(src)

Latency(m, bandwidth) == ((Size[m] - 1) \div bandwidth) + 1

\* Bug: the message's next event runs one cycle early.
OccupyEarly(m, src, dst, lat) ==
    /\ readBusy' = [readBusy EXCEPT ![src] = lat]
    /\ writeBusy' = [writeBusy EXCEPT ![dst] = lat]
    /\ msgBusy' = [msgBusy EXCEPT ![m] = lat]
    /\ due' = [due EXCEPT ![m] = lat - 1]

\* Both buffers and the message are occupied for lat cycles.
Occupy(m, src, dst, lat) ==
    /\ readBusy' = [readBusy EXCEPT ![src] = lat]
    /\ writeBusy' = [writeBusy EXCEPT ![dst] = lat]
    /\ msgBusy' = [msgBusy EXCEPT ![m] = lat]
    /\ due' = [due EXCEPT ![m] = lat]

-----------------------------------------------------------------------------
(* net_try_send_ev: net_can_send_ev, then EV_NET_SEND in the same call.  The *)
(* client calls it when it has a message and again at each retry event.      *)
(* The program ends when there is no route.                                  *)

CanTry(m) == stage[m] = "unsent" \/ (stage[m] = "send" /\ Ready(m))
FirstBuffer(m) == route.out[<<Src[m], Dst[m]>>]

SendLater(m) ==
    LET b == FirstBuffer(m) IN
    /\ CanTry(m) /\ b # None
    /\ \/ writeBusy[b] > 0 /\ Retry(m, writeBusy[b])
       \/ writeBusy[b] = 0 /\ ~ Fits(b, m) /\ Wait(m, b)
    /\ stage' = [stage EXCEPT ![m] = "send"]
    /\ UNCHANGED <<route, place, queue, count, busyVars, schedVars>>

\* Bug: a new message is the first of its list.
SendToFront(m) ==
    LET b == FirstBuffer(m) IN
    /\ CanTry(m) /\ b # None /\ writeBusy[b] = 0 /\ Fits(b, m)
    /\ queue' = [queue EXCEPT ![b] = <<m>> \o @]
    /\ count' = [count EXCEPT ![b] = @ + Size[m]]
    /\ place' = [place EXCEPT ![m] = b]
    /\ stage' = [stage EXCEPT ![m] = "out"]
    /\ writeBusy' = [writeBusy EXCEPT ![b] = 1]
    /\ msgBusy' = [msgBusy EXCEPT ![m] = 1]
    /\ due' = [due EXCEPT ![m] = 1]
    /\ UNCHANGED <<route, waits, readBusy, linkBusy, schedVars>>

Send(m) ==
    LET b == FirstBuffer(m) IN
    /\ CanTry(m) /\ b # None /\ writeBusy[b] = 0 /\ Fits(b, m)
    /\ queue' = [queue EXCEPT ![b] = Append(@, m)]
    /\ count' = [count EXCEPT ![b] = @ + Size[m]]
    /\ place' = [place EXCEPT ![m] = b]
    /\ stage' = [stage EXCEPT ![m] = "out"]
    /\ writeBusy' = [writeBusy EXCEPT ![b] = 1]
    /\ msgBusy' = [msgBusy EXCEPT ![m] = 1]
    /\ due' = [due EXCEPT ![m] = 1]
    /\ UNCHANGED <<route, waits, readBusy, linkBusy, schedVars>>

-----------------------------------------------------------------------------
(* EV_NET_OUTPUT_BUFFER *)

\* The message cannot cross the link yet: it is not at the head, the buffer,
\* the link or the next buffer is busy, or the next buffer is full.
OutputStall(m) ==
    LET b == place[m]
        l == b[2]
        next == InBuf(l)
    IN
    /\ stage[m] = "out" /\ Ready(m)
    /\ \/ ~ AtHead(m) /\ Wait(m, b)
       \/ /\ AtHead(m)
          /\ \/ readBusy[b] > 0 /\ Retry(m, readBusy[b])
             \/ readBusy[b] = 0 /\ linkBusy[l] > 0 /\ Retry(m, linkBusy[l])
             \/ /\ readBusy[b] = 0 /\ linkBusy[l] = 0
                /\ \/ writeBusy[next] > 0 /\ Retry(m, writeBusy[next])
                   \/ writeBusy[next] = 0 /\ ~ Fits(next, m) /\ Wait(m, next)
    /\ UNCHANGED <<route, stage, place, queue, count, busyVars, schedVars>>

CrossLink(m) ==
    LET b == place[m]
        l == b[2]
        next == InBuf(l)
        lat == Latency(m, Bandwidth[l])
    IN
    /\ stage[m] = "out" /\ Ready(m) /\ AtHead(m)
    /\ readBusy[b] = 0 /\ linkBusy[l] = 0 /\ writeBusy[next] = 0 /\ Fits(next, m)
    /\ Move(m, b, next)
    /\ Occupy(m, b, next, lat)
    /\ linkBusy' = [linkBusy EXCEPT ![l] = lat]
    /\ stage' = [stage EXCEPT ![m] = "in"]
    /\ UNCHANGED <<route, schedVars>>

-----------------------------------------------------------------------------
(* EV_NET_INPUT_BUFFER *)

\* An input buffer whose head may leave it, and where that head goes next.
HeadReady(b) == queue[b] # <<>> /\ readBusy[b] = 0 /\ msgBusy[Head(queue[b])] = 0
HeadRoute(b) == route.out[<<NodeOf(b), Dst[Head(queue[b])]>>]

\* A candidate of net_node_schedule for output buffer out.
Candidate(b, out) ==
    HeadReady(b) /\ HeadRoute(b) = out /\ Fits(out, Head(queue[b]))

\* Bug: the choice always begins with the first input buffer.
ScheduleFirst(out) ==
    LET into == InputBuffers(NodeOf(out))
        ready == {i \in DOMAIN into : Candidate(into[i], out)}
    IN  IF schedNow[out] THEN schedBuf[out]
        ELSE IF ready = {} THEN None
        ELSE into[CHOOSE i \in ready : \A j \in ready : i <= j]

\* net_node_schedule: once per cycle, the first candidate after the last choice.
Schedule(out) ==
    LET into == InputBuffers(NodeOf(out))
        n == Len(into)
        last == IF schedBuf[out] = None THEN 1
                ELSE CHOOSE i \in 1..n : into[i] = schedBuf[out]
        turn(i) == into[((last + i - 1) % n) + 1]
        ready == {i \in 1..n : Candidate(turn(i), out)}
    IN  IF schedNow[out] THEN schedBuf[out]
        ELSE IF ready = {} THEN None
        ELSE turn(CHOOSE i \in ready : \A j \in ready : i <= j)

NextBuffer(m) == route.out[<<NodeOf(place[m]), Dst[m]>>]

\* The message has arrived, or it stalls before the scheduler is asked.
InputStall(m) ==
    LET b == place[m]
        out == NextBuffer(m)
    IN
    /\ stage[m] = "in" /\ Ready(m)
    /\ \/ ~ AtHead(m) /\ Wait(m, b)
       \/ /\ AtHead(m) /\ NodeOf(b) # Dst[m] /\ out # None
          /\ \/ readBusy[b] > 0 /\ Retry(m, readBusy[b])
             \/ readBusy[b] = 0 /\ writeBusy[out] > 0 /\ Retry(m, writeBusy[out])
             \/ /\ readBusy[b] = 0 /\ writeBusy[out] = 0
                /\ ~ Fits(out, m) /\ Wait(m, out)
    /\ UNCHANGED <<route, stage, place, queue, count, busyVars, schedVars>>

Arrive(m) ==
    /\ stage[m] = "in" /\ Ready(m) /\ AtHead(m) /\ NodeOf(place[m]) = Dst[m]
    /\ stage' = [stage EXCEPT ![m] = "receive"]
    /\ UNCHANGED <<route, place, due, waits, queue, count, busyVars, schedVars>>

\* net_node_schedule asserts that the heads it looks at have a route.  It looks
\* no further than its choice; here any ready head without a route ends the
\* program.  At a switch the event of that head does so in the same cycle.
HeadsRouted(out) ==
    \A b \in ToSet(InputBuffers(NodeOf(out))) : HeadReady(b) => HeadRoute(b) # None

MayCross(m) ==
    LET b == place[m]
        out == NextBuffer(m)
    IN
    /\ stage[m] = "in" /\ Ready(m) /\ AtHead(m) /\ NodeOf(b) # Dst[m] /\ out # None
    /\ readBusy[b] = 0 /\ writeBusy[out] = 0 /\ Fits(out, m)
    /\ schedNow[out] \/ HeadsRouted(out)
    /\ schedNow' = [schedNow EXCEPT ![out] = TRUE]
    /\ schedBuf' = [schedBuf EXCEPT ![out] = Schedule(out)]
    /\ UNCHANGED route

NotMyTurn(m) ==
    /\ MayCross(m)
    /\ Schedule(NextBuffer(m)) # place[m]
    /\ Retry(m, 1)
    /\ UNCHANGED <<stage, place, queue, count, busyVars>>

\* The assertions on the kind and the bandwidth of the node end the program.
CrossSwitch(m) ==
    LET b == place[m]
        out == NextBuffer(m)
    IN
    /\ MayCross(m)
    /\ Schedule(out) = b
    /\ NodeOf(b) \notin EndNode /\ Bandwidth[NodeOf(b)] > 0
    /\ Move(m, b, out)
    /\ Occupy(m, b, out, Latency(m, Bandwidth[NodeOf(b)]))
    /\ stage' = [stage EXCEPT ![m] = "out"]
    /\ UNCHANGED linkBusy

-----------------------------------------------------------------------------
(* EV_NET_RECEIVE and net_receive *)

\* EV_NET_RECEIVE of a message with a receive event: the client is told.
Receive(m) ==
    /\ stage[m] = "receive" /\ Ready(m) /\ m \notin Automatic
    /\ stage' = [stage EXCEPT ![m] = "absorb"]
    /\ UNCHANGED <<route, place, due, waits, queue, count, busyVars, schedVars>>

\* net_receive, called by the client's handler or, after net_send, at once.
Absorb(m) ==
    LET b == place[m] IN
    /\ stage[m] = (IF m \in Automatic THEN "receive" ELSE "absorb") /\ Ready(m)
    /\ queue' = [queue EXCEPT ![b] = Tail(@)]
    /\ count' = [count EXCEPT ![b] = @ - Size[m]]
    /\ waits' = Woken(b)
    /\ place' = [place EXCEPT ![m] = None]
    /\ stage' = [stage EXCEPT ![m] = IF m \in Repeated THEN "unsent" ELSE "done"]
    /\ UNCHANGED <<route, due, busyVars, schedVars>>

-----------------------------------------------------------------------------
\* esim_process_events: the next cycle begins when no event is left in this one.
Dec(f) == [x \in DOMAIN f |-> IF f[x] > 0 THEN f[x] - 1 ELSE 0]

Tick ==
    /\ ~ \E m \in Msg : Ready(m)
    /\ \/ \E m \in Msg : InFlight(m) /\ waits[m] = None
       \/ \E f \in {readBusy, writeBusy, linkBusy} : \E x \in DOMAIN f : f[x] > 0
    /\ due' = [m \in Msg |-> IF waits[m] = None /\ due[m] > 0 THEN due[m] - 1 ELSE due[m]]
    /\ readBusy' = Dec(readBusy) /\ writeBusy' = Dec(writeBusy)
    /\ linkBusy' = Dec(linkBusy) /\ msgBusy' = Dec(msgBusy)
    /\ schedNow' = [b \in Buffer |-> FALSE]
    /\ UNCHANGED <<route, stage, place, waits, queue, count, schedBuf>>

Handle(m) ==
    \/ OutputStall(m) \/ CrossLink(m)
    \/ InputStall(m) \/ Arrive(m) \/ NotMyTurn(m) \/ CrossSwitch(m)
    \/ Receive(m) \/ Absorb(m)
    \/ stage[m] = "send" /\ (SendLater(m) \/ Send(m))

Next ==
    \/ \E m \in Msg : SendLater(m) \/ Send(m)
    \/ \E m \in Msg : Handle(m)
    \/ Tick

\* esim_process_events: the simulation loop handles every event of a cycle and
\* goes on to the next one.  A client need not send.
Fairness == []<>(\A m \in Msg : ~ Ready(m)) /\ WF_vars(Tick)

Spec == Init /\ [][Next]_vars /\ Fairness

-----------------------------------------------------------------------------
(* Properties *)

\* The sum of the sizes of the messages on a list.
Occupancy(s) ==
    LET sum[i \in 0..Len(s)] == IF i = 0 THEN 0 ELSE sum[i-1] + Size[s[i]]
    IN  sum[Len(s)]

\* A message is in one place only: on the list of its own buffer, once, from
\* net_send to net_receive, and on no other list; and the occupancy a buffer
\* counts is that of the messages on its list, within its capacity.
BuffersExact ==
    \A b \in Buffer :
        /\ \A m \in Msg : Cardinality({i \in 1..Len(queue[b]) : queue[b][i] = m})
                          = (IF InNetwork(m) /\ place[m] = b THEN 1 ELSE 0)
        /\ count[b] = Occupancy(queue[b])
        /\ count[b] <= BufferSize[b]

\* What net_event_handler and net_node_schedule assert of a node where messages
\* change buffers: it is a switch, with a bandwidth of its own, and what is in
\* its input buffers has a route.
SwitchesForward ==
    \A m \in Msg : stage[m] = "in" /\ NodeOf(place[m]) # Dst[m] =>
        /\ NodeOf(place[m]) \notin EndNode /\ Bandwidth[NodeOf(place[m])] > 0
        /\ NextBuffer(m) # None

\* What the handlers, net_node_schedule and net_receive assert: a message moves
\* only when its last transfer is over, it changes buffers at switches only, it
\* is absorbed from the head of a buffer of its destination, and an event waits
\* only on a buffer that holds something.
AssertionsHold ==
    /\ SwitchesForward
    /\ \A m \in Msg :
        /\ Ready(m) /\ InNetwork(m) => msgBusy[m] = 0
        /\ stage[m] \in {"receive", "absorb"} => NodeOf(place[m]) = Dst[m] /\ AtHead(m)
        /\ waits[m] # None => count[waits[m]] > 0

\* Nobody sleeps beside a way that is free: an event waits on its own buffer
\* only behind another message, and on the next buffer only while that buffer
\* is too full for it.  net_buffer_extract wakes everybody who may go on.
NoLostWakeup ==
    \A m \in Msg : waits[m] # None =>
        \/ stage[m] \in {"out", "in"} /\ waits[m] = place[m] /\ ~ AtHead(m)
        \/ waits[m] # place[m] /\ ~ Fits(waits[m], m)

\* All that is in flight waits for something else that waits.
Stuck == /\ \E m \in Msg : InFlight(m)
         /\ \A m \in Msg : InFlight(m) => waits[m] # None

\* err_net_cycle: the network stalls only if its routing table has a cycle.
StuckOnlyOnCycles == Stuck => route.hasCycle

\* Without a cycle each message that enters the network is delivered, whatever
\* the others send: the switches serve their input buffers in turn.
Delivery ==
    \A m \in Msg : (InNetwork(m) /\ ~ route.hasCycle) ~> ~ InNetwork(m)

-----------------------------------------------------------------------------
(* The abstract specification *)

Pairs == {<<Src[m], Dst[m]>> : m \in Msg}

\* What is on its way between two end nodes, nearest to the destination first:
\* their messages in the buffers along the route.
InTransit(p) ==
    LET mine == {m \in Msg : <<Src[m], Dst[m]>> = p}
        here(b) == Among(queue[b], mine)
        from[h \in 0..Cardinality(Node)] ==
            [n \in Node |->
                LET b == route.out[<<n, p[2]>>]
                IN  IF h = 0 \/ n = p[2] \/ b = None THEN <<>>
                    ELSE (from[h-1][b[2][2]] \o here(InBuf(b[2]))) \o here(b)]
    IN  from[Cardinality(Node)][p[1]]

Chan == [p \in Pairs |-> IF route.hasCycle THEN <<>> ELSE InTransit(p)]

Transit == INSTANCE Channel WITH
    Pair <- Pairs, Message <- Msg,
    chan <- Chan

\* Without a cycle the buffers and switches between two end nodes are one first
\* in, first out channel: net_receive takes the oldest message, and no message
\* is overtaken, lost or duplicated on its way.
ImplementsChannel == Transit!Spec
=============================================================================
