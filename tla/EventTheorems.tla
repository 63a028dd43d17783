--------------------------- MODULE EventTheorems ---------------------------
(***************************************************************************)
(* Proofs about the way of the events, for any streams, connections and    *)
(* capacities.                                                             *)
(***************************************************************************)
EXTENDS EventProperties, SequenceTheorems, TLAPS

(***************************************************************************)
(* Secrecy.  What may be on a channel of each side is kept so by every     *)
(* step; a connection takes only from the channel of its side because it   *)
(* is only ever registered with it.                                        *)
(***************************************************************************)
ForLight == {e \in Payload : TopicOf[e.stream] # "game.ring.detection"}

ForDark ==
    {e \in Payload : /\ TopicOf[e.stream] # "game.ring.position"
                     /\ TopicOf[e.stream] = "game.broadcast" /\ e.readable => ~e.shows}

ForSide(side) == IF side = "SHADOW" THEN ForDark ELSE ForLight

SecretInv ==
    /\ published \in 0..MaxEvents /\ rebalances \in 0..MaxRebalances
    /\ log \in [Streams -> Seq(Event)]
    /\ DOMAIN position = Streams /\ DOMAIN committed = Streams
    /\ \A s \in Streams : position[s] \in 0..Len(log[s]) /\ committed[s] \in 0..Len(log[s])
    /\ lightSideSSECh \in Seq(ForLight) /\ darkSideSSECh \in Seq(ForDark)
    /\ newConnCh \in Seq(Connections)
    /\ \A c \in Connections :
         /\ Registered(lightClients, c) => Side[c] = "FREE_PEOPLES"
         /\ Registered(darkClients, c) => Side[c] = "SHADOW"
    /\ DOMAIN lightClients = PlayerIDs /\ DOMAIN darkClients = PlayerIDs
    /\ DOMAIN Ch = Connections
    /\ \A c \in Connections : Ch[c] \in Seq(ForSide(Side[c]))

LEMMA SendKeeps ==
  ASSUME NEW S, NEW ch \in Seq(S), NEW e \in S, NEW cap
  PROVE  Send(ch, e, cap) \in Seq(S)
  BY AppendProperties DEF Send

LEMMA PublishSecret ==
  ASSUME SecretInv, NEW s \in Streams, NEW shows \in Shows(TopicOf[s]), Publish(s, shows)
  PROVE  SecretInv'
<1>1. published' \in 0..MaxEvents /\ published + 1 \in 1..MaxEvents
  BY RoutingAssumption DEF Publish, SecretInv
<1>2. shows \in BOOLEAN
  BY DEF Shows
<1> DEFINE e == [stream |-> s, id |-> published + 1, shows |-> shows]
<1>3. e \in Event
  BY <1>1, <1>2 DEF Event
<1>4. Append(log[s], e) \in Seq(Event) /\ Len(Append(log[s], e)) = Len(log[s]) + 1
  BY <1>3, AppendProperties DEF SecretInv
<1>5. log' \in [Streams -> Seq(Event)]
      /\ \A t \in Streams : log'[t] = IF t = s THEN Append(log[s], e) ELSE log[t]
  BY <1>4 DEF Publish, SecretInv
<1>6. ASSUME NEW t \in Streams
      PROVE  position'[t] \in 0..Len(log'[t]) /\ committed'[t] \in 0..Len(log'[t])
  <2>1. Len(log[t]) \in Nat /\ Len(log'[t]) \in {Len(log[t]), Len(log[t]) + 1}
    BY <1>4, <1>5, LenProperties DEF SecretInv
  <2>2. position'[t] = position[t] /\ committed'[t] = committed[t]
    BY DEF Publish, consumer
  <2> QED
    BY <2>1, <2>2 DEF SecretInv
<1> QED
  BY <1>1, <1>5, <1>6 DEF Publish, SecretInv, consumer, sides, registry, Registered

\* What is polled of the stream s next, and what both channels may then have got.
Polled(s, readable) ==
    [stream |-> s, id |-> log[s][position[s] + 1].id, shows |-> log[s][position[s] + 1].shows,
     readable |-> readable, era |-> rebalances]

LEMMA PollSteps ==
  ASSUME SecretInv, NEW s \in Streams, Poll(s)
  PROVE  /\ position[s] + 1 \in 1..Len(log[s]) /\ log[s][position[s] + 1] \in Event
         /\ \A t \in Streams : position'[t] = IF t = s THEN position[s] + 1 ELSE position[t]
         /\ DOMAIN position' = Streams /\ DOMAIN committed' = Streams
         /\ \A t \in Streams : committed'[t] \in {committed[t], position'[t]}
         /\ \E readable \in BOOLEAN : RouteEvent(Polled(s, readable))
         /\ \A readable \in BOOLEAN : Polled(s, readable) \in Payload
<1>1. /\ position[s] < Len(log[s]) /\ position' = [position EXCEPT ![s] = position[s] + 1]
      /\ committed' = committed \/ committed' = [committed EXCEPT ![s] = position[s] + 1]
      /\ \E readable \in BOOLEAN : RouteEvent(Polled(s, readable))
  BY DEF Poll, Polled
<1>2. log[s] \in Seq(Event) /\ position[s] \in 0..Len(log[s]) /\ Len(log[s]) \in Nat
      /\ DOMAIN position = Streams /\ DOMAIN committed = Streams
  BY LenProperties DEF SecretInv
<1>3. position[s] + 1 \in 1..Len(log[s])
  BY <1>1, <1>2
<1>4. log[s][position[s] + 1] \in Event
  BY <1>2, <1>3, ElementOfSeq
<1>5. \A readable \in BOOLEAN : Polled(s, readable) \in Payload
  BY <1>4 DEF Polled, Payload, Event, SecretInv
<1> QED
  BY <1>1, <1>2, <1>3, <1>4, <1>5

LEMMA PollSecret ==
  ASSUME SecretInv, NEW s \in Streams, Poll(s)
  PROVE  SecretInv'
<1>1. PICK readable \in BOOLEAN : RouteEvent(Polled(s, readable))
  BY PollSteps
<1> DEFINE e == Polled(s, readable)
<1>2. e \in Payload
  BY PollSteps
<1>3. /\ e.stream \in Streams /\ Strip(e) \in Payload /\ Strip(e).stream = e.stream
      /\ Strip(e).readable => ~Strip(e).shows
  BY <1>2 DEF Payload, Strip
<1>4. lightSideSSECh' \in Seq(ForLight) /\ darkSideSSECh' \in Seq(ForDark)
  <2> HIDE DEF e
  <2>0. RouteEvent(e)
    BY <1>1 DEF e
  <2>1. CASE TopicOf[e.stream] = "game.ring.position"
    <3>1. e \in ForLight
      BY <1>2, <2>1 DEF ForLight
    <3> QED
      BY <2>0, <2>1, <3>1, SendKeeps DEF RouteEvent, BothSides, SecretInv
  <2>2. CASE TopicOf[e.stream] = "game.ring.detection"
    <3>1. e \in ForDark
      BY <1>2, <2>2 DEF ForDark
    <3> QED
      BY <2>0, <2>2, <3>1, SendKeeps DEF RouteEvent, BothSides, SecretInv
  <2>3. CASE TopicOf[e.stream] = "game.broadcast"
    <3>1. e \in ForLight /\ Strip(e) \in ForDark
      BY <1>2, <1>3, <2>3 DEF ForLight, ForDark
    <3> QED
      BY <2>0, <2>3, <3>1, SendKeeps DEF RouteEvent, BothSides, SecretInv
  <2>4. CASE TopicOf[e.stream] \in BothSides
    <3>1. e \in ForLight /\ e \in ForDark
      BY <1>2, <2>4 DEF ForLight, ForDark, BothSides
    <3> QED
      BY <2>0, <2>4, <3>1, SendKeeps DEF RouteEvent, BothSides, SecretInv
  <2> QED
    BY <2>0, <2>1, <2>2, <2>3, <2>4 DEF RouteEvent
<1>5. UNCHANGED <<published, log, rebalances, registry, Ch>>
  BY DEF Poll
<1>6. ASSUME NEW t \in Streams
      PROVE  position'[t] \in 0..Len(log'[t]) /\ committed'[t] \in 0..Len(log'[t])
  <2>1. position[t] \in 0..Len(log[t]) /\ Len(log[t]) \in Nat
    BY LenProperties DEF SecretInv
  <2>2. /\ position[s] + 1 \in 1..Len(log[s])
        /\ position'[t] = IF t = s THEN position[s] + 1 ELSE position[t]
    BY PollSteps
  <2>3. position'[t] \in 0..Len(log[t])
    BY <2>1, <2>2
  <2> QED
    BY <1>5, <2>3, PollSteps DEF SecretInv
<1> QED
  BY <1>4, <1>5, <1>6, PollSteps DEF SecretInv, registry, Registered

LEMMA RebalanceSecret ==
  ASSUME SecretInv, Rebalance
  PROVE  SecretInv'
<1>1. rebalances' \in 0..MaxRebalances
  BY RoutingAssumption DEF Rebalance, SecretInv
<1>2. ASSUME NEW t \in Streams
      PROVE  position'[t] \in 0..Len(log[t])
  BY LenProperties DEF Rebalance, SecretInv
<1> QED
  BY <1>1, <1>2 DEF Rebalance, SecretInv, sides, registry, Registered

\* One event given to the clients registered with a side.
LEMMA DeliverSecret ==
  ASSUME SecretInv, NEW side, NEW clients, NEW e \in ForSide(side),
         \A c \in Connections : Registered(clients, c) => Side[c] = side,
         Deliver(clients, e)
  PROVE  DOMAIN Ch' = Connections /\ \A c \in Connections : Ch'[c] \in Seq(ForSide(Side[c]))
<1> SUFFICES ASSUME NEW c \in Connections PROVE Ch'[c] \in Seq(ForSide(Side[c]))
  BY DEF Deliver
<1>1. CASE Registered(clients, c)
  <2>1. Ch'[c] = Send(Ch[c], e, ClientCap)
    BY <1>1 DEF Deliver
  <2> QED
    BY <1>1, <2>1, SendKeeps DEF SecretInv
<1>2. CASE ~Registered(clients, c)
  BY <1>2 DEF Deliver, SecretInv
<1> QED
  BY <1>1, <1>2

LEMMA RunSecret ==
  ASSUME SecretInv, Register \/ Unregister \/ LightEvent \/ DarkEvent
  PROVE  SecretInv'
<1>1. CASE Register
  <2> DEFINE c == Head(newConnCh)
  <2>1. c \in Connections /\ newConnCh' \in Seq(Connections)
    BY <1>1, HeadTailProperties DEF Register, SecretInv
  <2>2. PlayerID[c] \in PlayerIDs
    BY <2>1 DEF PlayerIDs
  <2>3. \A d \in Connections :
          /\ Registered(lightClients', d) => Side[d] = "FREE_PEOPLES"
          /\ Registered(darkClients', d) => Side[d] = "SHADOW"
    <3> SUFFICES ASSUME NEW d \in Connections
                 PROVE  /\ Registered(lightClients', d) => Side[d] = "FREE_PEOPLES"
                        /\ Registered(darkClients', d) => Side[d] = "SHADOW"
      OBVIOUS
    <3>1. PlayerID[d] \in PlayerIDs
      BY DEF PlayerIDs
    <3>2. CASE d = c
      BY <1>1, <2>2, <3>2 DEF Register, SecretInv, Registered
    <3>3. CASE d # c
      <4>1. /\ Registered(lightClients', d) => Registered(lightClients, d)
            /\ Registered(darkClients', d) => Registered(darkClients, d)
        BY <1>1, <2>1, <2>2, <3>1, <3>3 DEF Register, SecretInv, Registered
      <4> QED
        BY <4>1 DEF SecretInv
    <3> QED
      BY <3>2, <3>3
  <2>4. DOMAIN lightClients' = PlayerIDs /\ DOMAIN darkClients' = PlayerIDs
    BY <1>1 DEF Register, SecretInv
  <2> QED
    BY <1>1, <2>1, <2>3, <2>4 DEF Register, SecretInv, consumer, sides, Registered
<1>2. CASE Unregister
  <2>1. \A d \in Connections :
          /\ Registered(lightClients', d) => Registered(lightClients, d)
          /\ Registered(darkClients', d) => Registered(darkClients, d)
    <3> SUFFICES ASSUME NEW d \in Connections
                 PROVE  /\ Registered(lightClients', d) => Registered(lightClients, d)
                        /\ Registered(darkClients', d) => Registered(darkClients, d)
      OBVIOUS
    <3>1. PlayerID[d] \in PlayerIDs /\ d # NoClient
      BY RoutingAssumption DEF PlayerIDs
    <3> QED
      BY <1>2, <3>1 DEF Unregister, SecretInv, Registered
  <2>2. DOMAIN lightClients' = PlayerIDs /\ DOMAIN darkClients' = PlayerIDs
    BY <1>2 DEF Unregister, SecretInv
  <2> QED
    BY <1>2, <2>1, <2>2 DEF Unregister, SecretInv, consumer, sides, Registered
<1>3. CASE LightEvent
  <2>1. Head(lightSideSSECh) \in ForSide("FREE_PEOPLES") /\ lightSideSSECh' \in Seq(ForLight)
    BY <1>3, HeadTailProperties DEF LightEvent, SecretInv, ForSide
  <2>2. DOMAIN Ch' = Connections /\ \A c \in Connections : Ch'[c] \in Seq(ForSide(Side[c]))
    BY <1>3, <2>1, DeliverSecret DEF LightEvent, SecretInv
  <2> QED
    BY <1>3, <2>1, <2>2 DEF LightEvent, SecretInv, consumer, registry, Registered
<1>4. CASE DarkEvent
  <2>1. Head(darkSideSSECh) \in ForSide("SHADOW") /\ darkSideSSECh' \in Seq(ForDark)
    BY <1>4, HeadTailProperties DEF DarkEvent, SecretInv, ForSide
  <2>2. DOMAIN Ch' = Connections /\ \A c \in Connections : Ch'[c] \in Seq(ForSide(Side[c]))
    BY <1>4, <2>1, DeliverSecret DEF DarkEvent, SecretInv
  <2> QED
    BY <1>4, <2>1, <2>2 DEF DarkEvent, SecretInv, consumer, registry, Registered
<1> QED
  BY <1>1, <1>2, <1>3, <1>4

LEMMA ConnectionSecret ==
  ASSUME SecretInv, NEW c \in Connections, Connect(c) \/ Write(c) \/ Disconnect(c)
  PROVE  SecretInv'
<1>1. CASE Connect(c)
  <2>1. newConnCh' \in Seq(Connections)
    BY <1>1, AppendProperties DEF Connect, SecretInv
  <2> QED
    BY <1>1, <2>1 DEF Connect, SecretInv, consumer, sides, Registered
<1>2. CASE Write(c)
  <2>1. Tail(Ch[c]) \in Seq(ForSide(Side[c]))
    BY <1>2, HeadTailProperties DEF Write, SecretInv
  <2>2. DOMAIN Ch' = Connections /\ \A d \in Connections : Ch'[d] \in Seq(ForSide(Side[d]))
    BY <1>2, <2>1 DEF Write, SecretInv
  <2> QED
    BY <1>2, <2>2 DEF Write, SecretInv, consumer, sides, registry, Registered
<1>3. CASE Disconnect(c)
  BY <1>3 DEF Disconnect, SecretInv, consumer, sides, Registered
<1> QED
  BY <1>1, <1>2, <1>3

LEMMA SecretInit == Init => SecretInv
<1> SUFFICES ASSUME Init PROVE SecretInv
  OBVIOUS
<1>1. \A c \in Connections : ~Registered(lightClients, c) /\ ~Registered(darkClients, c)
  BY RoutingAssumption DEF Init, NoClients, Registered, PlayerIDs
<1> QED
  BY <1>1, EmptySeq, RoutingAssumption DEF Init, NoClients, SecretInv

LEMMA SecretNext == SecretInv /\ [Next]_vars => SecretInv'
<1> SUFFICES ASSUME SecretInv, [Next]_vars PROVE SecretInv'
  OBVIOUS
<1>1. CASE UNCHANGED vars
  BY <1>1 DEF vars, consumer, sides, registry, SecretInv, Registered
<1> QED
  BY <1>1, PublishSecret, PollSecret, RebalanceSecret, RunSecret, ConnectionSecret DEF Next

(***************************************************************************)
(* Behind RouteEvent and Run no browser of the Dark Side gets an event of  *)
(* game.ring.position or a parsed snapshot that shows the Ring Bearer, and *)
(* none of the Light Side one of game.ring.detection, for any number of    *)
(* connections under any identifiers and however often the consumer's      *)
(* group is rebalanced.                                                    *)
(***************************************************************************)
THEOREM SidesAreKeptApart == Spec => []EachSideItsOwn
<1>1. SecretInv => EachSideItsOwn
  <2> SUFFICES ASSUME SecretInv, NEW c \in Connections, NEW i \in DOMAIN Ch[c]
               PROVE  LET e == Ch[c][i] IN
                      IF Side[c] = "SHADOW"
                      THEN /\ TopicOf[e.stream] # "game.ring.position"
                           /\ TopicOf[e.stream] = "game.broadcast" /\ e.readable => ~e.shows
                      ELSE TopicOf[e.stream] # "game.ring.detection"
    BY DEF EachSideItsOwn, InCh
  <2>1. Ch[c][i] \in ForSide(Side[c])
    BY ElementOfSeq DEF SecretInv
  <2> QED
    BY <2>1 DEF ForSide, ForDark, ForLight
<1> QED
  BY <1>1, SecretInit, SecretNext, PTL DEF Spec

----------------------------------------------------------------------------
(***************************************************************************)
(* Order.  An event goes from the log through the channel of a side and    *)
(* the channel of a client to the browser.  The invariant says that along  *)
(* that way the events of a stream come later the further they are from    *)
(* the browser, and that all of them are behind what is yet to be polled:  *)
(* of an earlier era, or earlier in the log than the consumer's position.  *)
(***************************************************************************)
\* the event e is later than all of its stream in q, or earlier than all
Below(q, e) == \A i \in DOMAIN q : q[i].stream = e.stream => Earlier(q[i], e)
Above(q, e) == \A i \in DOMAIN q : q[i].stream = e.stream => Earlier(e, q[i])

Increasing(q) ==
    \A i, j \in DOMAIN q : (i < j /\ q[i].stream = q[j].stream) => Earlier(q[i], q[j])
Before(q, r) == \A j \in DOMAIN r : Below(q, r[j])
\* all of q is later than what was written last
Later(q, marks) == \A i \in DOMAIN q : Earlier(marks[q[i].stream], q[i])

Behind(x, s) ==
    /\ x.era <= rebalances /\ x.id <= published
    /\ x.era = rebalances => \A k \in position[s] + 1 .. Len(log[s]) : x.id < log[s][k].id

Passed == {e \in Payload : Behind(e, e.stream)}
PassedMarks(s) == {m \in Mark : Behind(m, s)}

SideCh(c) == IF Side[c] = "SHADOW" THEN darkSideSSECh ELSE lightSideSSECh

LogInv ==
    \A s \in Streams : \A k \in 1..Len(log[s]) :
      /\ log[s][k].id <= published
      /\ \A j \in 1..Len(log[s]) : j < k => log[s][j].id < log[s][k].id

ChannelInv(q) == Increasing(q) /\ q \in Seq(Passed)

ClientInv(c) ==
    /\ Increasing(Ch[c]) /\ Ch[c] \in Seq(Passed) /\ Before(Ch[c], SideCh(c))
    /\ Later(Ch[c], last[c]) /\ Later(SideCh(c), last[c])
    /\ last[c] \in [Streams -> Mark] /\ \A s \in Streams : last[c][s] \in PassedMarks(s)

OrderInv ==
    /\ SecretInv /\ DOMAIN last = Connections
    /\ LogInv /\ ChannelInv(lightSideSSECh) /\ ChannelInv(darkSideSSECh)
    /\ \A c \in Connections : ClientInv(c)

----------------------------------------------------------------------------
(***************************************************************************)
(* Sequences of events.                                                    *)
(***************************************************************************)
LEMMA AppendIndices ==
  ASSUME NEW q \in Seq(Payload), NEW e \in Payload
  PROVE  /\ Append(q, e) \in Seq(Payload)
         /\ \A i \in DOMAIN Append(q, e) : i \in DOMAIN q \/ i = Len(q) + 1
         /\ \A i \in DOMAIN q : Append(q, e)[i] = q[i] /\ i < Len(q) + 1
         /\ Append(q, e)[Len(q) + 1] = e
  BY AppendProperties

LEMMA TailIndices ==
  ASSUME NEW q \in Seq(Payload), q # <<>>
  PROVE  /\ Head(q) \in Payload /\ Tail(q) \in Seq(Payload)
         /\ 1 \in DOMAIN q /\ Head(q) = q[1]
         /\ \A i \in DOMAIN Tail(q) : i + 1 \in DOMAIN q /\ 1 < i + 1 /\ Tail(q)[i] = q[i + 1]
  BY HeadTailProperties

LEMMA AppendOrder ==
  ASSUME NEW q \in Seq(Payload), NEW e \in Payload
  PROVE  /\ Increasing(q) /\ Below(q, e) => Increasing(Append(q, e))
         /\ \A r : Before(q, r) /\ Above(r, e) => Before(Append(q, e), r)
         /\ \A r : Before(r, q) /\ Below(r, e) => Before(r, Append(q, e))
         /\ \A marks : Later(q, marks) /\ Earlier(marks[e.stream], e)
                      => Later(Append(q, e), marks)
<1> DEFINE a == Append(q, e)
<1> USE AppendIndices
<1>1. Increasing(q) /\ Below(q, e) => Increasing(a)
  <2> SUFFICES ASSUME Increasing(q), Below(q, e), NEW i \in DOMAIN a, NEW j \in DOMAIN a,
                      i < j, a[i].stream = a[j].stream
               PROVE  Earlier(a[i], a[j])
    BY DEF Increasing
  <2>1. i \in DOMAIN q
    OBVIOUS
  <2> QED
    BY <2>1 DEF Increasing, Below
<1>2. \A r : Before(q, r) /\ Above(r, e) => Before(a, r)
  BY DEF Before, Below, Above
<1>3. \A r : Before(r, q) /\ Below(r, e) => Before(r, a)
  BY DEF Before, Below
<1>4. \A marks : Later(q, marks) /\ Earlier(marks[e.stream], e) => Later(a, marks)
  BY DEF Later
<1> QED
  BY <1>1, <1>2, <1>3, <1>4

LEMMA TailOrder ==
  ASSUME NEW q \in Seq(Payload), q # <<>>
  PROVE  /\ Increasing(q) => Increasing(Tail(q)) /\ Above(Tail(q), Head(q))
         /\ \A r : Before(q, r) => Before(Tail(q), r) /\ Above(r, Head(q))
         /\ \A r : Before(r, q) => Before(r, Tail(q)) /\ Below(r, Head(q))
         /\ \A marks : Later(q, marks) =>
              Later(Tail(q), marks) /\ Earlier(marks[Head(q).stream], Head(q))
<1> USE TailIndices
<1>1. Increasing(q) => Increasing(Tail(q)) /\ Above(Tail(q), Head(q))
  <2> SUFFICES ASSUME Increasing(q) PROVE Increasing(Tail(q)) /\ Above(Tail(q), Head(q))
    OBVIOUS
  <2>1. Increasing(Tail(q))
    BY DEF Increasing
  <2>2. Above(Tail(q), Head(q))
    BY DEF Increasing, Above
  <2> QED
    BY <2>1, <2>2
<1>2. \A r : Before(q, r) => Before(Tail(q), r) /\ Above(r, Head(q))
  BY DEF Before, Below, Above
<1>3. \A r : Before(r, q) => Before(r, Tail(q)) /\ Below(r, Head(q))
  BY DEF Before
<1>4. \A marks : Later(q, marks) =>
        Later(Tail(q), marks) /\ Earlier(marks[Head(q).stream], Head(q))
  BY DEF Later
<1> QED
  BY <1>1, <1>2, <1>3, <1>4

\* A send either adds the event or drops it.
LEMMA SendCases ==
  ASSUME NEW q, NEW e, NEW cap
  PROVE  Send(q, e, cap) = q \/ Send(q, e, cap) = Append(q, e)
  BY DEF Send

LEMMA Typed ==
  ASSUME SecretInv
  PROVE  /\ published \in Nat /\ rebalances \in Nat
         /\ \A s \in Streams : /\ log[s] \in Seq(Event) /\ Len(log[s]) \in Nat
                               /\ position[s] \in 0..Len(log[s])
                               /\ \A k \in 1..Len(log[s]) : log[s][k].id \in Nat
         /\ lightSideSSECh \in Seq(Payload) /\ darkSideSSECh \in Seq(Payload)
         /\ \A c \in Connections : Ch[c] \in Seq(Payload) /\ SideCh(c) \in Seq(Payload)
<1>1. ForLight \subseteq Payload /\ ForDark \subseteq Payload
  BY DEF ForLight, ForDark
<1>2. published \in Nat /\ rebalances \in Nat
  BY RoutingAssumption DEF SecretInv
<1>3. lightSideSSECh \in Seq(Payload) /\ darkSideSSECh \in Seq(Payload)
  BY <1>1 DEF SecretInv
<1>4. ASSUME NEW c \in Connections
      PROVE  Ch[c] \in Seq(Payload)
  <2>1. ForSide(Side[c]) \subseteq Payload
    BY <1>1 DEF ForSide
  <2>2. Ch[c] \in Seq(ForSide(Side[c]))
    BY DEF SecretInv
  <2> QED
    BY <2>1, <2>2
<1>5. ASSUME NEW s \in Streams
      PROVE  /\ log[s] \in Seq(Event) /\ Len(log[s]) \in Nat /\ position[s] \in 0..Len(log[s])
             /\ \A k \in 1..Len(log[s]) : log[s][k].id \in Nat
  <2>1. log[s] \in Seq(Event) /\ Len(log[s]) \in Nat /\ position[s] \in 0..Len(log[s])
    BY LenProperties DEF SecretInv
  <2>2. \A k \in 1..Len(log[s]) : log[s][k] \in Event
    BY <2>1, ElementOfSeq
  <2> QED
    BY <2>1, <2>2 DEF Event
<1> QED
  BY <1>2, <1>3, <1>4, <1>5 DEF SideCh

LEMMA EventFields ==
  ASSUME NEW e \in Payload
  PROVE  e.stream \in Streams /\ e.id \in Nat /\ e.era \in Nat
         /\ e.id \in 0..MaxEvents /\ e.era \in 0..MaxRebalances
  BY RoutingAssumption DEF Payload

----------------------------------------------------------------------------
(***************************************************************************)
(* What the consumer has passed, it has passed for good: a publication     *)
(* comes after it, a poll goes on in the log, a rebalance begins an era.   *)
(***************************************************************************)
PublishStep(s, e) ==
    /\ s \in Streams /\ e.id = published + 1 /\ published' = published + 1
    /\ \A t \in Streams : log'[t] = IF t = s THEN Append(log[s], e) ELSE log[t]
    /\ UNCHANGED <<position, rebalances>>

PollStep(s) ==
    /\ s \in Streams /\ position[s] + 1 \in 1..Len(log[s])
    /\ \A t \in Streams : position'[t] = IF t = s THEN position[s] + 1 ELSE position[t]
    /\ UNCHANGED <<published, log, rebalances>>

LEMMA BehindStays ==
  ASSUME OrderInv, NEW t \in Streams, NEW x, x.era \in Nat, x.id \in Nat, Behind(x, t),
         \/ \E s \in Streams, e \in Event : PublishStep(s, e)
         \/ \E s \in Streams : PollStep(s)
         \/ rebalances' = rebalances + 1 /\ UNCHANGED <<published, log>>
         \/ UNCHANGED <<published, log, position, rebalances>>
  PROVE  Behind(x, t)'
<1>1. /\ published \in Nat /\ rebalances \in Nat /\ Len(log[t]) \in Nat
      /\ position[t] \in 0..Len(log[t]) /\ log[t] \in Seq(Event)
  BY Typed DEF OrderInv
<1>2. ASSUME NEW s \in Streams, NEW e \in Event, PublishStep(s, e)
      PROVE  Behind(x, t)'
  <2>1. CASE s # t
    BY <1>1, <1>2, <2>1 DEF PublishStep, Behind
  <2>2. CASE s = t
    <3>1. /\ log'[t] = Append(log[t], e) /\ Len(log'[t]) = Len(log[t]) + 1
          /\ \A k \in 1..Len(log[t]) : log'[t][k] = log[t][k]
          /\ log'[t][Len(log[t]) + 1] = e
      <4>1. log'[t] = Append(log[t], e)
        BY <1>2, <2>2 DEF PublishStep
      <4> QED
        BY <1>1, <1>2, <4>1, AppendProperties
    <3>2. ASSUME x.era = rebalances, NEW k \in position[t] + 1 .. Len(log[t]) + 1
          PROVE  x.id < log'[t][k].id
      <4>1. CASE k = Len(log[t]) + 1
        BY <1>1, <1>2, <3>1, <4>1 DEF PublishStep, Behind
      <4>2. CASE k # Len(log[t]) + 1
        <5>1. k \in position[t] + 1 .. Len(log[t]) /\ k \in 1..Len(log[t])
          BY <1>1, <3>2, <4>2
        <5> QED
          BY <3>1, <3>2, <5>1 DEF Behind
      <4> QED
        BY <4>1, <4>2
    <3> QED
      BY <1>1, <1>2, <3>1, <3>2 DEF PublishStep, Behind
  <2> QED
    BY <2>1, <2>2
<1>3. ASSUME NEW s \in Streams, PollStep(s)
      PROVE  Behind(x, t)'
  <2>1. position'[t] \in Int /\ position'[t] >= position[t]
    BY <1>1, <1>3 DEF PollStep
  <2>2. position'[t] + 1 .. Len(log[t]) \subseteq position[t] + 1 .. Len(log[t])
    BY <1>1, <2>1
  <2> QED
    BY <1>3, <2>2 DEF PollStep, Behind
<1>4. CASE rebalances' = rebalances + 1 /\ UNCHANGED <<published, log>>
  BY <1>1, <1>4 DEF Behind
<1>5. CASE UNCHANGED <<published, log, position, rebalances>>
  BY <1>5 DEF Behind
<1> QED
  BY <1>2, <1>3, <1>4, <1>5

\* A step that leaves the channels alone leaves them in order.
LEMMA FrameOrder ==
  ASSUME OrderInv, SecretInv', LogInv', UNCHANGED <<sides, Ch, last>>,
         \/ \E s \in Streams, e \in Event : PublishStep(s, e)
         \/ rebalances' = rebalances + 1 /\ UNCHANGED <<published, log>>
         \/ UNCHANGED <<published, log, position, rebalances>>
  PROVE  OrderInv'
<1>1. Passed \subseteq Passed'
  BY BehindStays, EventFields DEF Passed
<1>2. \A s \in Streams : PassedMarks(s) \subseteq PassedMarks(s)'
  BY BehindStays, RoutingAssumption DEF PassedMarks, Mark
<1>3. \A c \in Connections : SideCh(c)' = SideCh(c)
  BY DEF SideCh, sides
<1>4. ASSUME NEW q \in Seq(Passed)
      PROVE  q \in Seq(Passed')
  BY <1>1
<1>5. ChannelInv(lightSideSSECh)' /\ ChannelInv(darkSideSSECh)'
  BY <1>4 DEF OrderInv, ChannelInv, sides
<1>6. ASSUME NEW c \in Connections
      PROVE  ClientInv(c)'
  <2>1. ClientInv(c) /\ Ch[c] \in Seq(Passed')
    BY <1>4 DEF OrderInv, ClientInv
  <2>2. \A s \in Streams : last[c][s] \in PassedMarks(s)'
    BY <1>2, <2>1 DEF ClientInv
  <2> QED
    BY <1>3, <2>1, <2>2 DEF ClientInv
<1> QED
  BY <1>5, <1>6 DEF OrderInv

----------------------------------------------------------------------------
(***************************************************************************)
(* The steps.                                                              *)
(***************************************************************************)
LEMMA PublishOrder ==
  ASSUME OrderInv, SecretInv', NEW s \in Streams, NEW shows \in Shows(TopicOf[s]),
         Publish(s, shows)
  PROVE  OrderInv'
<1> DEFINE e == [stream |-> s, id |-> published + 1, shows |-> shows]
<1>1. /\ published' = published + 1 /\ log' = [log EXCEPT ![s] = Append(@, e)]
      /\ UNCHANGED <<consumer, sides, Ch, last>>
  BY DEF Publish
<1>2. SecretInv /\ DOMAIN log = Streams /\ published \in Nat
  BY Typed DEF OrderInv, SecretInv
<1>3. e \in Event
  <2>1. published + 1 \in 1..MaxEvents
    BY <1>2, RoutingAssumption DEF Publish, SecretInv
  <2>2. shows \in BOOLEAN
    BY DEF Shows
  <2> QED
    BY <2>1, <2>2 DEF Event
<1>4. PublishStep(s, e)
  BY <1>1, <1>2 DEF PublishStep, consumer
<1>5. ASSUME NEW t \in Streams
      PROVE  \A k \in 1..Len(log'[t]) :
               /\ log'[t][k].id <= published'
               /\ \A j \in 1..Len(log'[t]) : j < k => log'[t][j].id < log'[t][k].id
  <2>1. /\ log[t] \in Seq(Event) /\ Len(log[t]) \in Nat
        /\ \A k \in 1..Len(log[t]) : log[t][k].id \in Nat
        /\ \A k \in 1..Len(log[t]) :
             /\ log[t][k].id <= published
             /\ \A j \in 1..Len(log[t]) : j < k => log[t][j].id < log[t][k].id
    BY <1>2, Typed DEF OrderInv, LogInv
  <2>2. CASE t # s
    <3>1. log'[t] = log[t] /\ published' = published + 1
      BY <1>1, <1>4, <2>2 DEF PublishStep
    <3> QED
      BY <1>2, <2>1, <3>1
  <2>3. CASE t = s
    <3>1. /\ Len(log'[t]) = Len(log[t]) + 1 /\ log'[t][Len(log[t]) + 1] = e
          /\ \A k \in 1..Len(log[t]) : log'[t][k] = log[t][k]
      <4>1. log'[t] = Append(log[t], e)
        BY <1>4, <2>3 DEF PublishStep
      <4> HIDE DEF e
      <4> QED
        BY <1>3, <2>1, <4>1, AppendProperties
    <3>2. e.id = published + 1
      OBVIOUS
    <3> HIDE DEF e
    <3> QED
      BY <1>1, <1>2, <2>1, <3>1, <3>2
  <2> QED
    BY <2>2, <2>3
<1>6. LogInv'
  BY <1>5 DEF LogInv
<1> HIDE DEF e
<1> QED
  BY <1>1, <1>3, <1>4, <1>6, FrameOrder

LEMMA RebalanceOrder ==
  ASSUME OrderInv, SecretInv', Rebalance
  PROVE  OrderInv'
<1>1. LogInv'
  BY DEF Rebalance, OrderInv, LogInv
<1> QED
  BY <1>1, FrameOrder DEF Rebalance

\* What is polled comes after all that is on its way, and is then passed itself.
LEMMA PolledIsNext ==
  ASSUME OrderInv, SecretInv', NEW s \in Streams, Poll(s), NEW readable \in BOOLEAN,
         NEW e, e = Polled(s, readable)
  PROVE  /\ \A x : x.era \in Nat /\ x.id \in Nat /\ Behind(x, s) => Earlier(x, e)
         /\ Behind(e, s)'
<1> DEFINE n == position[s] + 1
<1>1. /\ SecretInv /\ n \in 1..Len(log[s]) /\ position'[s] = n
      /\ UNCHANGED <<published, log, rebalances>>
  BY PollSteps DEF OrderInv, Poll
<1>2. /\ Len(log[s]) \in Nat /\ position[s] \in 0..Len(log[s]) /\ rebalances \in Nat
      /\ \A k \in 1..Len(log[s]) : log[s][k].id \in Nat
  BY <1>1, Typed
<1>3. e.id = log[s][n].id /\ e.era = rebalances
  BY DEF Polled
<1>4. ASSUME NEW x, x.era \in Nat, x.id \in Nat, Behind(x, s)
      PROVE  Earlier(x, e)
  BY <1>1, <1>2, <1>3, <1>4 DEF Behind, Earlier
<1>5. \A k \in n + 1 .. Len(log[s]) : log[s][n].id < log[s][k].id
  BY <1>1, <1>2 DEF OrderInv, LogInv
<1>6. log[s][n].id <= published
  BY <1>1 DEF OrderInv, LogInv
<1>7. Behind(e, s)'
  BY <1>1, <1>2, <1>3, <1>5, <1>6 DEF Behind
<1> QED
  BY <1>4, <1>7

LEMMA PollOrder ==
  ASSUME OrderInv, SecretInv', NEW s \in Streams, Poll(s)
  PROVE  OrderInv'
<1>1. SecretInv /\ PollStep(s) /\ UNCHANGED <<published, log, Ch, last>>
  BY PollSteps DEF OrderInv, Poll, PollStep
<1>2. PICK readable \in BOOLEAN : RouteEvent(Polled(s, readable))
  BY <1>1, PollSteps
<1> PICK e : e = Polled(s, readable)
  OBVIOUS
<1>3. e \in Payload /\ e.stream = s
  BY <1>1, PollSteps DEF Polled
<1>4. Strip(e) \in Payload /\ Strip(e).stream = e.stream /\ Strip(e).id = e.id
      /\ Strip(e).era = e.era
  BY <1>3 DEF Payload, Strip
<1>5. /\ \A x : x.era \in Nat /\ x.id \in Nat /\ Behind(x, s) => Earlier(x, e)
      /\ Behind(e, s)'
  BY PolledIsNext
<1>6. RouteEvent(e)
  BY <1>2
<1>7. /\ \E f \in {e, Strip(e)} : lightSideSSECh' \in {lightSideSSECh, Append(lightSideSSECh, f)}
      /\ \E f \in {e, Strip(e)} : darkSideSSECh' \in {darkSideSSECh, Append(darkSideSSECh, f)}
  BY <1>6, SendCases DEF RouteEvent
<1>8. Passed \subseteq Passed' /\ \A t \in Streams : PassedMarks(t) \subseteq PassedMarks(t)'
  <2>1. Passed \subseteq Passed'
    BY <1>1, BehindStays, EventFields DEF Passed
  <2>2. \A t \in Streams : PassedMarks(t) \subseteq PassedMarks(t)'
    BY <1>1, BehindStays, RoutingAssumption DEF PassedMarks, Mark
  <2> QED
    BY <2>1, <2>2
<1>9. ASSUME NEW f \in {e, Strip(e)}
      PROVE  /\ f \in Payload /\ f.stream = s /\ f \in Passed'
             /\ \A x : x.era \in Nat /\ x.id \in Nat /\ Behind(x, s) => Earlier(x, f)
             /\ \A q \in Seq(Payload) : q \in Seq(Passed) => Below(q, f)
  <2>1. f \in Payload /\ f.stream = s /\ f.id = e.id /\ f.era = e.era
    BY <1>3, <1>4
  <2>2. f \in Passed'
    BY <1>5, <2>1 DEF Passed, Behind
  <2>3. \A x : x.era \in Nat /\ x.id \in Nat /\ Behind(x, s) => Earlier(x, f)
    BY <1>5, <2>1 DEF Earlier
  <2>4. ASSUME NEW q \in Seq(Passed), NEW i \in DOMAIN q, q[i].stream = s
        PROVE  Earlier(q[i], f)
    <3>1. q[i] \in Passed
      BY ElementOfSeq
    <3>2. q[i].era \in Nat /\ q[i].id \in Nat /\ Behind(q[i], s)
      BY <2>4, <3>1, EventFields DEF Passed
    <3> QED
      BY <2>3, <3>2
  <2> QED
    BY <2>1, <2>2, <2>3, <2>4 DEF Below
<1>10. ASSUME NEW q \in Seq(Payload), ChannelInv(q), NEW f \in {e, Strip(e)},
              NEW r \in {q, Append(q, f)}
       PROVE  Increasing(r) /\ r \in Seq(Passed')
  <2>1. Increasing(q) /\ q \in Seq(Passed) /\ q \in Seq(Passed')
    BY <1>8, <1>10 DEF ChannelInv
  <2>2. Append(q, f) \in Seq(Passed')
    BY <1>9, <2>1, AppendProperties
  <2>3. Increasing(Append(q, f))
    BY <1>9, <2>1, AppendOrder
  <2> QED
    BY <2>1, <2>2, <2>3
<1>11. ChannelInv(lightSideSSECh)' /\ ChannelInv(darkSideSSECh)'
  <2>1. lightSideSSECh \in Seq(Payload) /\ darkSideSSECh \in Seq(Payload)
        /\ ChannelInv(lightSideSSECh) /\ ChannelInv(darkSideSSECh)
    BY <1>1, Typed DEF OrderInv
  <2> QED
    BY <1>7, <1>10, <2>1 DEF ChannelInv
<1>12. ASSUME NEW c \in Connections
       PROVE  ClientInv(c)'
  <2>1. ClientInv(c) /\ Ch[c] \in Seq(Payload) /\ SideCh(c) \in Seq(Payload)
    BY <1>1, Typed DEF OrderInv
  <2>2. PICK f \in {e, Strip(e)} : SideCh(c)' \in {SideCh(c), Append(SideCh(c), f)}
    BY <1>7 DEF SideCh
  <2>3. Below(Ch[c], f) /\ f \in Payload /\ f.stream = s
    BY <1>9, <2>1 DEF ClientInv
  <2>4. Earlier(last[c][s], f)
    <3>1. last[c][s] \in Mark /\ Behind(last[c][s], s)
      BY <2>1 DEF ClientInv, PassedMarks
    <3>2. last[c][s].era \in Nat /\ last[c][s].id \in Nat
      BY <3>1, RoutingAssumption DEF Mark
    <3> QED
      BY <1>9, <3>1, <3>2
  <2>5. Before(Ch[c], SideCh(c)') /\ Later(SideCh(c)', last[c])
    BY <2>1, <2>2, <2>3, <2>4, AppendOrder DEF ClientInv
  <2>6. Ch[c] \in Seq(Passed') /\ \A t \in Streams : last[c][t] \in PassedMarks(t)'
    BY <1>8, <2>1 DEF ClientInv
  <2> QED
    BY <1>1, <2>1, <2>5, <2>6 DEF ClientInv
<1>13. LogInv'
  BY <1>1 DEF OrderInv, LogInv
<1> QED
  BY <1>1, <1>11, <1>12, <1>13 DEF OrderInv

\* One event given to the clients of a side, whose channel loses its head.
LEMMA DeliverOrder ==
  ASSUME OrderInv, NEW side, NEW q \in Seq(Payload), q # <<>>, ChannelInv(q), NEW clients,
         Deliver(clients, Head(q)),
         \A c \in Connections : Registered(clients, c) => Side[c] = side,
         \A c \in Connections : Side[c] = side => SideCh(c) = q,
         \A c \in Connections : SideCh(c)' = IF Side[c] = side THEN Tail(q) ELSE SideCh(c),
         UNCHANGED <<published, log, consumer, last>>,
         NEW c \in Connections
  PROVE  ClientInv(c)'
<1> DEFINE e == Head(q)
<1>1. /\ SecretInv /\ ClientInv(c)
      /\ Ch[c] \in Seq(Payload) /\ SideCh(c) \in Seq(Payload) /\ e \in Payload
  BY Typed, TailIndices DEF OrderInv
<1>2. Passed' = Passed /\ \A s \in Streams : PassedMarks(s)' = PassedMarks(s)
  BY DEF Passed, PassedMarks, Behind, consumer
<1>3. CASE Side[c] # side
  <2>1. Ch'[c] = Ch[c] /\ SideCh(c)' = SideCh(c)
    BY <1>3 DEF Deliver
  <2> QED
    BY <1>1, <1>2, <2>1 DEF ClientInv
<1>4. CASE Side[c] = side
  <2>1. SideCh(c) = q /\ SideCh(c)' = Tail(q) /\ Ch'[c] \in {Ch[c], Append(Ch[c], e)}
    BY <1>4, SendCases DEF Deliver
  <2>2. /\ Increasing(Ch[c]) /\ Before(Ch[c], q) /\ Ch[c] \in Seq(Passed)
        /\ Later(Ch[c], last[c]) /\ Later(q, last[c])
    BY <1>1, <2>1 DEF ClientInv
  <2>3. /\ Below(Ch[c], e) /\ Before(Ch[c], Tail(q)) /\ Above(Tail(q), e)
        /\ Later(Tail(q), last[c]) /\ Earlier(last[c][e.stream], e)
    BY <1>1, <2>2, TailOrder DEF ChannelInv
  <2>4. e \in Passed
    BY HeadTailProperties DEF ChannelInv
  <2>5. Append(Ch[c], e) \in Seq(Passed)
    BY <2>2, <2>4, AppendProperties
  <2>6. /\ Increasing(Append(Ch[c], e)) /\ Before(Append(Ch[c], e), Tail(q))
        /\ Later(Append(Ch[c], e), last[c])
    BY <1>1, <2>2, <2>3, AppendOrder
  <2> QED
    BY <1>1, <1>2, <2>1, <2>2, <2>3, <2>5, <2>6 DEF ClientInv
<1> QED
  BY <1>3, <1>4

LEMMA ChannelTail ==
  ASSUME NEW q \in Seq(Payload), q # <<>>, ChannelInv(q)
  PROVE  ChannelInv(Tail(q))
  BY TailOrder, HeadTailProperties DEF ChannelInv

LEMMA RunOrder ==
  ASSUME OrderInv, SecretInv', LightEvent \/ DarkEvent
  PROVE  OrderInv'
<1>1. /\ SecretInv /\ lightSideSSECh \in Seq(Payload) /\ darkSideSSECh \in Seq(Payload)
      /\ ChannelInv(lightSideSSECh) /\ ChannelInv(darkSideSSECh)
  BY Typed DEF OrderInv
<1>2. UNCHANGED <<published, log, consumer, last>> /\ LogInv' /\ Passed' = Passed
  BY DEF LightEvent, DarkEvent, OrderInv, LogInv, Passed, Behind, consumer
<1>3. \A c \in Connections : Side[c] \in {"FREE_PEOPLES", "SHADOW"}
  BY RoutingAssumption
<1>4. CASE LightEvent
  <2>1. /\ lightSideSSECh # <<>> /\ lightSideSSECh' = Tail(lightSideSSECh)
        /\ darkSideSSECh' = darkSideSSECh /\ Deliver(lightClients, Head(lightSideSSECh))
    BY <1>4 DEF LightEvent
  <2>2. ChannelInv(lightSideSSECh)' /\ ChannelInv(darkSideSSECh)'
    BY <1>1, <1>2, <2>1, ChannelTail DEF ChannelInv
  <2>3. \A c \in Connections :
          /\ Registered(lightClients, c) => Side[c] = "FREE_PEOPLES"
          /\ Side[c] = "FREE_PEOPLES" => SideCh(c) = lightSideSSECh
          /\ SideCh(c)' = IF Side[c] = "FREE_PEOPLES" THEN Tail(lightSideSSECh) ELSE SideCh(c)
    BY <1>1, <1>3, <2>1 DEF SecretInv, SideCh
  <2>4. \A c \in Connections : ClientInv(c)'
    BY <1>1, <1>2, <2>1, <2>3, DeliverOrder
  <2> QED
    BY <1>2, <2>2, <2>4 DEF OrderInv
<1>5. CASE DarkEvent
  <2>1. /\ darkSideSSECh # <<>> /\ darkSideSSECh' = Tail(darkSideSSECh)
        /\ lightSideSSECh' = lightSideSSECh /\ Deliver(darkClients, Head(darkSideSSECh))
    BY <1>5 DEF DarkEvent
  <2>2. ChannelInv(lightSideSSECh)' /\ ChannelInv(darkSideSSECh)'
    BY <1>1, <1>2, <2>1, ChannelTail DEF ChannelInv
  <2>3. \A c \in Connections :
          /\ Registered(darkClients, c) => Side[c] = "SHADOW"
          /\ Side[c] = "SHADOW" => SideCh(c) = darkSideSSECh
          /\ SideCh(c)' = IF Side[c] = "SHADOW" THEN Tail(darkSideSSECh) ELSE SideCh(c)
    BY <1>1, <1>3, <2>1 DEF SecretInv, SideCh
  <2>4. \A c \in Connections : ClientInv(c)'
    BY <1>1, <1>2, <2>1, <2>3, DeliverOrder
  <2> QED
    BY <1>2, <2>2, <2>4 DEF OrderInv
<1> QED
  BY <1>4, <1>5

LEMMA WriteOrder ==
  ASSUME OrderInv, SecretInv', NEW d \in Connections, Write(d)
  PROVE  OrderInv' /\ Earlier(last[d][Head(Ch[d]).stream], Head(Ch[d]))
<1> DEFINE e == Head(Ch[d])
<1> DEFINE mark == [era |-> e.era, id |-> e.id]
<1>1. /\ Ch[d] # <<>> /\ Ch' = [Ch EXCEPT ![d] = Tail(@)]
      /\ last' = [last EXCEPT ![d][e.stream] = mark]
      /\ UNCHANGED <<published, log, consumer, lightSideSSECh, darkSideSSECh>>
  BY DEF Write, sides
<1>2. SecretInv /\ ClientInv(d) /\ Ch[d] \in Seq(Payload)
  BY Typed DEF OrderInv
<1>3. e \in Payload /\ e.stream \in Streams
  BY <1>1, <1>2, TailIndices, EventFields
<1>4. e \in Passed /\ Tail(Ch[d]) \in Seq(Passed)
  BY <1>1, <1>2, HeadTailProperties DEF ClientInv
<1>5. mark \in PassedMarks(e.stream)
  BY <1>3, <1>4, EventFields DEF PassedMarks, Passed, Mark, Behind
<1>6. \A x : Earlier(mark, x) <=> Earlier(e, x)
  BY DEF Earlier
<1> HIDE DEF mark
<1>7. /\ Increasing(Tail(Ch[d])) /\ Above(Tail(Ch[d]), e)
      /\ Before(Tail(Ch[d]), SideCh(d)) /\ Above(SideCh(d), e)
      /\ Later(Tail(Ch[d]), last[d]) /\ Earlier(last[d][e.stream], e)
  BY <1>1, <1>2, TailOrder DEF ClientInv
<1>8. DOMAIN Ch = Connections /\ DOMAIN last = Connections /\ last[d] \in [Streams -> Mark]
  BY <1>2 DEF OrderInv, SecretInv, ClientInv
<1>9. /\ Ch'[d] = Tail(Ch[d]) /\ last'[d] = [last[d] EXCEPT ![e.stream] = mark]
      /\ \A c \in Connections \ {d} : Ch'[c] = Ch[c] /\ last'[c] = last[c]
      /\ \A c \in Connections : SideCh(c)' = SideCh(c)
  BY <1>1, <1>8 DEF SideCh
<1>10. /\ last'[d] \in [Streams -> Mark] /\ \A s \in Streams : last'[d][s] \in PassedMarks(s)
  BY <1>3, <1>5, <1>2, <1>8, <1>9 DEF ClientInv, PassedMarks
<1>11. ASSUME NEW q \in Seq(Payload), Later(q, last[d]), Above(q, e)
       PROVE  Later(q, last'[d])
  <2> SUFFICES ASSUME NEW i \in DOMAIN q PROVE Earlier(last'[d][q[i].stream], q[i])
    BY DEF Later
  <2>1. q[i] \in Payload
    BY ElementOfSeq
  <2>2. q[i].stream \in Streams
    BY <2>1, EventFields
  <2>3. CASE q[i].stream = e.stream
    <3>1. last'[d][q[i].stream] = mark
      BY <1>3, <1>8, <1>9, <2>3
    <3>2. Earlier(e, q[i])
      BY <1>11, <2>3 DEF Above
    <3> QED
      BY <1>6, <3>1, <3>2
  <2>4. CASE q[i].stream # e.stream
    <3>1. last'[d][q[i].stream] = last[d][q[i].stream]
      BY <1>8, <1>9, <2>2, <2>4
    <3> QED
      BY <1>11, <3>1 DEF Later
  <2> QED
    BY <2>3, <2>4
<1>12. Passed' = Passed /\ \A s \in Streams : PassedMarks(s)' = PassedMarks(s)
  BY <1>1 DEF Passed, PassedMarks, Behind, consumer
<1>13. ClientInv(d)'
  <2>1. SideCh(d) \in Seq(Payload) /\ Tail(Ch[d]) \in Seq(Payload)
    BY <1>1, <1>2, Typed, TailIndices
  <2>2. Later(Tail(Ch[d]), last'[d]) /\ Later(SideCh(d), last'[d])
    BY <1>2, <1>7, <1>11, <2>1 DEF ClientInv
  <2> QED
    BY <1>4, <1>7, <1>9, <1>10, <1>12, <2>2 DEF ClientInv
<1>14. ASSUME NEW c \in Connections \ {d}
       PROVE  ClientInv(c)'
  <2>1. ClientInv(c)
    BY DEF OrderInv
  <2> QED
    BY <1>9, <1>12, <2>1 DEF ClientInv
<1>15. DOMAIN last' = Connections
  BY <1>1, <1>8
<1>16. LogInv' /\ ChannelInv(lightSideSSECh)' /\ ChannelInv(darkSideSSECh)'
  BY <1>1, <1>12 DEF OrderInv, LogInv, ChannelInv
<1> QED
  BY <1>7, <1>13, <1>14, <1>15, <1>16 DEF OrderInv

LEMMA OrderInvariant == Spec => []OrderInv
<1>1. Init => SecretInv
  BY SecretInit
<1>2. Init => OrderInv
  <2> SUFFICES ASSUME Init PROVE OrderInv
    OBVIOUS
  <2>1. \A q, m : /\ Increasing(<<>>) /\ Before(q, <<>>) /\ Later(<<>>, m)
                  /\ <<>> \in Seq(Passed)
    BY DEF Increasing, Before, Later
  <2>2. /\ published = 0 /\ lightSideSSECh = <<>> /\ darkSideSSECh = <<>>
        /\ \A s \in Streams : log[s] = <<>> /\ position[s] = 0
        /\ rebalances = 0 /\ DOMAIN last = Connections
        /\ \A c \in Connections : /\ Ch[c] = <<>> /\ SideCh(c) = <<>>
                                  /\ last[c] = [s \in Streams |-> [era |-> 0, id |-> 0]]
    BY DEF Init, SideCh
  <2>3. ASSUME NEW s \in Streams
        PROVE  [era |-> 0, id |-> 0] \in PassedMarks(s)
    <3>1. position[s] + 1 .. Len(log[s]) = {}
      BY <2>2
    <3> QED
      BY <2>2, <3>1, RoutingAssumption DEF PassedMarks, Mark, Behind
  <2>4. \A c \in Connections : last[c] \in [Streams -> Mark]
    BY <2>2, RoutingAssumption DEF Mark
  <2>5. ASSUME NEW s \in Streams
        PROVE  1..Len(log[s]) = {}
    BY <2>2
  <2> QED
    BY <1>1, <2>1, <2>2, <2>3, <2>4, <2>5 DEF OrderInv, LogInv, ChannelInv, ClientInv
<1>3. OrderInv /\ [Next]_vars => OrderInv'
  <2> SUFFICES ASSUME OrderInv, [Next]_vars PROVE OrderInv'
    OBVIOUS
  <2>1. SecretInv'
    BY SecretNext DEF OrderInv
  <2>2. ASSUME UNCHANGED <<published, log, consumer, sides, Ch, last>>
        PROVE  OrderInv'
    <3>1. LogInv'
      BY <2>2 DEF OrderInv, LogInv
    <3> QED
      BY <2>1, <2>2, <3>1, FrameOrder DEF consumer
  <2>3. ASSUME NEW c \in Connections, Connect(c) \/ Disconnect(c)
        PROVE  OrderInv'
    BY <2>2, <2>3 DEF Connect, Disconnect
  <2>4. CASE Register \/ Unregister \/ UNCHANGED vars
    BY <2>2, <2>4 DEF Register, Unregister, vars
  <2> QED
    BY <2>1, <2>3, <2>4, PublishOrder, PollOrder, RebalanceOrder, RunOrder, WriteOrder DEF Next
<1> QED
  BY <1>2, <1>3, PTL DEF Spec

(***************************************************************************)
(* Every browser gets the events of a stream in the order of publication   *)
(* and none twice between two rebalances of the consumer's group, and what *)
(* a rebalance has sent again only after what was polled before it,        *)
(* whatever is dropped and whoever reconnects, for any number of streams   *)
(* and connections and any capacities of the channels.                     *)
(***************************************************************************)
THEOREM OrderIsKept == Spec => DeliveredInOrder
<1>1. OrderInv /\ [Next]_vars =>
        [\A c \in Connections :
           Write(c) => Earlier(last[c][Head(Ch[c]).stream], Head(Ch[c]))]_vars
  BY SecretNext, WriteOrder DEF OrderInv
<1> QED
  BY <1>1, OrderInvariant, PTL DEF Spec, DeliveredInOrder

----------------------------------------------------------------------------
(***************************************************************************)
(* Registration: an open connection, if nobody else has taken its place    *)
(* under its identifier or left, is registered with its side or about to   *)
(* be.  Only closed connections are about to be removed, and what waits in *)
(* either channel has been a request.                                      *)
(***************************************************************************)
InMap(c) == Registered(ClientsOf(Side[c]), c)

RegistryInv ==
    /\ newConnCh \in Seq(Connections) /\ disconnCh \in Seq(Connections)
    /\ DOMAIN conn = Connections
    /\ DOMAIN lightClients = PlayerIDs /\ DOMAIN darkClients = PlayerIDs
    /\ \A c \in Connections :
         conn[c] = "open" /\ NobodyElse(c)
         => InMap(c) \/ \E i \in DOMAIN newConnCh : newConnCh[i] = c
    /\ \A i \in DOMAIN newConnCh : conn[newConnCh[i]] # "none"
    /\ \A i \in DOMAIN disconnCh : conn[disconnCh[i]] = "closed"

LEMMA QueueTail ==
  ASSUME NEW q \in Seq(Connections), q # <<>>
  PROVE  /\ Head(q) \in Connections /\ Tail(q) \in Seq(Connections)
         /\ 1 \in DOMAIN q /\ Head(q) = q[1]
         /\ \A i \in DOMAIN q : i = 1 \/ (i - 1 \in DOMAIN Tail(q) /\ Tail(q)[i - 1] = q[i])
         /\ \A i \in DOMAIN Tail(q) : i + 1 \in DOMAIN q /\ Tail(q)[i] = q[i + 1]
  BY HeadTailProperties

LEMMA QueueAppend ==
  ASSUME NEW q \in Seq(Connections), NEW c \in Connections
  PROVE  /\ Append(q, c) \in Seq(Connections)
         /\ \A i \in DOMAIN q : i \in DOMAIN Append(q, c) /\ Append(q, c)[i] = q[i]
         /\ Len(q) + 1 \in DOMAIN Append(q, c) /\ Append(q, c)[Len(q) + 1] = c
         /\ \A i \in DOMAIN Append(q, c) : i \in DOMAIN q \/ i = Len(q) + 1
  BY AppendProperties

\* a request once made is never unmade, and one that has ended stays so
LEMMA NobodyBefore ==
  ASSUME NEW c \in Connections, NobodyElse(c)',
         \A d \in Connections : /\ conn[d] # "none" => conn'[d] # "none"
                                /\ conn'[d] = "open" => conn[d] \in {"none", "open"}
  PROVE  NobodyElse(c)
<1> SUFFICES ASSUME NEW d \in Connections \ {c}, PlayerID[d] = PlayerID[c]
             PROVE  conn[d] = "none" \/ (conn[d] = "open" /\ Side[d] # Side[c])
  BY DEF NobodyElse
<1>1. conn'[d] = "none" \/ (conn'[d] = "open" /\ Side[d] # Side[c])
  BY DEF NobodyElse
<1> QED
  BY <1>1

LEMMA RegistryNext ==
  ASSUME RegistryInv, [Next]_vars
  PROVE  RegistryInv'
<1> USE DEF InMap, ClientsOf, Registered
<1>1. ASSUME NEW c \in Connections, Connect(c)
      PROVE  RegistryInv'
  <2>1. /\ conn[c] = "none" /\ conn' = [conn EXCEPT ![c] = "open"]
        /\ newConnCh' = Append(newConnCh, c)
        /\ UNCHANGED <<lightClients, darkClients, disconnCh>>
    BY <1>1 DEF Connect
  <2>2. newConnCh' \in Seq(Connections) /\ DOMAIN conn' = Connections
    BY <2>1, QueueAppend DEF RegistryInv
  <2>3. \A d \in Connections : /\ conn[d] # "none" => conn'[d] # "none"
                               /\ conn'[d] = "open" => conn[d] \in {"none", "open"}
    BY <2>1 DEF RegistryInv
  <2>4. ASSUME NEW d \in Connections, conn'[d] = "open", NobodyElse(d)'
        PROVE  InMap(d)' \/ \E i \in DOMAIN newConnCh' : newConnCh'[i] = d
    <3>1. CASE d = c
      BY <2>1, <3>1, QueueAppend DEF RegistryInv
    <3>2. CASE d # c
      <4>1. NobodyElse(d) /\ conn[d] = "open"
        BY <2>1, <2>3, <2>4, <3>2, NobodyBefore DEF RegistryInv
      <4> QED
        BY <2>1, <4>1, QueueAppend DEF RegistryInv
    <3> QED
      BY <3>1, <3>2
  <2>5. ASSUME NEW i \in DOMAIN newConnCh'
        PROVE  conn'[newConnCh'[i]] # "none"
    <3>1. CASE i = Len(newConnCh) + 1
      BY <2>1, <3>1, QueueAppend DEF RegistryInv
    <3>2. CASE i # Len(newConnCh) + 1
      <4>1. i \in DOMAIN newConnCh /\ newConnCh'[i] = newConnCh[i]
        BY <2>1, <2>5, <3>2, QueueAppend DEF RegistryInv
      <4>2. newConnCh[i] \in Connections /\ conn[newConnCh[i]] # "none"
        BY <4>1, ElementOfSeq DEF RegistryInv
      <4> QED
        BY <2>3, <4>1, <4>2
    <3> QED
      BY <3>1, <3>2
  <2>6. \A i \in DOMAIN disconnCh : conn'[disconnCh[i]] = "closed"
    BY <2>1, ElementOfSeq DEF RegistryInv
  <2> QED
    BY <2>1, <2>2, <2>4, <2>5, <2>6 DEF RegistryInv
<1>2. ASSUME NEW c \in Connections, Disconnect(c)
      PROVE  RegistryInv'
  <2>1. /\ conn[c] = "open" /\ conn' = [conn EXCEPT ![c] = "closed"]
        /\ disconnCh' = Append(disconnCh, c)
        /\ UNCHANGED <<lightClients, darkClients, newConnCh>>
    BY <1>2 DEF Disconnect
  <2>2. disconnCh' \in Seq(Connections) /\ DOMAIN conn' = Connections
    BY <2>1, QueueAppend DEF RegistryInv
  <2>3. \A d \in Connections : /\ conn'[d] = "open" => conn[d] = "open"
                               /\ conn[d] # "none" => conn'[d] # "none"
    BY <2>1 DEF RegistryInv
  <2>4. ASSUME NEW d \in Connections, conn'[d] = "open", NobodyElse(d)'
        PROVE  InMap(d)' \/ \E i \in DOMAIN newConnCh' : newConnCh'[i] = d
    <3>1. NobodyElse(d) /\ conn[d] = "open"
      BY <2>3, <2>4, NobodyBefore
    <3> QED
      BY <2>1, <3>1 DEF RegistryInv
  <2>5. ASSUME NEW i \in DOMAIN disconnCh'
        PROVE  conn'[disconnCh'[i]] = "closed"
    <3>1. CASE i = Len(disconnCh) + 1
      BY <2>1, <3>1, QueueAppend DEF RegistryInv
    <3>2. CASE i # Len(disconnCh) + 1
      <4>1. i \in DOMAIN disconnCh /\ disconnCh'[i] = disconnCh[i]
        BY <2>1, <2>5, <3>2, QueueAppend DEF RegistryInv
      <4>2. disconnCh[i] \in Connections /\ conn[disconnCh[i]] = "closed"
        BY <4>1, ElementOfSeq DEF RegistryInv
      <4> QED
        BY <2>1, <4>1, <4>2 DEF RegistryInv
    <3> QED
      BY <3>1, <3>2
  <2>6. \A i \in DOMAIN newConnCh : conn'[newConnCh[i]] # "none"
    BY <2>3, ElementOfSeq DEF RegistryInv
  <2> QED
    BY <2>1, <2>2, <2>4, <2>5, <2>6 DEF RegistryInv
<1>3. CASE Register
  <2> PICK c : c = Head(newConnCh)
    OBVIOUS
  <2>1. newConnCh # <<>> /\ newConnCh' = Tail(newConnCh) /\ UNCHANGED <<disconnCh, conn>>
    BY <1>3 DEF Register
  <2>2. c \in Connections /\ conn[c] # "none" /\ newConnCh' \in Seq(Connections)
    BY <2>1, QueueTail DEF RegistryInv
  <2>3. PlayerID[c] \in PlayerIDs /\ Side[c] \in {"FREE_PEOPLES", "SHADOW"}
    BY <2>2, RoutingAssumption DEF PlayerIDs
  <2>4. DOMAIN lightClients' = PlayerIDs /\ DOMAIN darkClients' = PlayerIDs
    BY <1>3 DEF Register, RegistryInv
  <2>5. InMap(c)'
    <3>1. CASE Side[c] = "FREE_PEOPLES"
      BY <1>3, <2>3, <3>1 DEF Register, RegistryInv
    <3>2. CASE Side[c] = "SHADOW"
      BY <1>3, <2>3, <3>2 DEF Register, RegistryInv
    <3> QED
      BY <2>3, <3>1, <3>2
  <2>6. ASSUME NEW d \in Connections, d # c, NobodyElse(d), InMap(d)
        PROVE  InMap(d)'
    <3>1. PlayerID[d] \in PlayerIDs /\ Side[d] \in {"FREE_PEOPLES", "SHADOW"}
      BY RoutingAssumption DEF PlayerIDs
    <3>2. CASE PlayerID[d] # PlayerID[c]
      BY <1>3, <2>6, <3>1, <3>2 DEF Register, RegistryInv
    <3>3. CASE PlayerID[d] = PlayerID[c]
      <4>1. Side[c] # Side[d]
        BY <2>2, <2>6, <3>3 DEF NobodyElse
      <4> QED
        BY <1>3, <2>3, <2>6, <3>1, <4>1 DEF Register, RegistryInv
    <3> QED
      BY <3>2, <3>3
  <2>7. ASSUME NEW d \in Connections, conn'[d] = "open", NobodyElse(d)'
        PROVE  InMap(d)' \/ \E i \in DOMAIN newConnCh' : newConnCh'[i] = d
    <3>0. NobodyElse(d) /\ conn[d] = "open"
      BY <2>1, <2>7, NobodyBefore
    <3>1. CASE d = c
      BY <2>5, <3>1
    <3>2. CASE d # c /\ InMap(d)
      BY <2>6, <3>0, <3>2
    <3>3. CASE d # c /\ ~InMap(d)
      <4>1. PICK i \in DOMAIN newConnCh : newConnCh[i] = d
        BY <3>0, <3>3 DEF RegistryInv
      <4>2. i - 1 \in DOMAIN Tail(newConnCh) /\ Tail(newConnCh)[i - 1] = d
        BY <2>1, <3>3, <4>1, QueueTail DEF RegistryInv
      <4> QED
        BY <2>1, <4>2
    <3> QED
      BY <3>1, <3>2, <3>3
  <2>8. \A i \in DOMAIN newConnCh' : conn'[newConnCh'[i]] # "none"
    BY <2>1, QueueTail DEF RegistryInv
  <2> QED
    BY <2>1, <2>2, <2>4, <2>7, <2>8 DEF RegistryInv
<1>4. CASE Unregister
  <2> DEFINE c == Head(disconnCh)
  <2>1. /\ disconnCh # <<>> /\ disconnCh' = Tail(disconnCh) /\ UNCHANGED <<newConnCh, conn>>
        /\ lightClients' = [lightClients EXCEPT ![PlayerID[c]] = NoClient]
        /\ darkClients' = [darkClients EXCEPT ![PlayerID[c]] = NoClient]
    BY <1>4 DEF Unregister
  <2>2. c \in Connections /\ conn[c] = "closed" /\ disconnCh' \in Seq(Connections)
    BY <2>1, QueueTail DEF RegistryInv
  <2>3. DOMAIN lightClients' = PlayerIDs /\ DOMAIN darkClients' = PlayerIDs
    BY <2>1 DEF RegistryInv
  <2>4. ASSUME NEW d \in Connections, conn[d] = "open", NobodyElse(d), InMap(d)
        PROVE  InMap(d)'
    <3>1. PlayerID[d] # PlayerID[c] /\ PlayerID[d] \in PlayerIDs
      BY <2>2, <2>4 DEF PlayerIDs, NobodyElse
    <3> QED
      BY <2>1, <2>4, <3>1 DEF RegistryInv
  <2>5. ASSUME NEW d \in Connections, conn'[d] = "open", NobodyElse(d)'
        PROVE  InMap(d)' \/ \E i \in DOMAIN newConnCh' : newConnCh'[i] = d
    <3>1. NobodyElse(d) /\ conn[d] = "open"
      BY <2>1, <2>5, NobodyBefore
    <3> QED
      BY <2>1, <2>4, <3>1 DEF RegistryInv
  <2>6. /\ \A i \in DOMAIN newConnCh' : conn'[newConnCh'[i]] # "none"
        /\ \A i \in DOMAIN disconnCh' : conn'[disconnCh'[i]] = "closed"
    BY <2>1, QueueTail DEF RegistryInv
  <2> QED
    BY <2>1, <2>2, <2>3, <2>5, <2>6 DEF RegistryInv
<1>5. ASSUME UNCHANGED registry
      PROVE  RegistryInv'
  BY <1>5 DEF registry, RegistryInv, NobodyElse
<1>6. \/ \E c \in Connections : Connect(c) \/ Disconnect(c)
      \/ Register \/ Unregister \/ UNCHANGED registry
  BY DEF Next, Publish, Poll, Rebalance, Write, LightEvent, DarkEvent, vars
<1> QED
  BY <1>1, <1>2, <1>3, <1>4, <1>5, <1>6

(***************************************************************************)
(* An open request is in the map of its side as soon as Run has nothing    *)
(* more to do for connections, if the others under its identifier are of   *)
(* the other side and none of them has ended.                              *)
(***************************************************************************)
THEOREM TabsAreRegistered == Spec => []OpenIsRegistered
<1>1. Init => RegistryInv
  BY EmptySeq DEF Init, RegistryInv, NoClients
<1>2. RegistryInv /\ [Next]_vars => RegistryInv'
  BY RegistryNext
<1>3. RegistryInv => OpenIsRegistered
  BY DEF RegistryInv, OpenIsRegistered, InMap
<1> QED
  BY <1>1, <1>2, <1>3, PTL DEF Spec

----------------------------------------------------------------------------
(***************************************************************************)
(* Types: beside what the other invariants say, the sizes of the channels  *)
(* and what the maps of Run hold.                                          *)
(***************************************************************************)
Clients == [PlayerIDs -> Connections \cup {NoClient}]

ShapeInv ==
    /\ Len(lightSideSSECh) <= SideCap /\ Len(darkSideSSECh) <= SideCap
    /\ lightClients \in Clients /\ darkClients \in Clients
    /\ newConnCh \in Seq(Connections) /\ disconnCh \in Seq(Connections)
    /\ Len(newConnCh) <= ConnCap /\ Len(disconnCh) <= ConnCap
    /\ conn \in [Connections -> {"none", "open", "closed"}]
    /\ \A c \in Connections : Len(Ch[c]) <= ClientCap

\* what belongs to the connections are functions on them
TablesInv ==
    /\ Ch = [c \in Connections |-> Ch[c]] /\ last = [c \in Connections |-> last[c]]

LEMMA TablesInductive ==
    /\ Init => TablesInv
    /\ TablesInv /\ [Next]_vars => TablesInv'
<1>1. \A g, c, x : g = [d \in Connections |-> g[d]]
                    => [g EXCEPT ![c] = x] = [d \in Connections |-> [g EXCEPT ![c] = x][d]]
  OBVIOUS
<1>2. Init => TablesInv
  BY DEF Init, TablesInv
<1>3. ASSUME TablesInv, [Next]_vars PROVE TablesInv'
  <2>1. \/ UNCHANGED <<Ch, last>>
        \/ \E clients, e : Deliver(clients, e) /\ UNCHANGED last
        \/ \E c \in Connections : Write(c)
    BY <1>3 DEF Next, Publish, Poll, Rebalance, Connect, Disconnect, Register, Unregister, LightEvent,
                DarkEvent, vars
  <2>2. CASE UNCHANGED <<Ch, last>>
    BY <1>3, <2>2 DEF TablesInv
  <2>3. ASSUME NEW clients, NEW e, Deliver(clients, e), UNCHANGED last PROVE TablesInv'
    BY <1>3, <2>3 DEF Deliver, TablesInv
  <2>4. ASSUME NEW c \in Connections, Write(c) PROVE TablesInv'
    <3>1. /\ \E x : Ch' = [Ch EXCEPT ![c] = x]
          /\ \E y : last' = [last EXCEPT ![c] = y]
      BY <2>4 DEF Write
    <3> QED
      BY <1>1, <1>3, <3>1 DEF TablesInv
  <2> QED
    BY <2>1, <2>2, <2>3, <2>4
<1> QED
  BY <1>2, <1>3

LEMMA LongerBy ==
  ASSUME NEW S, NEW q \in Seq(S), NEW x, NEW cap \in Nat, Len(q) < cap
  PROVE  Len(Append(q, x)) <= cap
<1>1. q \in Seq(S \cup {x}) /\ x \in S \cup {x}
  OBVIOUS
<1>2. Len(Append(q, x)) = Len(q) + 1 /\ Len(q) \in Nat
  BY <1>1, AppendProperties, LenProperties
<1> QED
  BY <1>2

LEMMA ShorterBy ==
  ASSUME NEW S, NEW q \in Seq(S), q # <<>>, NEW cap \in Nat, Len(q) <= cap
  PROVE  Len(Tail(q)) <= cap
  BY HeadTailProperties, LenProperties

LEMMA SendFits ==
  ASSUME NEW S, NEW q \in Seq(S), NEW e, NEW cap \in Nat, Len(q) <= cap
  PROVE  Len(Send(q, e, cap)) <= cap
  BY LongerBy DEF Send

LEMMA DeliverFits ==
  ASSUME SecretInv, ShapeInv, NEW clients, NEW e, Deliver(clients, e)
  PROVE  \A c \in Connections : Len(Ch'[c]) <= ClientCap
<1> SUFFICES ASSUME NEW c \in Connections PROVE Len(Ch'[c]) <= ClientCap
  OBVIOUS
<1>1. Ch[c] \in Seq(Payload) /\ Len(Ch[c]) <= ClientCap /\ ClientCap \in Nat
  BY Typed, RoutingAssumption DEF ShapeInv
<1>2. Len(Send(Ch[c], e, ClientCap)) <= ClientCap
  BY <1>1, SendFits
<1> QED
  BY <1>1, <1>2 DEF Deliver

LEMMA ShapeEvents ==
  ASSUME SecretInv, ShapeInv, (\E s \in Streams : Poll(s)) \/ LightEvent \/ DarkEvent
  PROVE  ShapeInv'
<1>1. /\ lightSideSSECh \in Seq(Payload) /\ Len(lightSideSSECh) <= SideCap
      /\ darkSideSSECh \in Seq(Payload) /\ Len(darkSideSSECh) <= SideCap /\ SideCap \in Nat
  BY Typed, RoutingAssumption DEF ShapeInv
<1>2. ASSUME NEW s \in Streams, Poll(s) PROVE ShapeInv'
  <2>1. \A e : /\ Len(Send(lightSideSSECh, e, SideCap)) <= SideCap
               /\ Len(Send(darkSideSSECh, e, SideCap)) <= SideCap
    BY <1>1, SendFits
  <2>2. Len(lightSideSSECh') <= SideCap /\ Len(darkSideSSECh') <= SideCap
    BY <1>1, <1>2, <2>1 DEF Poll, RouteEvent
  <2> QED
    BY <1>2, <2>2 DEF Poll, ShapeInv, registry
<1>3. CASE LightEvent
  <2>1. Len(lightSideSSECh') <= SideCap
    BY <1>1, <1>3, ShorterBy DEF LightEvent
  <2>2. \A c \in Connections : Len(Ch'[c]) <= ClientCap
    BY <1>3, DeliverFits DEF LightEvent
  <2> QED
    BY <1>3, <2>1, <2>2 DEF LightEvent, ShapeInv, registry
<1>4. CASE DarkEvent
  <2>1. Len(darkSideSSECh') <= SideCap
    BY <1>1, <1>4, ShorterBy DEF DarkEvent
  <2>2. \A c \in Connections : Len(Ch'[c]) <= ClientCap
    BY <1>4, DeliverFits DEF DarkEvent
  <2> QED
    BY <1>4, <2>1, <2>2 DEF DarkEvent, ShapeInv, registry
<1> QED
  BY <1>2, <1>3, <1>4

LEMMA ShapeConnections ==
  ASSUME SecretInv, ShapeInv,
         (\E c \in Connections : Connect(c) \/ Write(c) \/ Disconnect(c))
           \/ Register \/ Unregister
  PROVE  ShapeInv'
<1>1. ASSUME NEW c \in Connections, Connect(c) PROVE ShapeInv'
  <2>1. newConnCh' \in Seq(Connections) /\ Len(newConnCh') <= ConnCap
    BY <1>1, LongerBy, AppendProperties, RoutingAssumption DEF Connect, ShapeInv
  <2>2. conn' \in [Connections -> {"none", "open", "closed"}]
    BY <1>1 DEF Connect, ShapeInv
  <2> QED
    BY <1>1, <2>1, <2>2 DEF Connect, ShapeInv, sides
<1>2. ASSUME NEW c \in Connections, Disconnect(c) PROVE ShapeInv'
  <2>1. disconnCh' \in Seq(Connections) /\ Len(disconnCh') <= ConnCap
    BY <1>2, LongerBy, AppendProperties, RoutingAssumption DEF Disconnect, ShapeInv
  <2>2. conn' \in [Connections -> {"none", "open", "closed"}]
    BY <1>2 DEF Disconnect, ShapeInv
  <2> QED
    BY <1>2, <2>1, <2>2 DEF Disconnect, ShapeInv, sides
<1>3. ASSUME NEW c \in Connections, Write(c) PROVE ShapeInv'
  <2>1. Ch[c] \in Seq(Payload) /\ Len(Ch[c]) <= ClientCap
    BY Typed DEF ShapeInv
  <2>2. Len(Tail(Ch[c])) <= ClientCap
    BY <1>3, <2>1, ShorterBy, RoutingAssumption DEF Write
  <2>3. \A d \in Connections : Len(Ch'[d]) <= ClientCap
    BY <1>3, <2>2 DEF Write, SecretInv, ShapeInv
  <2> QED
    BY <1>3, <2>3 DEF Write, ShapeInv, sides, registry
<1>4. CASE Register
  <2> DEFINE c == Head(newConnCh)
  <2>1. newConnCh' \in Seq(Connections) /\ c \in Connections
    BY <1>4, HeadTailProperties DEF Register, ShapeInv
  <2>2. Len(newConnCh') <= ConnCap
    BY <1>4, ShorterBy, RoutingAssumption DEF Register, ShapeInv
  <2>3. lightClients' \in Clients /\ darkClients' \in Clients
    BY <1>4, <2>1 DEF Register, ShapeInv, Clients
  <2> QED
    BY <1>4, <2>1, <2>2, <2>3 DEF Register, ShapeInv, sides
<1>5. CASE Unregister
  <2>1. disconnCh' \in Seq(Connections)
    BY <1>5, HeadTailProperties DEF Unregister, ShapeInv
  <2>2. Len(disconnCh') <= ConnCap
    BY <1>5, ShorterBy, RoutingAssumption DEF Unregister, ShapeInv
  <2>3. lightClients' \in Clients /\ darkClients' \in Clients
    BY <1>5 DEF Unregister, ShapeInv, Clients
  <2> QED
    BY <1>5, <2>1, <2>2, <2>3 DEF Unregister, ShapeInv, sides
<1> QED
  BY <1>1, <1>2, <1>3, <1>4, <1>5

(***************************************************************************)
(* No channel of the event path grows over its capacity, whatever is       *)
(* published and whoever connects, and the maps of Run hold connections.   *)
(***************************************************************************)
THEOREM EventTypes == Spec => []TypeOK
<1>1. Init => ShapeInv
  BY EmptySeq, RoutingAssumption DEF Init, ShapeInv, Clients, NoClients
<1>2. SecretInv /\ ShapeInv /\ [Next]_vars => ShapeInv'
  <2> SUFFICES ASSUME SecretInv, ShapeInv, [Next]_vars PROVE ShapeInv'
    OBVIOUS
  <2>1. CASE (\E s \in Streams : \E shows \in Shows(TopicOf[s]) : Publish(s, shows))
               \/ Rebalance \/ UNCHANGED vars
    BY <2>1 DEF Publish, Rebalance, vars, sides, registry, ShapeInv
  <2> QED
    BY <2>1, ShapeEvents, ShapeConnections DEF Next
<1>3. OrderInv /\ ShapeInv /\ TablesInv => TypeOK
  <2> SUFFICES ASSUME OrderInv, ShapeInv, TablesInv PROVE TypeOK
    OBVIOUS
  <2>1. SecretInv /\ published \in 0..MaxEvents
    BY DEF OrderInv, SecretInv
  <2>2. \A c \in Connections : last[c] \in [Streams -> Mark]
    BY DEF OrderInv, ClientInv
  <2>3. Ch \in [Connections -> Seq(Payload)]
    BY <2>1, Typed DEF TablesInv
  <2>4. last \in [Connections -> [Streams -> Mark]]
    BY <2>2 DEF TablesInv
  <2>5. lightSideSSECh \in Seq(Payload) /\ darkSideSSECh \in Seq(Payload)
    BY <2>1, Typed
  <2> QED
    BY <2>1, <2>3, <2>4, <2>5 DEF TypeOK, ShapeInv, Clients, SecretInv
<1> QED
  BY <1>1, <1>2, <1>3, SecretInit, SecretNext, OrderInvariant, TablesInductive, PTL DEF Spec, OrderInv
=============================================================================
