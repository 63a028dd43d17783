---------------------------- MODULE EventRouting ----------------------------
(***************************************************************************)
(* From the event topics to the browsers.  The event consumer of an        *)
(* instance gives every event to RouteEvent, which sends it on the channel *)
(* of a side or of both; the Run goroutine hands what is on those channels *)
(* to the clients it has registered; each SSE connection writes what is in *)
(* its own channel.  No send waits: what does not fit is dropped.          *)
(*                                                                         *)
(* An event is told apart by its topic, by its place in its stream and by  *)
(* whether it shows where the Ring Bearer is.  A stream is a partition of  *)
(* a topic, the only thing within which Kafka keeps an order.  The group   *)
(* of an instance may be rebalanced, and then it reads a stream again from *)
(* the offset the client committed by itself, or from its end.  The two    *)
(* cases of Run that do nothing (cacheUpdateCh and analysisCh, on which    *)
(* nobody sends), its shutdown and the end of the consumer's goroutine on  *)
(* a fatal error of the client are left out.                               *)
(***************************************************************************)
EXTENDS Integers, Sequences

CONSTANTS
    Streams, TopicOf,       \* TopicOf[s], the topic of the stream s
    Connections,            \* the requests GET /events, each made at most once
    PlayerID, Side,         \* PlayerID[c] and Side[c], the query of request c
    SideCap,                \* the capacity of lightSideSSECh and darkSideSSECh
    ClientCap,              \* the capacity of a client's Ch
    ConnCap,                \* the capacity of newConnCh and disconnCh
    MaxEvents,              \* bound: how many events are ever published
    MaxRebalances,          \* bound: how often the group is rebalanced
    NoClient                \* a model value, for no client under an identifier

BothSides == {"game.events.unit", "game.events.region", "game.events.path"}
Topics == BothSides \cup {"game.broadcast", "game.ring.position", "game.ring.detection"}

ASSUME RoutingAssumption ==
    /\ TopicOf \in [Streams -> Topics]
    /\ DOMAIN PlayerID = Connections
    /\ Side \in [Connections -> {"FREE_PEOPLES", "SHADOW"}]
    /\ SideCap \in Nat \ {0} /\ ClientCap \in Nat \ {0} /\ ConnCap \in Nat \ {0}
    /\ MaxEvents \in Nat /\ MaxRebalances \in Nat /\ NoClient \notin Connections

PlayerIDs == {PlayerID[c] : c \in Connections}

Event == [stream : Streams, id : 1..MaxEvents, shows : BOOLEAN]

\* What the consumer hands on: an event, whether RouteEvent can parse it, and in
\* which era it was polled, the number of rebalances before.
Payload == [stream : Streams, id : 1..MaxEvents, shows : BOOLEAN,
            readable : BOOLEAN, era : 0..MaxRebalances]

\* Of an event written to a browser, its place in what the consumer polled.
Mark == [era : 0..MaxRebalances, id : 0..MaxEvents]

VARIABLES
    published,      \* the number of events published
    log,            \* log[s], the events of stream s
    position,       \* position[s], how many of log[s] are behind the consumer
    committed,      \* committed[s], the offset last committed; 0 before any is
    rebalances,     \* how often the partitions were revoked and assigned
    lightSideSSECh, darkSideSSECh,
    lightClients,   \* lightClients[id], the connection registered, NoClient for none
    darkClients,
    newConnCh, disconnCh,
    conn,           \* conn[c], where the request c is: "none", "open" or "closed"
    Ch,             \* Ch[c], the client's own channel
    last            \* last[c][s], the mark of the last event of s written to c

sides == <<lightSideSSECh, darkSideSSECh>>
registry == <<lightClients, darkClients, newConnCh, disconnCh, conn>>
consumer == <<position, committed, rebalances>>
vars == <<published, log, consumer, sides, registry, Ch, last>>

NoClients == [id \in PlayerIDs |-> NoClient]

Init ==
    /\ published = 0 /\ log = [s \in Streams |-> <<>>]
    /\ position = [s \in Streams |-> 0] /\ committed = [s \in Streams |-> 0] /\ rebalances = 0
    /\ lightSideSSECh = <<>> /\ darkSideSSECh = <<>>
    /\ lightClients = NoClients /\ darkClients = NoClients
    /\ newConnCh = <<>> /\ disconnCh = <<>>
    /\ conn = [c \in Connections |-> "none"]
    /\ Ch = [c \in Connections |-> <<>>]
    /\ last = [c \in Connections |-> [s \in Streams |-> [era |-> 0, id |-> 0]]]

----------------------------------------------------------------------------
(***************************************************************************)
(* What the engine puts on a topic, as far as the Ring Bearer may be seen  *)
(* in it.  A snapshot shows it, GameOver and GameReset do not;             *)
(* RingBearerMoved and RingBearerDetected tell its region and              *)
(* RingBearerSpotted its path; game.events.unit has a copy of              *)
(* RingBearerDetected and the UnitMoved of every unit, and nobody tells    *)
(* its events apart.                                                       *)
(***************************************************************************)
Shows(topic) ==
    CASE topic \in {"game.ring.position", "game.ring.detection", "game.events.unit"} -> {TRUE}
      [] topic = "game.broadcast" -> BOOLEAN
      [] OTHER -> {FALSE}

\* Events of one topic without a key go to any of its partitions.
Publish(s, shows) ==
    /\ published < MaxEvents /\ published' = published + 1
    /\ log' = [log EXCEPT ![s] =
                 Append(@, [stream |-> s, id |-> published + 1, shows |-> shows])]
    /\ UNCHANGED <<consumer, sides, registry, Ch, last>>

\* mutant: a queue without a bound
SendAlways(ch, e, cap) == Append(ch, e)

\* select { case ch <- e: default: }
Send(ch, e, cap) == IF Len(ch) < cap THEN Append(ch, e) ELSE ch

\* stripRingBearer: what it cannot parse it returns as it is.
Strip(e) == IF e.readable THEN [e EXCEPT !.shows = FALSE] ELSE e

\* mutant: one payload for both sides
RouteUnstripped(e) ==
    LET topic == TopicOf[e.stream]
    IN  /\ lightSideSSECh' = IF topic = "game.ring.detection" THEN lightSideSSECh
                             ELSE Send(lightSideSSECh, e, SideCap)
        /\ darkSideSSECh' = IF topic = "game.ring.position" THEN darkSideSSECh
                            ELSE Send(darkSideSSECh, e, SideCap)

(***************************************************************************)
(* RouteEvent, the one place where it is decided who sees what.            *)
(***************************************************************************)
RouteEvent(e) ==
    \/ /\ TopicOf[e.stream] = "game.ring.position"
       /\ lightSideSSECh' = Send(lightSideSSECh, e, SideCap) /\ UNCHANGED darkSideSSECh
    \/ /\ TopicOf[e.stream] = "game.ring.detection"
       /\ darkSideSSECh' = Send(darkSideSSECh, e, SideCap) /\ UNCHANGED lightSideSSECh
    \/ /\ TopicOf[e.stream] = "game.broadcast"
       /\ lightSideSSECh' = Send(lightSideSSECh, e, SideCap)
       /\ darkSideSSECh' = Send(darkSideSSECh, Strip(e), SideCap)
    \/ /\ TopicOf[e.stream] \in BothSides
       /\ lightSideSSECh' = Send(lightSideSSECh, e, SideCap)
       /\ darkSideSSECh' = Send(darkSideSSECh, e, SideCap)

(***************************************************************************)
(* EventConsumer.Start: one event is polled and routed.  Where Avro fails  *)
(* the payload goes on as it came, and cannot be parsed; nobody but        *)
(* stripRingBearer tries.  The offset is committed in the background, so   *)
(* before the next poll it either has been or has not.                     *)
(***************************************************************************)
Poll(s) ==
    /\ position[s] < Len(log[s]) /\ position' = [position EXCEPT ![s] = @ + 1]
    /\ \/ UNCHANGED committed
       \/ /\ rebalances < MaxRebalances   \* bound: no later assignment reads it
          /\ committed' = [committed EXCEPT ![s] = position[s] + 1]
    /\ \E readable \in IF TopicOf[s] = "game.broadcast" THEN BOOLEAN ELSE {TRUE} :
         LET e == log[s][position[s] + 1]
         IN  RouteEvent([stream |-> s, id |-> e.id, shows |-> e.shows,
                         readable |-> readable, era |-> rebalances])
    /\ UNCHANGED <<published, log, rebalances, registry, Ch, last>>

\* The partitions are revoked and assigned again (auto.offset.reset is latest).
Rebalance ==
    /\ rebalances < MaxRebalances /\ rebalances' = rebalances + 1
    /\ position' = [s \in Streams |-> IF committed[s] = 0 THEN Len(log[s]) ELSE committed[s]]
    /\ UNCHANGED <<published, log, committed, sides, registry, Ch, last>>

----------------------------------------------------------------------------
(***************************************************************************)
(* An SSE connection (ServeSSE).  The select takes any case that is ready, *)
(* so a connection may end with events in its channel; and the browser may *)
(* make its next request before the server sees the end of the last one.   *)
(***************************************************************************)
Connect(c) ==
    /\ conn[c] = "none" /\ Len(newConnCh) < ConnCap
    /\ conn' = [conn EXCEPT ![c] = "open"] /\ newConnCh' = Append(newConnCh, c)
    /\ UNCHANGED <<published, log, consumer, sides, lightClients, darkClients, disconnCh, Ch, last>>

Write(c) ==
    /\ conn[c] = "open" /\ Ch[c] # <<>> /\ Ch' = [Ch EXCEPT ![c] = Tail(@)]
    /\ last' = [last EXCEPT ![c][Head(Ch[c]).stream] =
                              [era |-> Head(Ch[c]).era, id |-> Head(Ch[c]).id]]
    /\ UNCHANGED <<published, log, consumer, sides, registry>>

Disconnect(c) ==
    /\ conn[c] = "open" /\ Len(disconnCh) < ConnCap
    /\ conn' = [conn EXCEPT ![c] = "closed"] /\ disconnCh' = Append(disconnCh, c)
    /\ UNCHANGED <<published, log, consumer, sides, lightClients, darkClients, newConnCh, Ch, last>>

----------------------------------------------------------------------------
(***************************************************************************)
(* Run: one action for each case of its select.                            *)
(***************************************************************************)
\* mutant: an identifier is of one side at a time
RegisterOnOneSide ==
    /\ newConnCh # <<>> /\ newConnCh' = Tail(newConnCh)
    /\ LET c == Head(newConnCh) IN
         IF Side[c] = "SHADOW"
         THEN /\ darkClients' = [darkClients EXCEPT ![PlayerID[c]] = c]
              /\ lightClients' = [lightClients EXCEPT ![PlayerID[c]] = NoClient]
         ELSE /\ lightClients' = [lightClients EXCEPT ![PlayerID[c]] = c]
              /\ darkClients' = [darkClients EXCEPT ![PlayerID[c]] = NoClient]
    /\ UNCHANGED <<published, log, consumer, sides, disconnCh, conn, Ch, last>>

Register ==
    /\ newConnCh # <<>> /\ newConnCh' = Tail(newConnCh)
    /\ LET c == Head(newConnCh) IN
         \/ /\ Side[c] = "FREE_PEOPLES" /\ UNCHANGED darkClients
            /\ lightClients' = [lightClients EXCEPT ![PlayerID[c]] = c]
         \/ /\ Side[c] = "SHADOW" /\ UNCHANGED lightClients
            /\ darkClients' = [darkClients EXCEPT ![PlayerID[c]] = c]
    /\ UNCHANGED <<published, log, consumer, sides, disconnCh, conn, Ch, last>>

\* whoever is registered under the identifier goes, on both sides
Unregister ==
    /\ disconnCh # <<>> /\ disconnCh' = Tail(disconnCh)
    /\ lightClients' = [lightClients EXCEPT ![PlayerID[Head(disconnCh)]] = NoClient]
    /\ darkClients' = [darkClients EXCEPT ![PlayerID[Head(disconnCh)]] = NoClient]
    /\ UNCHANGED <<published, log, consumer, sides, newConnCh, conn, Ch, last>>

Registered(clients, c) == clients[PlayerID[c]] = c

\* mutant: a client that has no room is waited for
DeliverToAll(clients, e) ==
    /\ \A c \in Connections : Registered(clients, c) => Len(Ch[c]) < ClientCap
    /\ Ch' = [c \in Connections |->
                IF Registered(clients, c) THEN Append(Ch[c], e) ELSE Ch[c]]

Deliver(clients, e) ==
    Ch' = [c \in Connections |->
             IF Registered(clients, c) THEN Send(Ch[c], e, ClientCap) ELSE Ch[c]]

\* mutant: an event stays in the channel until a client has had room for it
LightEventAgain ==
    /\ lightSideSSECh # <<>>
    /\ IF \E c \in Connections : Registered(lightClients, c)
       THEN UNCHANGED lightSideSSECh ELSE lightSideSSECh' = Tail(lightSideSSECh)
    /\ Deliver(lightClients, Head(lightSideSSECh))
    /\ UNCHANGED <<published, log, consumer, darkSideSSECh, registry, last>>

LightEvent ==
    /\ lightSideSSECh # <<>> /\ lightSideSSECh' = Tail(lightSideSSECh)
    /\ Deliver(lightClients, Head(lightSideSSECh))
    /\ UNCHANGED <<published, log, consumer, darkSideSSECh, registry, last>>

DarkEvent ==
    /\ darkSideSSECh # <<>> /\ darkSideSSECh' = Tail(darkSideSSECh)
    /\ Deliver(darkClients, Head(darkSideSSECh))
    /\ UNCHANGED <<published, log, consumer, lightSideSSECh, registry, last>>

----------------------------------------------------------------------------
Next ==
    \/ \E s \in Streams : \E shows \in Shows(TopicOf[s]) : Publish(s, shows)
    \/ (\E s \in Streams : Poll(s)) \/ Rebalance
    \/ \E c \in Connections : Connect(c) \/ Write(c) \/ Disconnect(c)
    \/ Register \/ Unregister \/ LightEvent \/ DarkEvent

Spec == Init /\ [][Next]_vars

(***************************************************************************)
(* Fairness: the consumer polls, and Run takes a case of its select that   *)
(* stays ready (one that is ready stays so until it is taken, and a select *)
(* picks among the ready ones at random).  Nothing is assumed of browsers: *)
(* a connection may hang in a write for ever.                              *)
(***************************************************************************)
FairSpec ==
    /\ Spec /\ WF_vars(\E s \in Streams : Poll(s))
    /\ WF_vars(Register) /\ WF_vars(Unregister) /\ WF_vars(LightEvent) /\ WF_vars(DarkEvent)
=============================================================================
