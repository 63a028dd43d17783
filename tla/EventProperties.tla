-------------------------- MODULE EventProperties --------------------------
(***************************************************************************)
(* What the browsers of the two sides may rely on.                         *)
(***************************************************************************)
EXTENDS EventRouting

TypeOK ==
    /\ published \in 0..MaxEvents /\ log \in [Streams -> Seq(Event)]
    /\ rebalances \in 0..MaxRebalances
    /\ DOMAIN position = Streams /\ DOMAIN committed = Streams
    /\ \A s \in Streams : position[s] \in 0..Len(log[s]) /\ committed[s] \in 0..Len(log[s])
    /\ lightSideSSECh \in Seq(Payload) /\ Len(lightSideSSECh) <= SideCap
    /\ darkSideSSECh \in Seq(Payload) /\ Len(darkSideSSECh) <= SideCap
    /\ lightClients \in [PlayerIDs -> Connections \cup {NoClient}]
    /\ darkClients \in [PlayerIDs -> Connections \cup {NoClient}]
    /\ newConnCh \in Seq(Connections) /\ disconnCh \in Seq(Connections)
    /\ Len(newConnCh) <= ConnCap /\ Len(disconnCh) <= ConnCap
    /\ conn \in [Connections -> {"none", "open", "closed"}]
    /\ Ch \in [Connections -> Seq(Payload)] /\ \A c \in Connections : Len(Ch[c]) <= ClientCap
    /\ last \in [Connections -> [Streams -> Mark]]

InCh(c) == {Ch[c][i] : i \in DOMAIN Ch[c]}

(***************************************************************************)
(* By its topic, a browser of the Dark Side is handed no event of          *)
(* game.ring.position and no snapshot of game.broadcast that shows the     *)
(* Ring Bearer, if RouteEvent could parse it; one of the Light Side gets   *)
(* none of game.ring.detection: whatever connects, leaves and comes back   *)
(* under whatever identifier while events are on their way.  It says       *)
(* nothing of what both sides get: a snapshot that could not be parsed is  *)
(* not stripped, and on game.events.unit go the Ring Bearer's UnitMoved    *)
(* and a second copy of RingBearerDetected.                                *)
(***************************************************************************)
EachSideItsOwn ==
    \A c \in Connections : \A e \in InCh(c) :
      IF Side[c] = "SHADOW"
      THEN /\ TopicOf[e.stream] # "game.ring.position"
           /\ TopicOf[e.stream] = "game.broadcast" /\ e.readable => ~e.shows
      ELSE TopicOf[e.stream] # "game.ring.detection"

\* a was polled before b, or is an event earlier in their stream polled in one era
Earlier(a, b) == a.era < b.era \/ (a.era = b.era /\ a.id < b.id)

(***************************************************************************)
(* Between two rebalances of the consumer's group, a browser gets the      *)
(* events of a stream in the order they were published in and each at most *)
(* once, though any of the three channels on the way may drop some.  Only  *)
(* a rebalance sends it back, and what is polled afterwards never overtakes*)
(* what was polled before and is still on its way.                         *)
(***************************************************************************)
DeliveredInOrder ==
    [][\A c \in Connections :
         Write(c) => Earlier(last[c][Head(Ch[c]).stream], Head(Ch[c]))]_vars

ClientsOf(side) == IF side = "SHADOW" THEN darkClients ELSE lightClients

\* no other request under the identifier of c has ended or is of its side
NobodyElse(c) ==
    \A d \in Connections \ {c} :
      PlayerID[d] = PlayerID[c] => conn[d] = "none" \/ (conn[d] = "open" /\ Side[d] # Side[c])

(***************************************************************************)
(* When Run has nothing left to do for connections, an open one is         *)
(* registered with its side, and so gets its events, whoever else comes    *)
(* and leaves, if the others under its identifier are of the other side    *)
(* and still there.  (One that leaves takes the identifier out of both     *)
(* maps, and one of the same side takes its place.)                        *)
(***************************************************************************)
OpenIsRegistered ==
    \A c \in Connections :
      conn[c] = "open" /\ newConnCh = <<>> /\ disconnCh = <<>> /\ NobodyElse(c)
      => Registered(ClientsOf(Side[c]), c)

Backlog ==
    \/ \E s \in Streams : position[s] < Len(log[s])
    \/ lightSideSSECh # <<>> \/ darkSideSSECh # <<>>

(***************************************************************************)
(* A browser that stops reading holds nobody up: what is published is      *)
(* routed, and what is routed leaves the channel of its side, if every     *)
(* connection hangs for ever and the group is rebalanced on the way.       *)
(***************************************************************************)
NobodyWaits == Backlog ~> ~Backlog

=============================================================================
