---------------------------- MODULE OrderIntake ----------------------------
(***************************************************************************)
(* How an order reaches the engine.  An HTTP handler queues it in          *)
(* kafkaOrderCh; a goroutine of main publishes it on game.orders.raw; the  *)
(* order consumer validates it against the published cache and, some time  *)
(* later, sends it on the engine channel, which it shares with nobody; the *)
(* engine takes it when it is between two turns.  This module composes     *)
(* those goroutines with the engine of TurnProcessor.                      *)
(*                                                                         *)
(* Without a Kafka producer (WithKafka = FALSE) main sends the orders      *)
(* straight to the engine.  The module is about one instance of several    *)
(* that share a consumer group; what the others take out of the topic goes *)
(* to their own engines.  The dead letter topic, which nobody reads, is    *)
(* left out.                                                               *)
(***************************************************************************)
EXTENDS TurnProcessor

CONSTANTS
    Players,        \* player identifiers
    PlayerSide,     \* PlayerSide[p], the side that p's identifier begins with
    Submissions,    \* Submissions[u], what players may send under the name u
    Requests,       \* which of the handlers for SystemTypes are called
    NotAString,     \* an element of pathIds that is no string
    Partitions,     \* of game.orders.raw
    PartitionOf,    \* PartitionOf[k], where the messages with key k go
    WithKafka,      \* main has a producer
    HttpCap,        \* the capacity of kafkaOrderCh
    EngineCap,      \* the capacity of engineCh
    MaxSent,        \* bound: how many requests are ever accepted
    MaxRebalances   \* bound: how often the consumer loses its partitions

SystemTypes == {"START_GAME", "RESET_GAME"}

\* "system", the unit in what the handlers send, also stands for any unknown unit
Keys == Units \cup {"system"}

\* what fits into a request of a player: nothing is checked on this side
Sendable == [type : OrderTypes \cup SystemTypes, path : Paths \cup {""},
             region : Regions \cup {""}, route : Routes \cup {<<NotAString>>}]

SystemOrder(type) == [NoOrder EXCEPT !.type = type]

ASSUME IntakeAssumption ==
    /\ PlayerSide \in [Players -> Sides] /\ "system" \notin Players \cup Units
    /\ Submissions \in [Keys -> SUBSET Sendable] /\ Requests \subseteq SystemTypes
    /\ NotAString \notin Paths
    /\ PartitionOf \in [Keys -> Partitions] /\ WithKafka \in BOOLEAN
    /\ HttpCap \in Nat \ {0} /\ EngineCap \in Nat \ {0}
    /\ MaxSent \in Nat /\ MaxRebalances \in Nat

VARIABLES
    sent,           \* the number of requests accepted
    kafkaOrderCh,   \* from the HTTP handlers to the publishing goroutine
    raw,            \* game.orders.raw, a queue for each partition
    assigned,       \* the partitions this instance reads
    handled,        \* what the group has handled and may not have committed
    rebalances,     \* how often the partitions were distributed again
    seenUnits,      \* OrderProcessor: the units that gave an order this turn
    currentTurn,    \* OrderProcessor: the turn of the last order processed
    asked,          \* auxiliary: the units under whose name a start or reset came
    validated,      \* the order the consumer is about to send, if any
    crashed,        \* the process has panicked
    engineCh        \* the validated orders waiting for the engine

offsets == <<assigned, handled, rebalances>>
memory == <<seenUnits, currentTurn, asked>>
processor == <<memory, validated, crashed>>
intake == <<sent, kafkaOrderCh, raw, offsets, processor, engineCh>>
all == <<vars, intake>>

\* game.Order: the type is that of the order inside
Message == [player : Players \cup {"system"}, unit : Keys, turn : 1..MaxTurns,
            order : Sendable]

NoMessage == [unit |-> ""]

IntakeInit ==
    /\ Init
    /\ sent = 0 /\ kafkaOrderCh = <<>> /\ engineCh = <<>>
    /\ raw = [n \in Partitions |-> <<>>] /\ handled = raw
    /\ assigned \in SUBSET Partitions /\ rebalances = 0
    /\ seenUnits = {} /\ currentTurn = 0 /\ asked = {}
    /\ validated = NoMessage /\ crashed = FALSE

----------------------------------------------------------------------------
(***************************************************************************)
(* The HTTP handlers.  A full channel is answered with 503 and changes     *)
(* nothing.  Start and reset carry the turn of the cache.  POST /order     *)
(* takes whatever it is given: any type, START_GAME and RESET_GAME         *)
(* included, under any unit's name, with the turn the browser believes in. *)
(***************************************************************************)
Accept(m) ==
    /\ sent < MaxSent /\ Len(kafkaOrderCh) < HttpCap
    /\ sent' = sent + 1 /\ kafkaOrderCh' = Append(kafkaOrderCh, m)
    /\ UNCHANGED <<vars, raw, offsets, processor, engineCh>>

SubmitOrder(p, u, turn, o) ==
    Accept([player |-> p, unit |-> u, turn |-> turn, order |-> o])

SubmitToSystem(type) ==
    Accept([player |-> "system", unit |-> "system", turn |-> cache.turn,
            order |-> SystemOrder(type)])

(***************************************************************************)
(* main's goroutine from kafkaOrderCh to the topic, keyed by the unit.     *)
(* An error of the producer is not looked at: the order is gone.  Without  *)
(* a producer the order is sent on the engine channel, once there is room. *)
(***************************************************************************)
Publish ==
    /\ kafkaOrderCh # <<>> /\ kafkaOrderCh' = Tail(kafkaOrderCh)
    /\ LET m == Head(kafkaOrderCh) IN
         \/ /\ WithKafka
            /\ raw' = [raw EXCEPT ![PartitionOf[m.unit]] = Append(@, m)] /\ UNCHANGED engineCh
         \/ WithKafka /\ UNCHANGED <<raw, engineCh>>
         \/ /\ ~WithKafka /\ Len(engineCh) < EngineCap
            /\ engineCh' = Append(engineCh, m) /\ UNCHANGED raw
    /\ UNCHANGED <<vars, sent, offsets, processor>>

----------------------------------------------------------------------------
(***************************************************************************)
(* OrderValidator.Validate: one operator for each of its rules, about the  *)
(* published cache.                                                        *)
(***************************************************************************)
Unit(m) == cache.units[m.unit]

MatchesPlayer(m) == PlayerSide[m.player] = Config[m.unit].side

\* only for the Ring Bearer, whatever the order
WalkableRoute(m) ==
    IsRingBearer(m.unit) =>
      \A i \in DOMAIN m.order.route :
        m.order.route[i] \in Paths /\ cache.paths[m.order.route[i]].status # "BLOCKED"

AtPath(m) ==
    m.order.type \in {"BLOCK_PATH", "SEARCH_PATH"} =>
      m.order.path \in Paths /\ IsEndpointRegion(m.order.path, Unit(m).region)

\* not across a blocked path
AttacksNeighbour(m) ==
    m.order.type = "ATTACK_REGION" =>
      \E p \in Paths : /\ cache.paths[p].status # "BLOCKED"
                       /\ {Unit(m).region, m.order.region} = {Ends[p].from, Ends[p].to}

AbilityReady(m) ==
    m.order.type = "MAIA_ABILITY" => Config[m.unit].isMaia /\ Unit(m).cooldown = 0

\* mutant: the rule asks where the Ring Bearer is and not who destroys the Ring
AnybodyAtSite(m) ==
    m.order.type = "DESTROY_RING" =>
      /\ RegionConfig[cache.lightRegion].specialRole = "RING_DESTRUCTION_SITE"
      /\ ~\E u \in Units : /\ cache.units[u].region = cache.lightRegion
                           /\ cache.units[u].status = "ACTIVE" /\ Config[u].side = "SHADOW"

AtDestructionSite(m) ==
    m.order.type = "DESTROY_RING" =>
      /\ IsRingBearer(m.unit)
      /\ RegionConfig[cache.lightRegion].specialRole = "RING_DESTRUCTION_SITE"
      /\ ~\E u \in Units : /\ cache.units[u].region = cache.lightRegion
                           /\ cache.units[u].status = "ACTIVE" /\ Config[u].side = "SHADOW"

Addressed(m, seen) == m.unit \in Units \ seen /\ m.turn = cache.turn

\* mutant: players may order any unit
ValidateAnyPlayer(m, seen) ==
    \/ m.order.type \in SystemTypes
    \/ /\ Addressed(m, seen) /\ WalkableRoute(m) /\ AtPath(m)
       /\ AttacksNeighbour(m) /\ AbilityReady(m) /\ AtDestructionSite(m)

Validate(m, seen) ==
    \/ m.order.type \in SystemTypes
    \/ /\ Addressed(m, seen) /\ MatchesPlayer(m) /\ WalkableRoute(m) /\ AtPath(m)
       /\ AttacksNeighbour(m) /\ AbilityReady(m) /\ AtDestructionSite(m)

\* extractPathIDs asserts that every element is a string; it is called for the
\* Ring Bearer by Validate and for everything that is valid by Enrich
Panics(m, seen) ==
    /\ \E i \in DOMAIN m.order.route : m.order.route[i] = NotAString
    /\ \/ Validate(m, seen)
       \/ Addressed(m, seen) /\ MatchesPlayer(m) /\ IsRingBearer(m.unit)

\* the next message of a partition; its offset is committed later, in the background
\* (what cannot be delivered again any more is not kept)
Take(n) ==
    /\ raw[n] # <<>> /\ raw' = [raw EXCEPT ![n] = Tail(@)]
    /\ handled' = IF rebalances < MaxRebalances
                  THEN [handled EXCEPT ![n] = Append(@, Head(raw[n]))] ELSE handled

\* an order of another turn than the last one makes the processor forget
Remembered(S, m) == IF m.turn = currentTurn THEN S ELSE {}

\* mutant: a unit counts as seen whether its order was valid or not
MarkThenValidate(n) ==
    /\ validated = NoMessage /\ n \in assigned /\ Take(n)
    /\ LET m == Head(raw[n])
           seen == Remembered(seenUnits, m)
       IN  /\ ~Panics(m, seen)
           /\ currentTurn' = m.turn /\ asked' = Remembered(asked, m)
           /\ seenUnits' = seen \cup {m.unit}
           /\ validated' = IF Validate(m, seen) THEN m ELSE NoMessage
    /\ UNCHANGED <<vars, sent, kafkaOrderCh, assigned, rebalances, crashed, engineCh>>

\* mutant: an order waits for its turn
WaitForTurn(n) ==
    /\ validated = NoMessage /\ n \in assigned /\ Take(n) /\ Head(raw[n]).turn = cache.turn
    /\ currentTurn' = cache.turn /\ validated' = Head(raw[n]) /\ UNCHANGED <<seenUnits, asked>>
    /\ UNCHANGED <<vars, sent, kafkaOrderCh, assigned, rebalances, crashed, engineCh>>

(***************************************************************************)
(* OrderProcessor.ProcessMessage, up to the order's way out.  Orders of    *)
(* one partition stay in order, others do not.                             *)
(* An order of another turn than the last one, valid or not, makes the     *)
(* processor forget which units it has seen.  A start or a reset that      *)
(* somebody sends under a unit's name marks the unit.  A panic ends the    *)
(* whole process; the message is still there for whoever reads it next.    *)
(***************************************************************************)
ProcessMessage(n) ==
    /\ validated = NoMessage /\ n \in assigned /\ raw[n] # <<>>
    /\ LET m == Head(raw[n])
           seen == Remembered(seenUnits, m)
       IN  \/ /\ Panics(m, seen) /\ crashed' = TRUE
              /\ UNCHANGED <<raw, handled, memory, validated>>
           \/ /\ ~Panics(m, seen) /\ Take(n) /\ currentTurn' = m.turn
              /\ asked' = Remembered(asked, m)
                            \cup {u \in {m.unit} : m.order.type \in SystemTypes}
              /\ \/ /\ Validate(m, seen)
                    /\ seenUnits' = seen \cup {m.unit} /\ validated' = m
                 \/ /\ ~Validate(m, seen)
                    /\ seenUnits' = seen /\ UNCHANGED validated
              /\ UNCHANGED crashed
    /\ UNCHANGED <<vars, sent, kafkaOrderCh, assigned, rebalances, engineCh>>

\* another instance of the group, whose engine gets the order if it is valid
OthersTake(n) ==
    /\ n \notin assigned /\ Take(n)
    /\ UNCHANGED <<vars, sent, kafkaOrderCh, assigned, rebalances, processor, engineCh>>

\* mutant: nobody waits for room
RouteAtOnce ==
    /\ validated # NoMessage
    /\ engineCh' = Append(engineCh, validated) /\ validated' = NoMessage
    /\ UNCHANGED <<vars, sent, kafkaOrderCh, raw, offsets, memory, crashed>>

\* onValidated, after a round trip to Kafka: EventRouter.RouteEvent waits for room
RouteValidated ==
    /\ validated # NoMessage /\ Len(engineCh) < EngineCap
    /\ engineCh' = Append(engineCh, validated) /\ validated' = NoMessage
    /\ UNCHANGED <<vars, sent, kafkaOrderCh, raw, offsets, memory, crashed>>

----------------------------------------------------------------------------
(***************************************************************************)
(* The consumers commit in the background, some time later, what their     *)
(* loops have handled.  When one of the group comes or goes, or its session*)
(* ends (6 s without a heartbeat), the partitions are distributed again,   *)
(* and read from their last commits on, while the engine and the memory of *)
(* the processor are what they were: between two calls of Poll, so with no *)
(* order on its way out.                                                   *)
(***************************************************************************)
Rebalance ==
    /\ validated = NoMessage /\ rebalances < MaxRebalances /\ rebalances' = rebalances + 1
    /\ \E committed \in [Partitions -> 0..MaxSent] :
         /\ \A n \in Partitions : committed[n] <= Len(handled[n])
         /\ raw' = [n \in Partitions |->
                      SubSeq(handled[n], committed[n] + 1, Len(handled[n])) \o raw[n]]
    /\ assigned' \in SUBSET Partitions /\ handled' = [n \in Partitions |-> <<>>]
    /\ UNCHANGED <<vars, sent, kafkaOrderCh, processor, engineCh>>

----------------------------------------------------------------------------
(***************************************************************************)
(* The engine takes an order between two turns.  The server is not shut    *)
(* down in this module.                                                    *)
(***************************************************************************)
EngineReceives ==
    /\ pc = "idle" /\ engineCh # <<>> /\ engineCh' = Tail(engineCh)
    /\ LET m == Head(engineCh) IN
         \/ m.order.type = "START_GAME" /\ StartGame
         \/ m.order.type = "START_GAME" /\ cache.phase = "IN_PROGRESS" /\ UNCHANGED vars
         \/ m.order.type = "RESET_GAME" /\ ResetGame
         \/ m.order.type \notin SystemTypes /\ ReceiveOrder(m.unit, m.order)
    /\ UNCHANGED <<sent, kafkaOrderCh, raw, offsets, processor>>

EngineTick ==
    /\ BeginTurn \/ TickAfterGameOver \/ ProcessTurn
    /\ UNCHANGED intake

Consume == (\E n \in Partitions : ProcessMessage(n)) \/ RouteValidated

IntakeNext ==
    /\ ~crashed
    /\ \/ \E p \in Players, u \in Keys, turn \in 1..MaxTurns :
            \E o \in Submissions[u] : SubmitOrder(p, u, turn, o)
       \/ \E type \in Requests : SubmitToSystem(type)
       \/ Publish \/ Consume \/ EngineReceives \/ EngineTick
       \/ (\E n \in Partitions : OthersTake(n)) \/ Rebalance

IntakeSpec == IntakeInit /\ [][IntakeNext]_all

(***************************************************************************)
(* Fairness: every goroutine of a living process that can go on does.      *)
(* Receiving and ticking are cases of one select, which takes each of two  *)
(* ready cases again and again.  Nothing is assumed of other instances.    *)
(***************************************************************************)
FairIntakeSpec ==
    /\ IntakeSpec
    /\ WF_all(~crashed /\ Publish) /\ WF_all(~crashed /\ Consume)
    /\ SF_all(~crashed /\ EngineReceives) /\ WF_all(~crashed /\ EngineTick)
=============================================================================
