--------------------------- MODULE IntakeTheorems ---------------------------
(***************************************************************************)
(* Behind the validator the engine gets the orders it was written for: the *)
(* composition of OrderIntake implements TurnProcessor, and inherits every *)
(* theorem about it.  The invariant follows an order from channel to       *)
(* channel: what was sent is an order somebody may send, and what passed   *)
(* ProcessMessage is one the rules of Validate let through.                *)
(***************************************************************************)
EXTENDS IntakeProperties, BoardTheorems, SequenceTheorems

SystemMessage ==
    [player : {"system"}, unit : {"system"}, turn : 1..MaxTurns,
     order : {SystemOrder(type) : type \in Requests}]

PlayerMessage ==
    {m \in [player : Players, unit : Keys, turn : 1..MaxTurns, order : Sendable] :
       m.order \in Submissions[m.unit]}

SentMessage == SystemMessage \cup PlayerMessage

IsOrder(m) == m.order.type \notin SystemTypes

PassedMessage ==
    {m \in SentMessage :
       IsOrder(m) => /\ m.unit \in Units /\ m.order \in Order
                     /\ Passable(m.unit, m.order) /\ MatchesPlayer(m)}

QueueInv ==
    /\ kafkaOrderCh \in Seq(SentMessage)
    /\ raw \in [Partitions -> Seq(SentMessage)] /\ handled \in [Partitions -> Seq(SentMessage)]
    /\ validated \in PassedMessage \cup {NoMessage}
    /\ engineCh \in Seq(PassedMessage)

(***************************************************************************)
(* Messages.                                                               *)
(***************************************************************************)
LEMMA SystemOrderType ==
  ASSUME NEW type
  PROVE  /\ SystemOrder(type).type = type
         /\ type \in SystemTypes => SystemOrder(type) \in Sendable
<1>1. <<>> \in Routes
  BY DEF Routes
<1> QED
  BY <1>1 DEF SystemOrder, NoOrder, Sendable

LEMMA MessageCases ==
  ASSUME NEW m \in SentMessage
  PROVE  /\ m.unit \in Keys /\ m.order \in Sendable /\ m.turn \in 1..MaxTurns
         /\ m.player \in Players \cup {"system"}
         /\ \/ m.order.type \in Requests /\ ~IsOrder(m)
            \/ m.order \in Submissions[m.unit]
<1>1. CASE m \in SystemMessage
  <2>1. m.unit = "system" /\ m.turn \in 1..MaxTurns /\ m.player = "system"
    BY <1>1 DEF SystemMessage
  <2>2. PICK type \in Requests : m.order = SystemOrder(type)
    BY <1>1 DEF SystemMessage
  <2>3. type \in SystemTypes
    BY IntakeAssumption
  <2> QED
    BY <2>1, <2>2, <2>3, SystemOrderType DEF Keys, IsOrder
<1>2. CASE m \in PlayerMessage
  BY <1>2 DEF PlayerMessage
<1> QED
  BY <1>1, <1>2 DEF SentMessage

\* An order that is no start and no reset comes from a player.
LEMMA OrdersComeFromPlayers ==
  ASSUME NEW m \in SentMessage, IsOrder(m)
  PROVE  m.order \in Submissions[m.unit] /\ m.order.type \in OrderTypes
<1>1. m.order \in Submissions[m.unit] /\ m.order \in Sendable
  BY MessageCases
<1> QED
  BY <1>1 DEF Sendable, IsOrder

\* Every rule of the validator that Passable names is one Validate applies.
LEMMA ValidMessagePasses ==
  ASSUME NEW m \in SentMessage, NEW seen, Validate(m, seen), ~Panics(m, seen)
  PROVE  m \in PassedMessage
<1>1. SUFFICES ASSUME IsOrder(m)
               PROVE  /\ m.unit \in Units /\ m.order \in Order
                      /\ Passable(m.unit, m.order) /\ MatchesPlayer(m)
  BY DEF PassedMessage
<1>2. /\ Addressed(m, seen) /\ MatchesPlayer(m) /\ WalkableRoute(m) /\ AtPath(m)
      /\ AbilityReady(m) /\ AtDestructionSite(m)
  BY <1>1 DEF Validate, IsOrder
<1>3. m.order.route # <<NotAString>>
  <2>1. SUFFICES ASSUME m.order.route = <<NotAString>> PROVE FALSE
    OBVIOUS
  <2>2. 1 \in DOMAIN m.order.route /\ m.order.route[1] = NotAString
    BY <2>1
  <2> QED
    BY <2>2 DEF Panics
<1>4. m.order \in Order
  <2>1. m.order \in Sendable /\ m.order.type \in OrderTypes
    BY <1>1, MessageCases, OrdersComeFromPlayers
  <2> QED
    BY <1>3, <2>1 DEF Sendable, Order
<1>5. m.unit \in Units
  BY <1>2 DEF Addressed
<1> QED
  BY <1>2, <1>4, <1>5 DEF Passable, WalkableRoute, AtPath, AbilityReady, AtDestructionSite

----------------------------------------------------------------------------
(***************************************************************************)
(* The steps of the composition, seen by the engine.                       *)
(***************************************************************************)
LEMMA ReceivedIsEngineStep ==
  ASSUME QueueInv, EngineReceives
  PROVE  [Next]_vars
<1> DEFINE m == Head(engineCh)
<1>1. m \in PassedMessage
  BY HeadTailProperties DEF QueueInv, EngineReceives
<1>2. m \in SentMessage
  BY <1>1 DEF PassedMessage
<1>3. CASE ~IsOrder(m)
  <2>1. \/ StartGame \/ ResetGame \/ UNCHANGED vars
    BY <1>3 DEF EngineReceives, IsOrder
  <2> QED
    BY <2>1 DEF Next
<1>4. CASE IsOrder(m)
  <2>1. m.order \in Submissions[m.unit]
    BY <1>2, <1>4, OrdersComeFromPlayers
  <2>2. m.unit \in Units /\ m.order \in OrderChoices[m.unit]
    BY <1>1, <1>4, <2>1, ChoicesAssumption DEF PassedMessage
  <2>3. ReceiveOrder(m.unit, m.order)
    BY <1>4 DEF EngineReceives, SystemTypes, IsOrder
  <2> QED
    BY <2>2, <2>3 DEF Next
<1> QED
  BY <1>3, <1>4

LEMMA IntakeStep == QueueInv /\ [IntakeNext]_all => [Next]_vars
<1> SUFFICES ASSUME QueueInv, [IntakeNext]_all PROVE [Next]_vars
  OBVIOUS
<1>1. CASE EngineReceives
  BY <1>1, ReceivedIsEngineStep
<1>2. CASE EngineTick
  BY <1>2 DEF EngineTick, Next
<1>3. CASE UNCHANGED all
  BY <1>3 DEF all
<1>4. CASE Publish
  BY <1>4 DEF Publish
<1>5. CASE Consume
  BY <1>5 DEF Consume, ProcessMessage, RouteValidated
<1>8. CASE Rebalance \/ \E n \in Partitions : OthersTake(n)
  BY <1>8 DEF Rebalance, OthersTake
<1>6. ASSUME NEW p \in Players, NEW u \in Keys, NEW turn \in 1..MaxTurns,
             NEW o \in Submissions[u], SubmitOrder(p, u, turn, o)
      PROVE  [Next]_vars
  BY <1>6 DEF SubmitOrder, Accept
<1>7. ASSUME NEW type \in Requests, SubmitToSystem(type)
      PROVE  [Next]_vars
  BY <1>7 DEF SubmitToSystem, Accept
<1> QED
  BY <1>1, <1>2, <1>3, <1>4, <1>5, <1>6, <1>7, <1>8 DEF IntakeNext

----------------------------------------------------------------------------
(***************************************************************************)
(* The invariant, one lemma for each group of goroutines.                  *)
(***************************************************************************)
LEMMA AcceptKeeps ==
  ASSUME QueueInv, NEW m \in SentMessage, Accept(m)
  PROVE  QueueInv'
<1>1. kafkaOrderCh' \in Seq(SentMessage)
  BY AppendProperties DEF Accept, QueueInv
<1> QED
  BY <1>1 DEF Accept, QueueInv, offsets, processor

LEMMA PublishKeeps ==
  ASSUME QueueInv, WithKafka, Publish
  PROVE  QueueInv'
<1> DEFINE m == Head(kafkaOrderCh)
<1>1. m \in SentMessage /\ kafkaOrderCh' \in Seq(SentMessage)
  BY HeadTailProperties DEF Publish, QueueInv
<1>2. PartitionOf[m.unit] \in Partitions
  BY <1>1, MessageCases, IntakeAssumption
<1>3. Append(raw[PartitionOf[m.unit]], m) \in Seq(SentMessage)
  BY <1>1, <1>2, AppendProperties DEF QueueInv
<1>4. raw' \in [Partitions -> Seq(SentMessage)] /\ engineCh' = engineCh
  BY <1>2, <1>3 DEF Publish, QueueInv
<1> QED
  BY <1>1, <1>4 DEF Publish, QueueInv, offsets, processor

LEMMA TakeKeeps ==
  ASSUME QueueInv, NEW n \in Partitions, Take(n)
  PROVE  /\ Head(raw[n]) \in SentMessage
         /\ raw' \in [Partitions -> Seq(SentMessage)] /\ handled' \in [Partitions -> Seq(SentMessage)]
<1>1. Head(raw[n]) \in SentMessage /\ Tail(raw[n]) \in Seq(SentMessage)
  BY HeadTailProperties DEF Take, QueueInv
<1>2. Append(handled[n], Head(raw[n])) \in Seq(SentMessage)
  BY <1>1, AppendProperties DEF QueueInv
<1>3. raw' \in [Partitions -> Seq(SentMessage)]
  BY <1>1 DEF Take, QueueInv
<1>4. handled' \in [Partitions -> Seq(SentMessage)]
  BY <1>2 DEF Take, QueueInv
<1> QED
  BY <1>1, <1>3, <1>4

LEMMA RebalanceKeeps ==
  ASSUME QueueInv, Rebalance
  PROVE  QueueInv'
<1>1. PICK committed \in [Partitions -> 0..MaxSent] :
        /\ \A n \in Partitions : committed[n] <= Len(handled[n])
        /\ raw' = [n \in Partitions |->
                     SubSeq(handled[n], committed[n] + 1, Len(handled[n])) \o raw[n]]
  BY DEF Rebalance
<1>2. ASSUME NEW n \in Partitions
      PROVE  SubSeq(handled[n], committed[n] + 1, Len(handled[n])) \o raw[n]
               \in Seq(SentMessage)
  <2>1. handled[n] \in Seq(SentMessage) /\ raw[n] \in Seq(SentMessage)
        /\ committed[n] \in Nat /\ committed[n] <= Len(handled[n])
        /\ Len(handled[n]) \in Nat
    BY <1>1, LenProperties, IntakeAssumption DEF QueueInv
  <2>2. SubSeq(handled[n], committed[n] + 1, Len(handled[n])) \in Seq(SentMessage)
    <3>1. /\ committed[n] + 1 \in 1..(Len(handled[n]) + 1)
          /\ Len(handled[n]) \in (committed[n] + 1 - 1)..Len(handled[n])
      BY <2>1
    <3> QED
      BY <2>1, <3>1, SubSeqProperties
  <2> QED
    BY <2>1, <2>2, ConcatProperties
<1>3. raw' \in [Partitions -> Seq(SentMessage)]
  BY <1>1, <1>2
<1>4. handled' \in [Partitions -> Seq(SentMessage)]
  BY EmptySeq DEF Rebalance
<1> QED
  BY <1>3, <1>4 DEF Rebalance, QueueInv, processor

LEMMA OthersKeep ==
  ASSUME QueueInv, NEW n \in Partitions, OthersTake(n)
  PROVE  QueueInv'
<1>1. raw' \in [Partitions -> Seq(SentMessage)] /\ handled' \in [Partitions -> Seq(SentMessage)]
  BY TakeKeeps DEF OthersTake
<1> QED
  BY <1>1 DEF OthersTake, QueueInv, processor

LEMMA ProcessKeeps ==
  ASSUME QueueInv, NEW n \in Partitions, ProcessMessage(n)
  PROVE  QueueInv'
<1> DEFINE m == Head(raw[n])
           seen == Remembered(seenUnits, m)
<1>1. CASE Panics(m, seen)
  BY <1>1 DEF ProcessMessage, QueueInv
<1>2. CASE ~Panics(m, seen)
  <2>1. m \in SentMessage
        /\ raw' \in [Partitions -> Seq(SentMessage)] /\ handled' \in [Partitions -> Seq(SentMessage)]
    BY <1>2, TakeKeeps DEF ProcessMessage
  <2>2. \/ Validate(m, seen) /\ validated' = m
        \/ validated' = validated
    BY <1>2 DEF ProcessMessage
  <2>3. validated' \in PassedMessage \cup {NoMessage}
    BY <1>2, <2>1, <2>2, ValidMessagePasses DEF QueueInv
  <2> QED
    BY <2>1, <2>3 DEF ProcessMessage, QueueInv
<1> QED
  BY <1>1, <1>2

LEMMA RouteKeeps ==
  ASSUME QueueInv, RouteValidated
  PROVE  QueueInv'
<1>1. validated \in PassedMessage
  BY DEF RouteValidated, QueueInv
<1>2. engineCh' \in Seq(PassedMessage)
  BY <1>1, AppendProperties DEF RouteValidated, QueueInv
<1> QED
  BY <1>2 DEF RouteValidated, QueueInv, offsets

LEMMA ReceiveKeeps ==
  ASSUME QueueInv, EngineReceives
  PROVE  QueueInv'
<1>1. engineCh' \in Seq(PassedMessage)
  BY HeadTailProperties DEF EngineReceives, QueueInv
<1> QED
  BY <1>1 DEF EngineReceives, QueueInv, offsets, processor

\* every step of the composition, by what the lemmas about it say
LEMMA IntakeCases ==
  ASSUME TypeOK, [IntakeNext]_all
  PROVE  \/ \E m \in SentMessage : Accept(m)
         \/ \E n \in Partitions : ProcessMessage(n) \/ OthersTake(n)
         \/ Publish \/ RouteValidated \/ Rebalance \/ EngineReceives \/ EngineTick
         \/ UNCHANGED all
<1>1. ASSUME NEW p \in Players, NEW u \in Keys, NEW turn \in 1..MaxTurns,
             NEW o \in Submissions[u], SubmitOrder(p, u, turn, o)
      PROVE  \E m \in SentMessage : Accept(m)
  <2>1. o \in Sendable
    BY <1>1, IntakeAssumption
  <2>2. [player |-> p, unit |-> u, turn |-> turn, order |-> o] \in SentMessage
    BY <1>1, <2>1 DEF SentMessage, PlayerMessage
  <2> QED
    BY <1>1, <2>2 DEF SubmitOrder
<1>2. ASSUME NEW type \in Requests, SubmitToSystem(type)
      PROVE  \E m \in SentMessage : Accept(m)
  <2>1. cache.turn \in 1..MaxTurns
    BY DEF TypeOK, WorldStateCache
  <2>2. [player |-> "system", unit |-> "system", turn |-> cache.turn,
         order |-> SystemOrder(type)] \in SentMessage
    BY <1>2, <2>1 DEF SentMessage, SystemMessage
  <2> QED
    BY <1>2, <2>2 DEF SubmitToSystem
<1> QED
  BY <1>1, <1>2 DEF IntakeNext, Consume

LEMMA QueueInductive ==
    /\ IntakeInit => QueueInv
    /\ WithKafka /\ TypeOK /\ QueueInv /\ [IntakeNext]_all => QueueInv'
<1>1. IntakeInit => QueueInv
  BY EmptySeq DEF IntakeInit, QueueInv
<1>2. ASSUME WithKafka, TypeOK, QueueInv, [IntakeNext]_all PROVE QueueInv'
  <2> USE <1>2
  <2>1. CASE EngineTick \/ UNCHANGED all
    BY <2>1 DEF EngineTick, all, intake, offsets, processor, QueueInv
  <2> QED
    BY <2>1, IntakeCases, AcceptKeeps, PublishKeeps, ProcessKeeps, RouteKeeps, ReceiveKeeps,
       OthersKeep, RebalanceKeeps
<1> QED
  BY <1>1, <1>2

LEMMA IntakeInvariant ==
  ASSUME WithKafka
  PROVE  IntakeSpec => [](TypeInv /\ QueueInv)
<1>1. IntakeInit => TypeInv /\ QueueInv
  BY TypeInit, QueueInductive DEF IntakeInit, TypeInv, WalkersHavePaths, Init
<1>2. TypeInv /\ QueueInv /\ [IntakeNext]_all => TypeInv' /\ QueueInv'
  BY QueueInductive, IntakeStep, TypeNext, WalkersNext DEF TypeInv
<1> QED
  BY <1>1, <1>2, PTL DEF IntakeSpec

(***************************************************************************)
(* With Kafka in place every behaviour of the handlers, the consumer and   *)
(* the engine together is, for the engine, a behaviour of Spec: behind     *)
(* validator.go it gets only the orders it was written for.                *)
(***************************************************************************)
THEOREM BehindTheValidator ==
  ASSUME WithKafka
  PROVE  IntakeSpec => IntakeImplementsEngine
<1>1. IntakeInit => Init
  BY DEF IntakeInit
<1>2. QueueInv /\ [IntakeNext]_all => [Next]_vars
  BY IntakeStep
<1> QED
  BY <1>1, <1>2, IntakeInvariant, PTL DEF IntakeSpec, IntakeImplementsEngine, Spec

(***************************************************************************)
(* Only a player of the unit's side gives it orders (sideMatchesPlayer):   *)
(* true of all that waits for the engine, whatever was sent and whoever    *)
(* sent it, but for the starts and resets, which Validate lets pass first. *)
(***************************************************************************)
THEOREM OwnOrdersOnly ==
  ASSUME WithKafka
  PROVE  IntakeSpec => []OrdersAreOwn
<1>1. QueueInv => OrdersAreOwn
  <2> SUFFICES ASSUME QueueInv, NEW i \in DOMAIN engineCh, IsOrder(engineCh[i])
               PROVE  engineCh[i].unit \in Units /\ MatchesPlayer(engineCh[i])
    BY DEF OrdersAreOwn, IsOrder
  <2>1. engineCh[i] \in PassedMessage
    BY ElementOfSeq DEF QueueInv
  <2> QED
    BY <2>1 DEF PassedMessage
<1> QED
  BY <1>1, IntakeInvariant, PTL

(***************************************************************************)
(* What is proved of the engine holds of it behind the validator: the true *)
(* region is the published one (the literal of the first cache apart), a   *)
(* capture that is due happens, a block has its blocker, the Ring Bearer   *)
(* keeps its pace, surveillance only grows, the fallen stay fallen and a   *)
(* game that is over stays over, whatever the players send and whenever it *)
(* arrives.                                                                *)
(***************************************************************************)
THEOREM EngineTheoremsHoldBehindTheValidator ==
  ASSUME WithKafka
  PROVE  IntakeSpec => /\ [](LightViewIsTrue /\ CaptureIsCertain /\ BlockHasBlocker)
                       /\ RingBearerPace /\ SurveillanceGrows /\ DestroyedStaysDestroyed
                       /\ GameOverIsFinal /\ ImplementsLifecycle
<1>1. IntakeSpec => Spec
  BY BehindTheValidator DEF IntakeImplementsEngine
<1>2. Spec => [](LightViewIsTrue /\ CaptureIsCertain /\ BlockHasBlocker)
  BY LightViewCorrect, CaptureCorrect, BlockCorrect, PTL
<1>3. Spec => RingBearerPace /\ SurveillanceGrows /\ DestroyedStaysDestroyed
  BY PaceCorrect, WatchCorrect, FallenStayFallen
<1>4. Spec => GameOverIsFinal /\ ImplementsLifecycle
  BY OverIsFinal, EngineImplementsLifecycle
<1> QED
  BY <1>1, <1>2, <1>3, <1>4

----------------------------------------------------------------------------
(***************************************************************************)
(* The engine asks whether anybody was ordered to destroy the Ring; behind *)
(* the validator that can only be the Ring Bearer.                         *)
(***************************************************************************)
OnlyTheBearerDestroys(given) ==
    \A u \in Units : given[u].type = "DESTROY_RING" => IsRingBearer(u)

DestroyInv == OnlyTheBearerDestroys(orders) /\ OnlyTheBearerDestroys(ordersThisTurn)

LEMMA NobodyIsOrdered == OnlyTheBearerDestroys(NoOrders)
  BY DEF OnlyTheBearerDestroys, NoOrders, NoOrder

LEMMA DestroyReceived ==
  ASSUME TypeOK, QueueInv, DestroyInv, EngineReceives
  PROVE  DestroyInv'
<1> DEFINE m == Head(engineCh)
<1>1. m \in PassedMessage
  BY HeadTailProperties DEF QueueInv, EngineReceives
<1>2. m \in SentMessage
  BY <1>1 DEF PassedMessage
<1>3. CASE ~IsOrder(m)
  <2>1. UNCHANGED <<orders, ordersThisTurn>>
    BY <1>3 DEF EngineReceives, IsOrder, StartGame, ResetGame, vars, control
  <2> QED
    BY <2>1 DEF DestroyInv, OnlyTheBearerDestroys
<1>4. CASE IsOrder(m)
  <2>1. m.unit \in Units
    BY <1>1, <1>4 DEF PassedMessage
  <2>2. m.order.type = "DESTROY_RING" => IsRingBearer(m.unit)
    BY <1>1, <1>4 DEF PassedMessage, Passable
  <2>3. ReceiveOrder(m.unit, m.order)
    BY <1>4 DEF EngineReceives, SystemTypes, IsOrder
  <2>4. orders' = orders /\ DOMAIN ordersThisTurn = Units
        /\ ordersThisTurn' \in {ordersThisTurn, [ordersThisTurn EXCEPT ![m.unit] = m.order]}
    BY <2>3 DEF ReceiveOrder, TypeOK
  <2>5. OnlyTheBearerDestroys(ordersThisTurn')
    BY <2>1, <2>2, <2>4 DEF DestroyInv, OnlyTheBearerDestroys
  <2> QED
    BY <2>4, <2>5 DEF DestroyInv
<1> QED
  BY <1>3, <1>4

LEMMA DestroyNext ==
  ASSUME TypeOK, QueueInv, DestroyInv, [IntakeNext]_all
  PROVE  DestroyInv'
<1>1. CASE EngineReceives
  BY <1>1, DestroyReceived
<1>2. CASE EngineTick
  <2>1. \/ UNCHANGED <<orders, ordersThisTurn>>
        \/ orders' = ordersThisTurn /\ ordersThisTurn' = NoOrders
        \/ orders' = NoOrders /\ ordersThisTurn' = ordersThisTurn
    BY <1>2, MiddleStepFrame
    DEF EngineTick, BeginTurn, TickAfterGameOver, MiddleStep, StepWinConditions
  <2> QED
    BY <2>1, NobodyIsOrdered DEF DestroyInv
<1>3. CASE UNCHANGED <<orders, ordersThisTurn>>
  BY <1>3 DEF DestroyInv
<1>4. EngineReceives \/ EngineTick \/ UNCHANGED <<orders, ordersThisTurn>>
  BY DEF IntakeNext, SubmitOrder, SubmitToSystem, Accept, Publish, Consume, ProcessMessage,
         RouteValidated, OthersTake, Rebalance, all, vars, control
<1> QED
  BY <1>1, <1>2, <1>3, <1>4

LEMMA VictoryStep ==
  ASSUME QueueInv, DestroyInv, [IntakeNext]_all, result # "LIGHT_SIDE", result' = "LIGHT_SIDE"
  PROVE  Ordered(Frodo, "DESTROY_RING")
<1>1. [Next]_vars
  BY IntakeStep
<1>2. StepWinConditions
  BY <1>1, NextCases, MiddleStepFrame
  DEF ReceiveOrder, StartGame, ResetGame, BeginTurn, TickAfterGameOver, Done, vars, control
<1>3. PICK u \in Units : Ordered(u, "DESTROY_RING")
  BY <1>2 DEF StepWinConditions, Outcome, RingDestroyed
<1>4. IsRingBearer(u)
  BY <1>3 DEF DestroyInv, OnlyTheBearerDestroys, Ordered
<1> QED
  BY <1>3, <1>4, TheRingBearerIsOne

(***************************************************************************)
(* The Light Side wins only in a turn in which the Ring Bearer itself was  *)
(* ordered to destroy the Ring, though stepWinConditions looks for such an *)
(* order of any unit.                                                      *)
(***************************************************************************)
THEOREM OnlyTheBearerWins ==
  ASSUME WithKafka
  PROVE  IntakeSpec => VictoryIsOrdered
<1>1. IntakeInit => DestroyInv
  BY NobodyIsOrdered DEF IntakeInit, Init, DestroyInv
<1>2. TypeInv /\ QueueInv /\ DestroyInv /\ [IntakeNext]_all => DestroyInv'
  BY DestroyNext DEF TypeInv
<1>3. QueueInv /\ DestroyInv /\ [IntakeNext]_all =>
        [(result # "LIGHT_SIDE" /\ result' = "LIGHT_SIDE") => Ordered(Frodo, "DESTROY_RING")]_all
  BY VictoryStep
<1> QED
  BY <1>1, <1>2, <1>3, IntakeInvariant, PTL DEF IntakeSpec, VictoryIsOrdered

----------------------------------------------------------------------------
(***************************************************************************)
(* The types of the way: beside what QueueInv says, the sizes of the       *)
(* channels and the counters.                                              *)
(***************************************************************************)
SizeInv ==
    /\ sent \in 0..MaxSent /\ rebalances \in 0..MaxRebalances
    /\ Len(kafkaOrderCh) <= HttpCap /\ Len(engineCh) <= EngineCap
    /\ seenUnits \subseteq Keys /\ asked \subseteq seenUnits /\ currentTurn \in 0..MaxTurns
    /\ assigned \subseteq Partitions /\ crashed \in BOOLEAN

LEMMA SentIsMessage == SentMessage \subseteq Message
<1> SUFFICES ASSUME NEW m \in SentMessage PROVE m \in Message
  OBVIOUS
<1>1. \/ m \in [player : {"system"}, unit : {"system"}, turn : 1..MaxTurns,
                order : {SystemOrder(type) : type \in Requests}]
      \/ m \in [player : Players, unit : Keys, turn : 1..MaxTurns, order : Sendable]
  BY DEF SentMessage, SystemMessage, PlayerMessage
<1> QED
  BY <1>1, MessageCases DEF Message

LEMMA LongerBy ==
  ASSUME NEW S, NEW q \in Seq(S), NEW x \in S, NEW c \in Nat, Len(q) < c
  PROVE  Len(Append(q, x)) <= c
  BY AppendProperties, LenProperties

LEMMA ShorterBy ==
  ASSUME NEW S, NEW q \in Seq(S), q # <<>>, NEW c \in Nat, Len(q) <= c
  PROVE  Len(Tail(q)) <= c
  BY HeadTailProperties, LenProperties

LEMMA SizeProcess ==
  ASSUME QueueInv, SizeInv, NEW n \in Partitions, ProcessMessage(n)
  PROVE  SizeInv'
<1> DEFINE m == Head(raw[n])
           seen == Remembered(seenUnits, m)
<1>1. CASE Panics(m, seen)
  <2>1. crashed' \in BOOLEAN
    BY <1>1, Zenon DEF ProcessMessage
  <2> QED
    BY <1>1, <2>1 DEF ProcessMessage, SizeInv, memory
<1>2. CASE ~Panics(m, seen)
  <2>1. m \in SentMessage
    BY <1>2, TakeKeeps DEF ProcessMessage
  <2>2. m.unit \in Keys /\ m.turn \in 1..MaxTurns
    BY <2>1, MessageCases
  <2>3. m.turn \in 0..MaxTurns
    BY <2>2, GameAssumption
  <2>4. \/ Validate(m, seen) /\ seenUnits' = seen \cup {m.unit}
        \/ ~Validate(m, seen) /\ seenUnits' = seen
    BY <1>2 DEF ProcessMessage
  <2>5. asked' = Remembered(asked, m) \cup {u \in {m.unit} : m.order.type \in SystemTypes}
    BY <1>2 DEF ProcessMessage
  <2>6. seenUnits' \subseteq Keys /\ asked' \subseteq seenUnits'
    BY <2>2, <2>4, <2>5 DEF SizeInv, Remembered, Validate
  <2>7. crashed' = crashed /\ currentTurn' = m.turn
    BY <1>2 DEF ProcessMessage
  <2> QED
    BY <2>3, <2>6, <2>7 DEF ProcessMessage, SizeInv
<1> QED
  BY <1>1, <1>2

LEMMA SizeAccept ==
  ASSUME QueueInv, SizeInv, NEW m \in SentMessage, Accept(m)
  PROVE  SizeInv'
<1>1. Len(kafkaOrderCh') <= HttpCap
  BY LongerBy, IntakeAssumption DEF Accept, QueueInv
<1>2. sent' \in 0..MaxSent
  BY IntakeAssumption DEF Accept, SizeInv
<1> QED
  BY <1>1, <1>2 DEF Accept, SizeInv, offsets, processor, memory

LEMMA SizeRest ==
  ASSUME WithKafka, QueueInv, SizeInv,
         \/ Publish \/ RouteValidated \/ Rebalance \/ EngineReceives \/ EngineTick
         \/ (\E n \in Partitions : OthersTake(n)) \/ UNCHANGED all
  PROVE  SizeInv'
<1>1. CASE Publish
  <2>1. Len(kafkaOrderCh') <= HttpCap
    BY <1>1, ShorterBy, IntakeAssumption DEF Publish, QueueInv, SizeInv
  <2> QED
    BY <1>1, <2>1 DEF Publish, SizeInv, offsets, processor, memory
<1>6. CASE \E n \in Partitions : OthersTake(n)
  BY <1>6 DEF OthersTake, SizeInv, processor, memory
<1>2. CASE RouteValidated
  <2>1. Len(engineCh') <= EngineCap
    BY <1>2, LongerBy, IntakeAssumption DEF RouteValidated, QueueInv
  <2> QED
    BY <1>2, <2>1 DEF RouteValidated, SizeInv, offsets, memory
<1>3. CASE Rebalance
  <2>3. rebalances < MaxRebalances /\ rebalances' = rebalances + 1
    BY <1>3, Zenon DEF Rebalance
  <2>4. rebalances \in 0..MaxRebalances /\ MaxRebalances \in Nat
    BY IntakeAssumption DEF SizeInv
  <2>1. rebalances' \in 0..MaxRebalances
    BY <2>3, <2>4
  <2> QED
    BY <1>3, <2>1 DEF Rebalance, SizeInv, processor, memory
<1>4. CASE EngineReceives
  <2>1. Len(engineCh') <= EngineCap
    BY <1>4, ShorterBy, IntakeAssumption DEF EngineReceives, QueueInv, SizeInv
  <2> QED
    BY <1>4, <2>1 DEF EngineReceives, SizeInv, offsets, processor, memory
<1>5. CASE EngineTick \/ UNCHANGED all
  BY <1>5 DEF EngineTick, SizeInv, all, intake, offsets, processor, memory
<1> QED
  BY <1>1, <1>2, <1>3, <1>4, <1>5, <1>6

LEMMA SizeInductive ==
    /\ IntakeInit => SizeInv
    /\ WithKafka /\ TypeOK /\ QueueInv /\ SizeInv /\ [IntakeNext]_all => SizeInv'
<1>1. ASSUME IntakeInit PROVE SizeInv
  <2>1. Len(kafkaOrderCh) = 0 /\ Len(engineCh) = 0
    BY <1>1, EmptySeq DEF IntakeInit
  <2>2. crashed \in BOOLEAN
    BY <1>1, Zenon DEF IntakeInit
  <2>3. asked \subseteq seenUnits /\ seenUnits \subseteq Keys /\ assigned \subseteq Partitions
    BY <1>1, Zenon DEF IntakeInit
  <2>4. /\ sent \in 0..MaxSent /\ rebalances \in 0..MaxRebalances
        /\ currentTurn \in 0..MaxTurns
    BY <1>1, IntakeAssumption, GameAssumption DEF IntakeInit
  <2> QED
    BY <2>1, <2>2, <2>3, <2>4, IntakeAssumption DEF SizeInv
<1>2. WithKafka /\ TypeOK /\ QueueInv /\ SizeInv /\ [IntakeNext]_all => SizeInv'
  BY IntakeCases, SizeAccept, SizeProcess, SizeRest
<1> QED
  BY <1>1, <1>2

(***************************************************************************)
(* Every channel holds messages, no more than its capacity.                *)
(***************************************************************************)
THEOREM IntakeTypes ==
  ASSUME WithKafka
  PROVE  IntakeSpec => []IntakeTypeOK
<1>1. QueueInv /\ SizeInv => IntakeTypeOK
  <2> SUFFICES ASSUME QueueInv, SizeInv PROVE IntakeTypeOK
    OBVIOUS
  <2>1. \A T \in SUBSET Message : Seq(T) \subseteq Seq(Message)
    OBVIOUS
  <2>2. PassedMessage \subseteq SentMessage
    BY DEF PassedMessage
  <2>3. Seq(SentMessage) \subseteq Seq(Message) /\ Seq(PassedMessage) \subseteq Seq(Message)
    BY <2>1, <2>2, SentIsMessage
  <2>4. /\ kafkaOrderCh \in Seq(Message) /\ engineCh \in Seq(Message)
        /\ validated \in Message \cup {NoMessage}
    BY <2>2, <2>3, SentIsMessage DEF QueueInv
  <2>5. raw \in [Partitions -> Seq(Message)] /\ handled \in [Partitions -> Seq(Message)]
    BY <2>3 DEF QueueInv
  <2> QED
    BY <2>4, <2>5 DEF SizeInv, IntakeTypeOK
<1> QED
  BY <1>1, SizeInductive, IntakeInvariant, PTL DEF IntakeSpec, TypeInv

----------------------------------------------------------------------------
(***************************************************************************)
(* Why an order is refused as the second one of a turn.  The memory of the *)
(* processor is of the turn the engine is in, or of an earlier one; while  *)
(* it is of the engine's own, the order of every unit in it is waiting for *)
(* the engine, on its way to it, or given, but for the units under whose   *)
(* name somebody sent a start.  Only a reset takes the engine back to a    *)
(* turn the processor may remember.                                        *)
(***************************************************************************)
Coming(u) ==
    \/ validated # NoMessage /\ validated.unit = u /\ IsOrder(validated)
    \/ \E i \in DOMAIN engineCh : engineCh[i].unit = u /\ IsOrder(engineCh[i])

Given(u) == ordersThisTurn[u] # NoOrder

MemoryInv ==
    \A u \in seenUnits \ asked :
      /\ u \in Units /\ currentTurn <= cache.turn
      /\ (pc = "idle" /\ ~gameOver /\ currentTurn = cache.turn) => Coming(u) \/ Given(u)

\* no handler for a reset, and nobody sends one as an order
NoResets ==
    /\ "RESET_GAME" \notin Requests
    /\ \A k \in Keys : \A o \in Submissions[k] : o.type # "RESET_GAME"

LEMMA NoResetIsSent ==
  ASSUME NoResets, NEW m \in SentMessage
  PROVE  m.order.type # "RESET_GAME"
  BY MessageCases DEF NoResets

LEMMA OrderIsOne == \A o \in Order : o # NoOrder
<1> SUFFICES ASSUME NEW o \in Order PROVE o # NoOrder
  OBVIOUS
<1>1. o.type \in OrderTypes
  BY DEF Order
<1>2. NoOrder.type \notin OrderTypes
  BY DEF NoOrder, OrderTypes
<1> QED
  BY <1>1, <1>2

LEMMA CacheTurn == TypeOK => cache.turn \in Nat /\ cache.turn \in 1..MaxTurns
<1> SUFFICES ASSUME TypeOK PROVE cache.turn \in Nat /\ cache.turn \in 1..MaxTurns
  OBVIOUS
<1>1. cache \in WorldStateCache
  BY DEF TypeOK
<1>2. cache.turn \in 1..MaxTurns
  BY <1>1 DEF WorldStateCache
<1>3. MaxTurns \in Nat
  BY GameAssumption
<1>4. 1..MaxTurns \subseteq Nat
  BY <1>3
<1> QED
  BY <1>2, <1>4

LEMMA MemoryProcess ==
  ASSUME QueueInv, MemoryInv, TypeOK, NEW n \in Partitions, ProcessMessage(n)
  PROVE  MemoryInv'
<1> DEFINE m == Head(raw[n])
           seen == Remembered(seenUnits, m)
<1>1. engineCh' = engineCh /\ validated = NoMessage
      /\ UNCHANGED <<pc, cache, result, ordersThisTurn>>
  BY DEF ProcessMessage, vars, control
<1>2. gameOver' = gameOver /\ \A u : Given(u)' = Given(u)
  BY <1>1 DEF Given, gameOver
<1>3. CASE Panics(m, seen)
  <2>1. UNCHANGED <<seenUnits, currentTurn, asked, validated>>
    BY <1>3 DEF ProcessMessage, memory
  <2>2. \A u : Coming(u)' = Coming(u)
    BY <1>1, <2>1 DEF Coming
  <2> QED
    BY <1>1, <1>2, <2>1, <2>2 DEF MemoryInv
<1>4. CASE ~Panics(m, seen)
  <2>1. m \in SentMessage
    BY <1>4, TakeKeeps DEF ProcessMessage
  <2>2. /\ currentTurn' = m.turn
        /\ asked' = Remembered(asked, m) \cup {u \in {m.unit} : m.order.type \in SystemTypes}
        /\ \/ Validate(m, seen) /\ seenUnits' = seen \cup {m.unit} /\ validated' = m
           \/ seenUnits' = seen /\ validated' = validated
    BY <1>4 DEF ProcessMessage
  <2> HIDE DEF m
  <2>3. SUFFICES ASSUME NEW u \in seenUnits' \ asked'
                 PROVE  /\ u \in Units /\ currentTurn' <= cache'.turn
                        /\ (pc' = "idle" /\ ~gameOver' /\ currentTurn' = cache'.turn)
                             => Coming(u)' \/ Given(u)'
    BY DEF MemoryInv
  <2>4. CASE u \in seen
    <3>1. currentTurn' = currentTurn /\ u \in seenUnits \ asked
      BY <2>2, <2>3, <2>4 DEF Remembered
    <3>2. /\ u \in Units /\ currentTurn <= cache.turn
          /\ (pc = "idle" /\ ~gameOver /\ currentTurn = cache.turn) => Coming(u) \/ Given(u)
      BY <3>1 DEF MemoryInv
    <3>3. Coming(u) => Coming(u)'
      BY <1>1 DEF Coming
    <3> QED
      BY <1>1, <1>2, <3>1, <3>2, <3>3
  <2>5. CASE u \notin seen
    <3>1. u = m.unit /\ Validate(m, seen) /\ validated' = m
      BY <2>2, <2>3, <2>5
    <3>2. IsOrder(m)
      BY <2>2, <2>3, <3>1 DEF IsOrder
    <3>3. Addressed(m, seen)
      BY <3>1, <3>2 DEF Validate, IsOrder
    <3>4. u \in Units /\ currentTurn' = cache'.turn /\ cache'.turn \in Nat
      BY <1>1, <2>2, <3>1, <3>3, CacheTurn DEF Addressed
    <3>5. m # NoMessage
      <4>1. m.unit \in Units /\ "" \notin Units
        BY <3>1, <3>4, UnitAssumption
      <4>2. NoMessage.unit = ""
        BY DEF NoMessage
      <4> QED
        BY <4>1, <4>2
    <3>6. Coming(u)'
      BY <3>1, <3>2, <3>5 DEF Coming, IsOrder
    <3> QED
      BY <3>4, <3>6
  <2> QED
    BY <2>4, <2>5
<1> QED
  BY <1>3, <1>4

LEMMA MemoryRoute ==
  ASSUME QueueInv, MemoryInv, RouteValidated
  PROVE  MemoryInv'
<1>1. /\ UNCHANGED <<pc, cache, result, ordersThisTurn, seenUnits, currentTurn, asked>>
      /\ engineCh' = Append(engineCh, validated)
  BY DEF RouteValidated, vars, control, memory
<1>2. ASSUME NEW u \in Units, Coming(u) PROVE Coming(u)'
  <2>1. engineCh \in Seq(PassedMessage) /\ validated \in PassedMessage
    BY DEF QueueInv, RouteValidated
  <2>2. /\ DOMAIN engineCh' = 1..(Len(engineCh) + 1) /\ DOMAIN engineCh = 1..Len(engineCh)
        /\ Len(engineCh) \in Nat
        /\ \A i \in 1..Len(engineCh) : engineCh'[i] = engineCh[i]
        /\ engineCh'[Len(engineCh) + 1] = validated
    BY <1>1, <2>1, AppendProperties, LenProperties
  <2>3. CASE validated.unit = u /\ IsOrder(validated)
    <3>1. Len(engineCh) + 1 \in DOMAIN engineCh'
      BY <2>2
    <3> QED
      BY <2>2, <2>3, <3>1 DEF Coming, IsOrder
  <2>4. ASSUME NEW i \in DOMAIN engineCh, engineCh[i].unit = u, IsOrder(engineCh[i])
        PROVE  Coming(u)'
    <3>1. i \in DOMAIN engineCh' /\ engineCh'[i] = engineCh[i]
      BY <2>2, <2>4
    <3> QED
      BY <2>4, <3>1 DEF Coming, IsOrder
  <2> QED
    BY <1>2, <2>3, <2>4 DEF Coming
<1>3. \A u \in Units : Given(u)' = Given(u)
  BY <1>1 DEF Given
<1>4. gameOver' = gameOver
  BY <1>1 DEF gameOver
<1> QED
  BY <1>1, <1>2, <1>3, <1>4 DEF MemoryInv

LEMMA MemoryReceive ==
  ASSUME NoResets, TypeOK, QueueInv, MemoryInv, EngineReceives
  PROVE  MemoryInv'
<1> DEFINE m == Head(engineCh)
<1>1. /\ engineCh \in Seq(PassedMessage) /\ engineCh # <<>> /\ m \in PassedMessage
      /\ engineCh' = Tail(engineCh) /\ UNCHANGED processor
  BY HeadTailProperties DEF QueueInv, EngineReceives
<1>2. m \in SentMessage /\ m.order.type # "RESET_GAME"
  BY <1>1, NoResetIsSent DEF PassedMessage
<1>3. \/ IsOrder(m) /\ ReceiveOrder(m.unit, m.order)
      \/ ~IsOrder(m) /\ UNCHANGED <<pc, result, ordersThisTurn>>
           /\ cache'.turn = cache.turn
  BY <1>2 DEF EngineReceives, StartGame, vars, control, SystemTypes, IsOrder, TypeOK, WorldStateCache
<1>4. UNCHANGED <<pc, result>> /\ cache'.turn = cache.turn
  BY <1>3 DEF ReceiveOrder
<1>5. UNCHANGED <<seenUnits, currentTurn, asked, validated>> /\ gameOver' = gameOver
  BY <1>1, <1>4 DEF processor, memory, gameOver
<1>6. ASSUME NEW u \in Units, Given(u), ~gameOver PROVE Given(u)'
  <2>1. CASE ~IsOrder(m)
    BY <1>3, <1>6, <2>1 DEF Given
  <2>2. CASE IsOrder(m)
    <3>1. m.unit \in Units /\ m.order # NoOrder
      BY <1>1, <2>2, OrderIsOne DEF PassedMessage
    <3>2. ordersThisTurn' = [ordersThisTurn EXCEPT ![m.unit] = m.order]
      BY <1>3, <1>6, <2>2 DEF ReceiveOrder
    <3>3. DOMAIN ordersThisTurn = Units
      BY DEF TypeOK
    <3> HIDE DEF m
    <3> QED
      BY <1>6, <3>1, <3>2, <3>3 DEF Given
  <2> QED
    BY <2>1, <2>2
<1>7. ASSUME NEW u \in Units, Coming(u), ~gameOver PROVE Coming(u)' \/ Given(u)'
  <2>1. CASE validated # NoMessage /\ validated.unit = u /\ IsOrder(validated)
    BY <1>5, <2>1 DEF Coming
  <2>2. ASSUME NEW i \in DOMAIN engineCh, engineCh[i].unit = u, IsOrder(engineCh[i])
        PROVE  Coming(u)' \/ Given(u)'
    <3>1. /\ DOMAIN engineCh = 1..Len(engineCh) /\ Len(engineCh) \in Nat
          /\ DOMAIN engineCh' = 1..(Len(engineCh) - 1)
          /\ \A j \in 1..(Len(engineCh) - 1) : engineCh'[j] = engineCh[j + 1]
          /\ m = engineCh[1]
      BY <1>1, HeadTailProperties, LenProperties
    <3>2. CASE i = 1
      <4>1. m.unit = u /\ IsOrder(m)
        BY <2>2, <3>1, <3>2
      <4>2. m.order # NoOrder
        BY <1>1, <4>1, OrderIsOne DEF PassedMessage
      <4>3. ordersThisTurn' = [ordersThisTurn EXCEPT ![u] = m.order]
        BY <1>3, <1>7, <4>1 DEF ReceiveOrder
      <4>4. DOMAIN ordersThisTurn = Units
        BY DEF TypeOK
      <4> HIDE DEF m
      <4> QED
        BY <4>2, <4>3, <4>4 DEF Given
    <3>3. CASE i # 1
      <4>1. i - 1 \in DOMAIN engineCh' /\ engineCh'[i - 1] = engineCh[(i - 1) + 1]
            /\ (i - 1) + 1 = i
        BY <2>2, <3>1, <3>3
      <4> QED
        BY <2>2, <4>1 DEF Coming
    <3> QED
      BY <3>2, <3>3
  <2> QED
    BY <1>7, <2>1, <2>2 DEF Coming
<1> QED
  BY <1>4, <1>5, <1>6, <1>7 DEF MemoryInv

LEMMA MemoryTick ==
  ASSUME TypeOK, MemoryInv, SizeInv, EngineTick
  PROVE  MemoryInv'
<1>1. UNCHANGED <<seenUnits, currentTurn, asked, validated, engineCh>>
  BY DEF EngineTick, intake, processor, memory
<1>2. cache.turn \in Nat /\ currentTurn \in Nat
  BY CacheTurn DEF SizeInv
<1>3. CASE StepWinConditions
  <2>1. /\ result' = Outcome
        /\ cache'.turn = IF Outcome = "NONE" THEN cache.turn + 1 ELSE cache.turn
    BY <1>3 DEF StepWinConditions, TypeOK, WorldStateCache
  <2>2. CASE Outcome = "NONE"
    BY <1>1, <1>2, <2>1, <2>2 DEF MemoryInv
  <2>3. CASE Outcome # "NONE"
    BY <1>1, <2>1, <2>3 DEF MemoryInv, gameOver
  <2> QED
    BY <2>2, <2>3
<1>4. CASE MiddleStep \/ BeginTurn \/ TickAfterGameOver
  <2>1. cache' = cache /\ pc' # "idle"
    BY <1>4, MiddleStepFrame DEF BeginTurn, TickAfterGameOver, Steps
  <2> QED
    BY <1>1, <2>1 DEF MemoryInv
<1> QED
  BY <1>3, <1>4 DEF EngineTick, MiddleStep

LEMMA MemoryInductive ==
  ASSUME WithKafka, NoResets
  PROVE  /\ IntakeInit => MemoryInv
         /\ TypeOK /\ QueueInv /\ SizeInv /\ MemoryInv /\ [IntakeNext]_all => MemoryInv'
<1>1. IntakeInit => MemoryInv
  BY DEF IntakeInit, MemoryInv
<1>2. ASSUME TypeOK, QueueInv, SizeInv, MemoryInv, [IntakeNext]_all PROVE MemoryInv'
  <2>1. CASE \/ \E m \in SentMessage : Accept(m)
             \/ (\E n \in Partitions : OthersTake(n))
             \/ Publish \/ Rebalance \/ UNCHANGED all
    <3>1. UNCHANGED <<pc, cache, result, ordersThisTurn, processor, engineCh>>
      BY <1>2, <2>1 DEF Accept, Publish, OthersTake, Rebalance, all, vars, control, intake
    <3> QED
      BY <1>2, <3>1 DEF MemoryInv, Coming, Given, gameOver, processor, memory
  <2> QED
    BY <1>2, <2>1, IntakeCases, MemoryProcess, MemoryRoute, MemoryReceive, MemoryTick
<1> QED
  BY <1>1, <1>2

(***************************************************************************)
(* In a game that is not reset, a unit whose order is refused as its       *)
(* second one has its first one in the engine, however the messages are    *)
(* delayed, delivered again or reordered between the partitions, or        *)
(* somebody has sent a start under the unit's name.                        *)
(***************************************************************************)
THEOREM RefusalCorrect ==
  ASSUME WithKafka, NoResets
  PROVE  IntakeSpec => []RefusalHasReason
<1>1. MemoryInv => RefusalHasReason
  <2> SUFFICES ASSUME MemoryInv, Quiet, currentTurn = cache.turn,
                      NEW u \in seenUnits \ asked
               PROVE  ordersThisTurn[u] # NoOrder
    BY DEF RefusalHasReason
  <2>1. ~Coming(u)
    BY DEF Quiet, Coming
  <2> QED
    BY <2>1 DEF MemoryInv, Quiet, Given
<1> QED
  BY <1>1, MemoryInductive, SizeInductive, IntakeInvariant, PTL DEF IntakeSpec, TypeInv
=============================================================================
