# Verification of the Ring of the Middle Earth game server

This directory holds a TLA+ model of the Go server in `src/option-b`: modules
translated from its source, TLC configurations that model-check them on small
maps, and theorems that TLAPS proves for every map, army and game length.

    tlc -config MCHunt.cfg MCHunt        # model-check one configuration
    tlapm TurnTheorems.tla               # check the proofs of one module

## 1. The system

Two players, the Light Side (Free Peoples) and the Dark Side (Shadow), play a
turn-based game. A browser sends orders by HTTP and gets what happens as
server-sent events. The server is a set of goroutines connected by channels and
by Kafka topics; one of them owns the state of the game.

    browser --POST--> api/handler --kafkaOrderCh(100)-> main's goroutine
                         |  ^                              | Produce
                  503 <--+  | reads cache                  v
                            |                     game.orders.raw (keyed)
    published cache <-------+--------- reads ------+       |
       ^  (RWMutex, copies)                        |       v
       |                              kafka/consumer -> OrderProcessor -> Validate
       | Update                                            |
    TurnProcessor.Run <---- engineCh(100) <---- RouteEvent-+
       | producerCh(200), PublishDirect
       v
    game.broadcast, game.ring.position, game.ring.detection, game.events.*
       |
       v
    EventConsumer --RouteEvent--> lightSideSSECh / darkSideSSECh
       --EventRouter.Run--> Client.Ch(50) --ServeSSE--> browser

Without a producer (Kafka unreachable at the start) main sends orders straight
to `engineCh`: the loopback mode.

### Components

| Component | State it keeps | Operations | Talks to |
|---|---|---|---|
| Turn engine (`engine/turn_processor.go`, `engine/cache.go`) | the published cache; secretly the Ring Bearer's true region, its exposure and the last detection; the orders of the turn; whether the game is over | `Run`: receive an order, start, reset, tick; `processTurn`: thirteen steps and the publication | reads `engineCh`, writes the cache and `producerCh` |
| Game rules (`internal/game`) | none | combat power, damage, detection, abilities, adjacency | called by the engine and the validator |
| Order intake (`api/handler.go`, `kafka/processor.go`, `kafka/validator.go`, `kafka/consumer.go`, parts of `main.go`) | `kafkaOrderCh`, the topic, the units seen this turn and the turn of the last order, `engineCh` | submit, start, reset, publish, validate, route | reads the cache, feeds the engine |
| Event routing and SSE (`engine/event_router.go`, `kafka/event_consumer.go`) | the two side channels, the registries of clients, each client's channel | poll and route an event, connect, disconnect, register, deliver, write | Kafka to browsers |
| Route risk pipeline (`engine/pipeline1.go`) | `dispatchCh`, `workerCh`, a result channel for each request | request with a time limit, dispatch, score the canonical routes, answer | handlers; reads the cache |
| Interception pipeline (`engine/pipeline2.go`) | the same and `aggregateCh` | request, trigger on a detection, score, aggregate, route a plan | handlers and the engine |
| Kafka producer (`kafka/producer.go`, `kafka/avro.go`) | one transactional producer, the transaction that is open | `Produce`, `ProduceTransactional`: begin, produce, commit, abort | called by four goroutines |
| Process wiring (`main.go`) | the initial cache, `done`, a wait group | start the goroutines, shut down | all of the above |
| Configuration loader (`game/config.go`) | the block and the section that are open | parse `units.conf` and `map.conf` | main |
| Browser client (`src/ui`) | what is rendered | order forms, merging of events | HTTP, SSE |
| Deployment (`docker-compose.yml`, `nginx.conf`, `kafka/`) | three server instances, brokers, topics | start, fail over | everything |

### What is hard in it

* **Two clocks.** The engine's tick and the way of an order are independent: an
  order is judged against the cache of one turn and carried out in whichever turn
  the engine is in when it takes the order.
* **Thirteen steps that undo one another.** A path is blocked in step 3 by a unit
  that may walk away in steps 4, 7 and 8 or die in step 8; step 9 turns openings
  back into blocks. Three sweeps have to catch every case.
* **One secret in three places.** The Ring Bearer has a public region (always
  empty), the engine's true region and the Light Side's view. Moves and resets
  must keep the last two in step, and the router must keep them from one side.
* **Go's map iteration.** Units and battles are visited in random order, and
  the outcome depends on it.
* **Bounded channels.** Some senders wait for room (`engineCh`), others throw the
  event away (`lightSideSSECh`, `darkSideSSECh`, `Client.Ch`), others answer 503
  (`kafkaOrderCh`).
* **select.** `Run` of the router picks any ready case, so registrations and
  removals overtake one another.
* **One transaction, four callers.** The event goroutine, the order goroutine, the
  consumer and the engine use one transactional producer without a lock; who
  comes while another is inside gets an error, which is dropped or logged.
* **Redelivery.** Offsets are committed in the background. A consumer that loses
  its partitions gets handled orders again, and meets its own memory of them; or
  another instance gets them, with an engine of its own.
* **Unchecked payloads.** `POST /order` takes any JSON; one type assertion in the
  validator ends the process when an element of `pathIds` is no string.
* **Late answers.** A handler gives up after two seconds; its request goes on
  through dispatcher and workers.
* **Partial reads.** The loader goes by what a line begins with; the layout of a
  text file decides what a unit can do.

`PROJECT.json` lists the hazards one by one with the line where each bites.

### What makes each component correct

* *Turn engine*: the published state is consistent (blocks have blockers, active
  units are real, the fallen stay fallen, surveillance only grows); the Ring Bearer
  goes one path a turn at most and on the public board nothing but an order shows
  where it is; the Shadow wins when it must and not before the hidden turns are over;
  the game's stages and turns follow one another, end, and stay ended.
* *Order intake*: the engine gets only orders it was written for, each from the
  player of the unit's side; a unit is refused as a duplicate for a reason; the
  Ring is destroyed only at the order of the Ring Bearer; orders keep moving.
* *Event routing*: neither side gets an event of the topic that is the other's, nor
  the Dark Side a snapshot that could be parsed and shows the Ring Bearer; between two
  rebalances events of one stream come in order and once; an open connection is
  registered; a browser that stops reading holds nobody up.
* *Pipelines*: a request is in one place at a time; an answer is about one state
  and right for it; late answers block no worker; nobody sends on a closed
  channel; after `done` every goroutine ends.
* *Producer*: a transaction is one caller's; a message is written once at most, those
  of one caller in order, and is lost only for a reason; callers return if Kafka
  answers.
* *Loader*: a field ends up in the unit it was written for; what stands above the
  last line of a block (of an array, its first line), a setting anywhere and every map
  entry are read.
* *Wiring*: `SIGTERM` ends the process (it does not, see `shutdown_hangs`).

## 2. The modules

| Module | What it is |
|---|---|
| `GameMap` | constants: regions, paths and their ends; adjacency |
| `GameRules` | constants: units and their configuration; records of a unit, a path, a region; combat, damage, detection, abilities |
| `TurnProcessor` | the engine's state machine: one action per operation of `Run` and per step of `processTurn` |
| `GameLifecycle` | the abstract specification of a game: stage (waiting, playing, over) and turn |
| `TurnProperties` | properties of the engine; the refinement of `GameLifecycle` |
| `OrderIntake` | the way of an order, composed with `TurnProcessor` (which it EXTENDS) |
| `IntakeProperties` | properties of the intake; here `TurnProcessor!Spec` is the abstract specification |
| `EventRouting`, `EventProperties` | topics to browsers, and its properties |
| `MessageLog` | the abstract specification of the producer: a message is written at most once or lost |
| `TxnProducer`, `ProducerProperties` | the producer and its four callers; its properties and the refinement of `MessageLog` |
| `RouteAnalysis` | what the pipelines compute, as operators on a copy of the state |
| `AnalysisPools`, `PoolProperties` | the pipelines as they run, from handlers and triggers to the end main waits for |
| `ConfigLoader`, `ConfigProperties` | the two parsers and what main makes of the settings |
| `Soldiers` | building blocks for instances |
| `MCHunt`, `MCSiege`, `MCBattle`, `MCIntake`, `MCEvents`, `MCProducer`, `MCPools`, `MCConfig` | instances for TLC |
| `TurnTheorems`, `BoardTheorems`, `IntakeTheorems`, `EventTheorems`, `ProducerTheorems`, `ConfigTheorems`, `RouteTheorems`, `PoolTheorems` | proofs: of the engine (types, secret, game; then what is on the board), of the intake over them, of the other components; `PoolTheorems` builds on `RouteTheorems` |

Operators whose comment begins with *mutant* are plausible bugs of the code,
kept beside the definition they alter; no specification uses them. They show that
each property can be broken by a change of the code.

### TurnProcessor and the code

| Model | Code |
|---|---|
| `cache` | `WorldStateCache`: turn, phase, units, paths, regions, LightView and DarkView |
| `trueRegion`, `exposed`, `lastDetected` | the engine's `ringBearer` tracker |
| `ordersThisTurn`, `orders` | `tp.ordersThisTurn` and the copy processTurn takes of it |
| `result` | `tp.gameOver`, with the winner that was emitted |
| `units`, `paths`, `regions`, `lightRegion` | the snapshot processTurn works on |
| `pc` | the place in `Run` or the step of `processTurn` |
| `todo` | what the step's `range` over a Go map has not visited yet |
| `ReceiveOrder`, `StartGame`, `ResetGame`, `BeginTurn`, `TickAfterGameOver`, `Done` | the cases of `Run`'s select |
| `StepAssignRoutes` ... `StepWinConditions` | steps 2 to 13; step 1 is `BeginTurn` |

A step whose result does not depend on the order of a range is one action on all
units at once. The steps where it does (maia abilities, walking, battles) visit
one unit or region per action, in any order; the last blocker of a path is chosen
among those that blocked it. A whole turn is thus the interleaving the Go runtime
may produce, and other goroutines see only `cache`, written by one action.

`FirstLightView` is the region that main writes into the first LightView
(`main.go:80`, "the-shire"), whatever the start region of the Ring Bearer is; a reset
writes the true one. `MCHunt` has a bearer that starts elsewhere. `LightViewIsTrue` and
`RingBearerPace` except that literal as long as the bearer stands where it started.

Left out: the wording of events, the wall clock (any tick may be the one that
ends the turn), and the events themselves. `emit` sends them on `producerCh` with a
default case and never waits. `emitGameOver` does wait inside `processTurn`: for the
producer's transaction and, when that fails or there is none, for room in `producerCh`
(`turn_processor.go:1129`, `1137`). It comes after the result is set, so what it holds up is
the publication of the last turn; `TxnProducer` models the wait (`EmitGameOver`,
`ReturnError`). The Go map of regions is keyed by strings; an empty string stands for
*none*, as in the code.

### OrderIntake and the code

| Model | Code |
|---|---|
| `SubmitOrder`, `SubmitToSystem` | `SubmitOrder`, `StartGame`, `ResetGame` of `api/handler.go`; a full channel answers 503 |
| `Publish` | main's goroutine on `kafkaOrderCh`: produce, or be lost, or the loopback |
| `Sendable`, `Submissions` | what a browser may put into an order: any type, START_GAME and RESET_GAME included, under any unit's name, and elements of `pathIds` that are no strings |
| `ProcessMessage`, `Validate` and its rules | `OrderProcessor.ProcessMessage`, `OrderValidator.Validate`, which lets a start and a reset of anybody pass |
| `Panics`, `crashed` | the type assertion in `extractPathIDs` (`validator.go:166`), which `Validate` (for the Ring Bearer) and `Enrich` (for whatever is valid) call |
| `RouteValidated` | the consumer's `onValidated`, into `EventRouter.RouteEvent` |
| `EngineReceives`, `EngineTick` | `Run` of the engine, with the actions of `TurnProcessor` |
| `Take`, `handled`, `Rebalance` | `Consumer.Start`: polling, the offsets not yet committed, and what comes again when the partitions are assigned anew |
| `assigned`, `OthersTake` | the partitions of this instance (`consumer.go:160`), and the other instances of `ring-engine-group` (`main.go:258`) reading the rest |

`raw` is one queue for each partition (three in `init-topics.sh`), which
`PartitionOf` gives for each key: messages of one partition stay in order and nothing else
does. `Rebalance` ends the session of the consumer (`session.timeout.ms` is 6000) or adds or
removes an instance; afterwards this instance has any set of the partitions, each read
from any commit on up to the last handled message, while the engine, the cache and the
processor's memory stay as they are, since the process lives on. An order on its way out is
not cut in two: the loop is between two polls. The module is about one instance; what
another one takes is handled by its own engine, which is not modelled: if that engine is
idle or in another game, such an order has no effect in this one, which the divergences
name. A player may send an order for any unit and any turn. That `Produce` may fail is an
outcome of `Publish`, since its error is dropped. `asked` is an auxiliary variable, the
units under whose name somebody sent a start or a reset.

A panic ends the behaviour of the instance. Its restart is not in this module: the new
process begins in `Init` with what is left of the topic, the message that ended the old
one included, and panics again when it comes to it, or the instance that gets the
partition does.

### EventRouting and the code

| Model | Code |
|---|---|
| `Publish` (external) | the engine's events, arriving at Kafka |
| `Poll`, `RouteEvent` | `EventConsumer.Start`, `EventRouter.RouteEvent` |
| `Connect`, `Write`, `Disconnect` | `ServeSSE`: register, its select, the deferred removal |
| `Register`, `Unregister`, `LightEvent`, `DarkEvent` | the cases of `EventRouter.Run` |
| `Rebalance`, `committed` | `EventConsumer.Start`: revoked and assigned partitions; the client library commits offsets by itself |
| `lightClients`, `darkClients` | the registries, keyed by the player's identifier |
| `Ch[c]` | the channel of the client made for request `c` |

An event is its stream, its number and whether it *shows* the Ring Bearer: this is
all that the routing properties tell apart. What is handed on also says whether it
can be parsed (`event_consumer.go:95` passes raw bytes on where Avro fails, and
`stripRingBearer` returns what it cannot parse as it is) and in which era, the number of
rebalances before, it was polled. A stream is one partition of a topic. Each instance has a
group of its own (`sse-group-` and its identifier), so nobody shares its partitions, but its
session may end: the group is then assigned its partitions anew and polls them from the last
commit on, or from the end where nothing was committed (`auto.offset.reset` is latest).
A fatal error of the client ends the consumer's goroutine (`event_consumer.go:106`); no
events reach the browsers of the instance from then on, and this is not modelled.
Connections are used once; a browser that comes back is another connection with
the same `PlayerID`. `Connections`, `PlayerID` and `Side` are constants, so an
instance says which tabs share an identifier.

### TxnProducer and the code

| Model | Code |
|---|---|
| `EmitEvent`, `EmitGameOver` | `emit` (drops what does not fit), `emitGameOver` of the engine |
| `AcceptOrder`, `ProcessOrder` | a handler's send on `kafkaOrderCh`; `SendToValidated`, `SendToDLQ` |
| `TakeEvent`, `TakeOrder` | main's two goroutines |
| `Begin`, `Produce`, `Commit`, `Abort` | the steps of `Produce` and `ProduceTransactional` (`kafka/producer.go`) |
| `ReturnError` | what each caller does with an error: log, drop, or (GameOver) send on `producerCh` |
| `TxnError`, `Fence`, `CrashAndRestart` | the client library, the broker and the operating system; `NewProducer` |

The client library is external and modelled from how it is used: `BeginTransaction`
fails unless the producer is ready, so does `Produce` without an open transaction, an
abort repairs an abortable error, a fatal one stays; consumers read what is
committed. What is being committed when an answer is lost may or may not have been
written. `CommitTransaction` and `AbortTransaction` are called with a nil context
(`producer.go:128`, `135`, `136` and on), hence without a time limit: while Kafka is silent
(`Silence`, `Answer`) they do not return. The error of an abort is thrown away; one that
fails leaves the transaction as it was ("left"), and every later call fails at its begin.
`Flush` returns the number of messages and reports that are left; main never drains
`kp.Events()`, so whether delivery reports are counted depends on the client library, and
the model has a `Flush` before GameOver that may fail for that reason, too, as one of the
errors. A message is its number in the order of offering.

### RouteAnalysis, AnalysisPools and the code

| Model | Code |
|---|---|
| `RiskScore`, `RankRoutes` | `computeAllRouteRisks`, `rankRoutes` of `pipeline1.go` |
| `Exchange`, `Pass`, `InOrder` | the exchange sort in `rankRoutes`: its `if`, its inner and its outer loop |
| `Distance`, `PathCost`, `Score`, `ComputeInterceptionPlans` | `bfsDistance`, `pathCostToRegion`, the score and the whole of `computeInterceptionPlans` in `pipeline2.go` |
| `Better`, `BestOn`, `BestOffer` | its `if score > bestScore`, its loop over the regions of a route and its loop over routes |
| `Ask`, `Send`, `GiveUp`, `TakeResult` | `Request` of either pipeline, with its two selects |
| `Trigger` | `TriggerAsync`, called by step 12 |
| `HelperAnswers` | the goroutine of a request that the workers do not serve |
| `Dispatch`, `HandOver`, `EndDispatcher` | the dispatcher; `held` is the request between its two channels |
| `TakeJob`, `Deliver`, `Aggregate`, `EndJob`, `EndWorker` | the workers |
| `RoutePlan`, `CloseAggregate`, `EndAggregator` | the aggregator and the goroutine that closes its channel |
| `Shutdown`, `CallDone` | `done`, and `wg.Done` of the pipeline |

The pipelines share nothing, so a behaviour is about one of them. That a time is
over and that a handler gives up is one step. A score is a fraction, compared as
one. `srv.Shutdown` and its limit of ten seconds are left out: they do not touch
the pipelines.

### ConfigLoader and the code

| Model | Code |
|---|---|
| `SkipComment`, `ReadSetting`, `EnterUnits`, `SkipText`, `CloseUnit`, `BeginLine`, `ApplyUnitField`, `EndLine`, `EndUnits` | the loop of `LoadUnitsConfig` and `parseUnitFields`, case by case in the order of the code |
| `EnterSection`, `ReadEntry`, `SkipMapLine`, `EndMap` | the loop of `LoadMapConfig`, `extractInlineFields` |
| `BeginSession` | what main puts in the place of a setting that is not positive |
| `Unreadable` | `log.Fatalf` in main |

A line is a record of what the loaders tell apart: how it begins, whether it has a
brace, which fields it holds. The way from characters to these records
(`TrimSpace`, `Trim`, `SplitN`) is abstracted.

## 3. What is checked

Run times are for two workers.

### Runs that pass

| Run | Instance | What it shows |
|---|---|---|
| `hunt` | three regions in a row, a first cache that names another region than Frodo's, Frodo, Aragorn, a nazgul, Sauron; three turns, one of them hidden; starts, resets and the end of the goroutine at any time; 2.2 million states, a minute and a half | `TypeOK`, `CaptureIsCertain`, `NoCaptureWhileHidden`, `LightViewIsTrue`, `RingBearerPace`, `OnlyOrdersReveal`, `GameOverIsFinal`, and that the engine implements `GameLifecycle` (`ImplementsLifecycle`) |
| `siege` | one ford that two units block or search, one opens, one corrupts, others cross or attack; 2 million states, a minute and a half | `BlockHasBlocker`, `SurveillanceGrows` |
| `battle` | a stronghold and a fortress between six units: leaders, respawning, indestructible and fortifying ones, with battles in any order | `ActiveUnitsAreReal`, `DestroyedStaysDestroyed` |
| `intake` | two players and three requests, starts and resets included, also under a unit's name, a payload that panics, two turns, partitions shared with other instances; 635 000 states, a minute | `IntakeTypeOK`, `OrdersAreOwn`, `IntakeImplementsEngine`, `VictoryIsOrdered` |
| `intake_game` | two requests, no resets, one rebalance that may move partitions to another instance, under fairness; 133 000 states, three minutes | `RefusalHasReason`, `OrdersAreHandled`, `PlayedGameEnds` |
| `events` | a tab of each side under one identifier; four streams, two events, snapshots that cannot be parsed, one rebalance, tabs that may stop reading, under fairness; 1 million states, three and a half minutes | `TypeOK`, `EachSideItsOwn`, `OpenIsRegistered`, `DeliveredInOrder`, `NobodyWaits` |
| `producer` | three messages of any of the four callers, two errors (of a call, of a transaction, of an abort, a fencing, a broker that falls silent), one crash, under fairness; 359 000 states, three and a half minutes | `TypeOK`, `OneTransaction`, `CallersInOrder`, `LossHasReason`, `WrittenAtMostOnce` (the refinement of `MessageLog`), `CallersReturn` |
| `pools` | two handlers, two triggers, two workers, two published states, a shutdown at any time, either pipeline, under fairness; 33 000 states, half a minute | `TypeOK`, `OneHolder`, `NothingAfterClose`, `RanksOneState`, `PlansAreFeasible`, `NobodyIsStuck` |
| `config` | two units in every layout of their fields on lines, a setting before, between or after them; the sections of the map in both orders, one of them twice; 117 000 states | `TypeOK`, `FieldsAreOwn`, `FilesAreRead`, `SettingsAreRead` |

`RanksOneState` and `PlansAreFeasible` are what the pure functions of the
pipelines are checked against: a ranking is a permutation of the canonical
routes in order of risk, and a plan is compared with the walks of the graph
(`Walk`) and with the way between two regions of a route, not with another
computation of distances. What a plan promises about the Ring Bearer is less than it
seems: `pathCostToRegion` is 0 for a region behind the bearer and on routes the bearer is
not on (`pipeline2.go:270`), so a Nazgul that stands there has a plan of no turns.

### Runs that find a disagreement

Each of these checks one property that states what a comment of the
repository says, and TLC finds a behaviour of the code that breaks it.

| Run | Property | What the code does |
|---|---|---|
| `config_lost` | `FieldsAreRead` | a line with "}" ends the unit before its fields are read (`config.go:78`). In `src/config/units.conf` this loses canFortify of gondor-army, ignoresFortress of uruk-hai-legion and the cooldowns of gandalf and saruman |
| `game_over_lost` | `GameOverIsWritten` | GameOver is lost without any error of Kafka: its transaction collides with another goroutine's, it falls back to `producerCh`, and the transaction it gets there collides again (`producer.go:179`) |
| `shutdown_hangs` | `ShutdownEnds` | `Pipeline2.Start` never calls `wg.Done`, and main waits for ever after SIGTERM (`pipeline2.go:37`) |

### Other divergences met while modelling

The modules translate these as the code has them; no run is spent on them.

*Turn engine*

* Attackers that all fell in an earlier battle of the step still take an
  undefended region (`turn_processor.go:755`).
* The order menu offers REINFORCE_REGION for the Ring Bearer and step 4 then writes
  its public region (`turn_processor.go:448`), which `types.go:57` says is always
  empty. This is why `OnlyOrdersReveal` excepts orders that name a region.
* A walk of the Ring Bearer emits UnitMoved with both regions on `game.events.unit`
  (`turn_processor.go:697`), which goes to both sides, against `types.go:133`.
  `OnlyOrdersReveal` is about the public board only.
* The first cache names "the-shire" in LightView whatever `units.conf` says
  (`main.go:80`); true of the file as it stands.
* A detection is kept in the engine (`turn_processor.go:948`); the last detection in
  the Dark Side's view, which the analysis reads, is never written.
* A reset leaves all regions without controller and threat
  (`turn_processor.go:164`), whatever `map.conf` says.
* A reset leaves the orders of the turn and of the channels, so orders of the old
  game are carried out in the new one.
* After the end of a game the goroutine returns, and a reset accepted later is
  never carried out (`turn_processor.go:129`).
* A cooldown is set to one more than configured (`turn_processor.go:532`) and loses
  one in the same turn, so the ability is available a turn later than the comment
  beside it says.
* A stronghold taken without a battle leaves Saruman active
  (`turn_processor.go:781`).
* The engine reads a route from `pathIds` or `newPathIds`, the validator from
  `pathIds` only (`validator.go:162`, `turn_processor.go:1145`). The browser sends
  no `newPathIds`, and neither does the model.

*Order intake*

* An order of another turn, refused itself, makes the processor forget whom it has
  seen, and a second order of a unit then replaces the first (`processor.go:40`).
* After a reset the processor still remembers the units of the old game's turn 1 and
  refuses their first orders in the new one (`processor.go:39`). `RefusalHasReason`
  is for this reason checked and proved without resets.
* An order valid in one turn waits in `engineCh`, which does not look at its turn,
  and may be carried out in the next.
* In the loopback mode nothing validates an order (`main.go:241`, whose comment says
  that the validator gets it).
* Recovery reads `game.session` (`consumer.go:52`), to which nothing is ever
  produced. Main's comments (`main.go:128`, `main.go:259`) have another instance take
  over on a failure; what it takes over is a new game, in turn 1.
* Anybody may start or reset a game, and under any unit's name: `Validate` lets the two
  types pass first (`validator.go:23`). Such a message also marks the unit as seen
  (`processor.go:56`), so that its own order of the turn is refused as a second one;
  hence `asked` in `RefusalHasReason`, and the exception in `OrdersAreOwn`.
* An element of `pathIds` that is no string ends the process (`validator.go:166`). The
  message has not been committed, so the next reader of the partition meets it again.
* A comment has one partition of `game.orders.raw` and one active instance
  (`main.go:128`), another has the others' engines idle (`main.go:258`); `init-topics.sh`
  makes three partitions. Orders of one game then reach different engines, and a
  rebalance changes which; `OrdersAreHandled` speaks of the partitions of this instance.
* The menu offers DESTROY_RING with a Shadow unit in the region and ATTACK_REGION
  for the Ring Bearer, which `Validate` then refuses.

*Event routing*

* A tab that reconnects before its old request has ended loses its registration to
  the end of the old one (`event_router.go:176`), and one that leaves takes its identifier
  out of both sides' maps; `OpenIsRegistered` is about tabs whose identifier others use
  on the other side at most, and while these are open.
* A request that ends before the router has registered it is registered for ever
  (`event_router.go:174`): its two messages are on two channels.
* What `game.events.unit` carries goes to both sides: the UnitMoved of the Ring Bearer
  (`turn_processor.go:697`) and a second copy of RingBearerDetected with its region
  (`turn_processor.go:977`), although `event_router.go:76` and `turn_processor.go:971` say
  that a detection is for the Dark Side only. In the model that stream shows the Ring
  Bearer; `EachSideItsOwn` is about the topics that belong to one side, and snapshots.
* A snapshot that cannot be parsed goes to the Dark Side as it is
  (`event_router.go:125`).
* After a rebalance events that were handed on already may be polled, and written to a
  browser, again: `DeliveredInOrder` promises "once" between two rebalances only.

*Producer and wiring*

* `Produce` is documented as "outside of a transaction" (`producer.go:99`) but begins
  and commits one.
* "If any step fails, AbortTransaction() is called, leaving the topics in a clean
  state" (`producer.go:160`): the error of that call is not looked at, and after an abort
  that failed every later call fails until the instance starts again.
* No call has a time limit but `Flush`; a broker that does not answer holds its callers,
  and with GameOver the engine.
* `SetGameOverPublisher` "must be called before Run" (`turn_processor.go:86`); main
  calls it after it has started `Run` (`main.go:154` to `168`).
* On shutdown the event goroutine closes the producer while others may be
  calling it (`main.go:179`).
* `avro.go:119` writes the map `idToSchema` without a lock while other goroutines may
  read it.

*Pipelines*

* `TriggerAsync`'s plan is sent to `game.analysis.intercept`, for which `RouteEvent`
  has no case (`pipeline2.go:110`): nobody gets it.
* A handler's request looks for the Ring Bearer where the cache says it was last
  detected, which is nowhere; `PathCost` is then 0 to every target, and only Nazgul that
  stand on a route get a plan.

*Loader*, in `src/config/units.conf` as it stands

* `maiaAbilityPaths` of saruman keeps the two paths of its first line, the other
  three are cut off (`config.go:139`): `extractValue` reads an array to the end of its
  line, and what follows on the next lines is part of the next key. `FilesAreRead` says
  just this much: of an array, the part on its first line.
* A field after the end of such an array on its line is lost, and a unit on a
  single line would be lost whole; the file has neither.

### Bounds, and why they are enough

* `MaxTurns` is 2 or 3 and `HiddenUntil` 1 or 2. What a step does depends on the
  turn only by comparing it with these two, so three turns have one on each side
  of either boundary; respawns, openings and fortifications of one or two turns
  start and end inside three. Cooldowns are cut to one or two for this reason.
* Maps have two or three regions, six in `pools`. Every rule of the engine is about
  one path and its ends, or one region and its neighbours; with three in a row a unit
  can stand at an end of a path, at the other one, and away from it. A ranking needs
  three routes, and an interception a Nazgul on one of them and one that is not.
* `OrderChoices` gives each unit the orders that a scenario is about, and any
  subset of the units gets them in any turn.
* `MaxSent` (3 requests) and capacities of 1 make every channel both full and
  empty; two turns let an order arrive before, in and after its own.
* `MaxRebalances` is 1 in `intake_game` and `events`: what comes again may be any part of
  what was handled, so a second loss of the partitions adds no new kind of repetition. It
  is 0 in `intake`, where a repeated message is one more request like another, and the
  theorems have it with any number. `MaxSent` is 2 in `intake_game` for the sake of time:
  one request can change what another one meets.
* `MaxEvents` is 2, with side and client channels of 1: an event can be
  dropped, kept and followed by another in each of the three channels. Two requests
  under one identifier, of different sides, are what registrations can collide with.
* `MaxMessages` (3), `MaxErrors` (2) and `MaxCrashes` (1): two callers collide
  while a third waits, an abort fails after a commit has, and the instance comes back
  from a crash and fails again.
* `pools`: up to four requests for two workers and channels of 1, so that each of them
  is full while another request waits for it. Two published states, the bearer before a
  Nazgul in one and past it in the other, are what an answer can mix up.
* `config`: two units are the unit that loses a field and the one that could get
  it.
* The proofs need none of these bounds.

No symmetry is used: units differ in their configuration, and the instances are
small. `CHECK_DEADLOCK FALSE` stands in every configuration because each of these
systems may stop: the engine's goroutine returns after the end of a game or when
the server shuts down, players and browsers send a bounded number of requests
and events, pipelines end on `done`, and a loader ends with its files.

### Fairness

* `FairIntakeSpec`: weak fairness of `Publish` and `Consume`, whose goroutines
  have nothing else to do, and of `EngineTick`: the ticker fires every second, the
  select of `Run` chooses at random among ready cases, so a turn that is due
  begins. `processTurn` itself waits only with GameOver, after the result is set; that
  this wait ends is `CallersReturn` of the producer, which needs a broker that answers.
  All of this is of a process that has not panicked (`~crashed`). Strong fairness of `EngineReceives`:
  an order that waits in `engineCh` is ready each time `Run` comes back to its
  select, which chooses it again and again. Nothing is assumed of players: a start,
  an order or a reset may never come.
* `FairSpec` of `EventRouting`: weak fairness of polling and of each case of `Run`'s
  select: one that stays ready is chosen at some time. Nothing is assumed of
  browsers (`Write` and `Disconnect` may never happen) or of rebalances.
* `FairSpec` of `TxnProducer`: a goroutine with something in its channel takes it, and
  one inside a call goes on, if Kafka answers where the call waits for it. That Kafka
  answers is no part of it, since the calls have no time limit: `CallersReturn` is an
  implication from `<>[]answering`. Nothing is assumed of errors, crashes and new messages.
* `FairSpec` of `AnalysisPools`: every goroutine that can go on does, and the clock
  runs, so a handler's time comes to its end. Nothing is assumed of requests,
  publications and the shutdown.

## 4. What is proved

All theorems hold for every value of the constants that satisfies the named
assumptions, without bounds:

* `MapAssumption` (`GameMap`): paths have ends in the regions; "" names nothing.
* `UnitAssumption` (`GameRules`): configurations have their types and there is
  exactly one Ring Bearer, of the Free Peoples, as `units.conf` says.
* `GameAssumption` (`TurnProcessor`): at least one turn, orders are records of
  their type. There is no assumption on which orders arrive.
* `IntakeAssumption`, `ChoicesAssumption`: sides, capacities; `OrderChoices`
  holds what `Validate` lets through (`Passable`). `RoutingAssumption`,
  `ProducerAssumption`: capacities and limits, likewise.
* `ConfigAssumption`: a file is a sequence of lines, in any order and number, and the
  value of a field `id` is one string, as `applyUnitField` makes it.
* `RouteAssumption`: the canonical routes, which are constants of the program
  (`pipeline1.go:32`), are some, each with one region more than paths, joined by those
  paths, and shorter than the 999 that `bfsDistance` gives a region it does not reach;
  the four routes are so over the paths of `map.conf`;
  the units with a detection range are finitely many.
* `PoolAssumption`: some workers, capacities, and published states of their type.

TLC evaluates them in the runs. Some theorems assume more, and say so:
`StrongholdUnitsCanFall` (what the fall of a stronghold disables is not
indestructible) and `TheRingBearerFalls` (the Ring Bearer does not respawn), both
true of `units.conf`; `WithKafka` (in the loopback mode nothing is validated); and
that there are no resets.

| Theorem | Says | Inductive invariant |
|---|---|---|
| `TypeCorrect` | `TypeOK` of the engine | `TypeInv`: while units walk (`pc = "advance"`), each unit still to be visited has a path left on its route; without it `NextPath` could be outside its domain |
| `EngineImplementsLifecycle` | the engine implements `GameLifecycle` | `StageInv`: a game waiting for its players is in turn 1 and has no result, and no turn is being processed in a game that is over |
| `OverIsFinal` | after GameOver nothing published changes but by a reset | `StageInv` |
| `LightViewCorrect` | the Light Side's view is the true region; the literal of the first cache is excepted, while the bearer is where it started | `LightInv`: during a turn the *copy* has the true region, between turns copy and cache agree |
| `HiddenTurnsAreSafe` | the Shadow does not win in hidden turns | `HiddenInv`: the exposure flag is down while turn <= HiddenUntil; step 7 and step 12 agree on the boundary |
| `CaptureCorrect` | no turn after the hidden ones ends with a detector beside the Ring Bearer and the game going on | `CaptureInv`: at step 13 a detector in the region implies the flag, and a turn published without a result has no detector there |
| `PaceCorrect` | the Light Side's view moves by one path a turn at most; from the literal of the first cache, to a neighbour of the start region | `PaceInv`: up to its visit in step 7 the copy's region is the published one, afterwards it is that or a neighbour |
| `BlockCorrect` | a published block has an active Shadow blocker at an end of the path | `BlockInv`: a blocked or opened path names a Shadow unit or nobody throughout; that it stands is true only after the sweep of step 8, and kept by steps 9 to 13 and in the cache |
| `WatchCorrect` | surveillance and corruption of a path only grow | `WatchInv`: the copy is never below what is published, and a corrupted path has the highest surveillance |
| `ActiveUnitsCorrect` | active units have a strength and a region; needs `StrongholdUnitsCanFall` | `UnitInv`: so it is of the copy in every step, and what has fallen in the cache has fallen in the copy |
| `FallenStayFallen` | a destroyed unit stays so | `UnitInv`; that each step changes a unit only as it may is a relation of its own (`Lawful`), transitive, since a turn is many steps |
| `SecretCorrect` | on the public board only an order that names a region shows the Ring Bearer; needs `TheRingBearerFalls` | `RevealInv`: in a turn the copy's public region is empty, the published one or one the Ring Bearer was sent to |
| `BehindTheValidator` | with Kafka, handlers, consumer, validator and engine together implement the engine's specification | `QueueInv`: what is in each channel was sent and, after the validator, passed it; every action then maps to a step of the engine or a stutter |
| `IntakeTypes` | messages in every channel, and no more than fit | `SizeInv`, beside `QueueInv` |
| `OwnOrdersOnly` | an order that waits for the engine was sent by a player of the unit's side; starts and resets may be anybody's | `QueueInv` |
| `EngineTheoremsHoldBehindTheValidator` | what is proved of the engine alone (secret, captures, blocks, pace, surveillance, the fallen, the end of a game, `GameLifecycle`) holds of the composed system | by `BehindTheValidator` |
| `OnlyTheBearerWins` | the Light Side wins only in a turn for which the Ring Bearer was ordered to destroy the Ring | `DestroyInv`: a DESTROY_RING anywhere behind the validator is the Ring Bearer's |
| `RefusalCorrect` | without resets, a unit refused as a duplicate has its order in the engine, or somebody sent a start under its name | `MemoryInv`: the processor's turn is never ahead of the cache, and while they agree the order of each unit it remembers is on its way or given, or the unit is in `asked` |
| `SidesAreKeptApart` | neither side's browsers get an event of the other's topic, nor the Dark Side's a readable snapshot that shows the Ring Bearer | `SecretInv`: the same of the side channels, and registries hold clients of their own side |
| `OrderIsKept` | between two rebalances events of a stream come in order and once | `OrderInv`: along the way from the consumer to what was written, era and number of a stream ascend from the far end to the near one |
| `TabsAreRegistered` | an open connection is registered when nothing is waiting in the router's channels, if the others under its identifier are of the other side and have not ended | `RegistryInv`: an open connection is waiting or registered, and no removal of it is waiting |
| `EventTypes` | `TypeOK` of the events | `ShapeInv` and `TablesInv`: sizes of the channels, what the registries hold |
| `ProducerTypes` | `TypeOK` of the producer | with `HandsFull`: a busy goroutine has a message |
| `TransactionsAreOwned` | a transaction is one caller's, or was left by an abort that failed | `TxnInv`: nothing is in a transaction but what its owner has produced, and no abort without an error |
| `LossesAreExplained` | losses have a reason | `TxnInv` |
| `OrderPerCaller` | what one goroutine writes is in order | `WayInv`: channel, hand and log ascend, and what is written is past (`Past`) |
| `ProducerImplementsLog` | the producer implements `MessageLog` | `WayInv`: what is committed is neither in a channel nor in a hand that will write it |
| `ConfigTypes` | every loaded unit has every field | `ConfigInvariant` |
| `UnitsKeepTheirFields` | no field of one unit gets into another | `ConfigInvariant`: the open unit has only what the lines of its own block say, and its block has not been closed |
| `SettingsCount` | the last line of a setting counts, and a game can be played | `SettingsInvariant`: each setting is that of the lines read so far |
| `LinesCount` | a unit with an id above the last line of its block is loaded, with the last word there on every field, of an array as much as stands on its line | `UnitsAreRead`: so it is of every block that was closed, and the open unit has the last words of the lines read so far |
| `EntriesAreSplit` | regions and paths are the entries of their sections, in their order | `MapIsRead`: so it is of the lines read so far, and the flags `inRegions`, `inPaths` name the last header |
| `ConfigIsRead` | both of these, `FilesAreRead`: which part of the files is read | |
| `HopsAreWalks` | the search reaches in k rounds what a walk of at most k paths leads to | |
| `DistanceIsShortest` | `bfsDistance` is the length of a shortest walk, and 999 when there is no walk | |
| `RankingIsRight` | `rankRoutes` lists each route once in ascending risk, recommends one of least risk, warns of the blocked | the invariants of its loops |
| `PlansCanBeCarriedOut` | a plan's region is on a route, a shortest walk to it takes the plan's turns, and either the Nazgul stands there or the region is ahead of the Ring Bearer, by paths that cost no fewer turns | of `computeInterceptionPlans`' loops: the best so far is `NoOffer` or an offer made |
| `PlansAreBest` | no region of a route offers a Nazgul more than its plan, and one without a plan is offered nothing | of the same loops: the best so far is no less than any offer already looked at |
| `PoolCorrect`, `PoolTypes` | `TypeOK` of the pipelines | `PoolInv`, see below |
| `HeldByOne` | a request is in one place | `PoolInv` |
| `NoSendAfterClose` | `aggregateCh` is closed after its last sender has ended | `PoolInv` |
| `AnswersRankOneState` | an answer ranks all routes by their risk in the one state it was asked in | `PoolInv` and `RankingIsRight` |
| `PlansOnTheWay` | the same of every plan answered or on its way to the aggregator | `PoolInv` and `PlansCanBeCarriedOut` |

The invariants are conjunctions of named parts, each preserved by its own lemma
with one step per action. `TurnTheorems` also has the lemmas about the helpers
(`ApplyDamage`, `RevertOrphans`, `OtherEnd`, the timers): what they return and
keep.

The disagreements above are not in the way of these theorems: each
theorem states what the code does keep, for every order, also those that cause
them (`BlockCorrect`, for instance, allows a Ring Bearer sent by
REINFORCE_REGION).

`PoolInv` says that the places of a request (the two channels, the aggregator's, the
dispatcher's hand, the workers' hands, a goroutine of its own with its result channel)
are apart and hold it once; that a request is in none of them before its caller sent it;
that a worker holds one request at most; and that a result, in its channel or with its
caller, is the analysis of the request's snapshot. `OneHolder` alone is not
inductive: a request could be sent that a channel already holds. Which result a late
worker writes does not matter to the handler that left: the invariant is about the
request's own channel, and its snapshot is never replaced.

Two things the pure theorems rest on:

* *Loops.* The library's induction rules take an operator as parameter, which the
  installed provers cannot instantiate. `RouteTheorems` derives induction over a set
  of numbers instead (`LeastNumber`, `Induct`, `Climb`), from the well-foundedness of
  `Nat` and the existence of minimal elements (`WFMin`), and from it that a recursive
  function of the form of a loop exists and has its equations (`LoopExists`). Every
  recursive function of `RouteAnalysis` has this form.
* *The search ends.* In `Distance` the number of rounds is bounded by the number of
  regions. `SearchEnds` shows that this loses nothing: a round that meets no new region
  is the last one that could (`Standstill`), and until then each meets one
  (`EachRoundAdds`).

### Only model-checked

* Liveness (`PlayedGameEnds`, `OrdersAreHandled`, `NobodyWaits`, `CallersReturn`,
  `NobodyIsStuck`): the prover does not handle ENABLED or fairness.
* What the three runs that find a disagreement refute.

Every invariant and every action property of the runs that pass, and each of
the three refinements, is stated by a theorem.

No module declares a RECURSIVE operator; recursion is written as recursive
functions.

## 5. What is not modelled, and why

* *The browser* (`src/ui`): it renders and merges events in one thread, and the
  server depends on nothing it keeps.
* *The deployment*: three instances, Nginx and the brokers are configuration.
  What they do to one instance is modelled: rebalances and repeated delivery in the
  intake, errors, fencing and crashes in the producer. A game does not survive its
  instance (see the divergences), so the instances share nothing to be composed.
* *Avro, HTTP and JSON*: conversions by libraries, of data that the properties do not
  tell apart.
* *The wording of events, logging, the wall clock.*
* *The menu of orders and `GET /game/state`* (`api/handler.go`): they read a copy of
  the cache and change nothing; what a client then sends is any order.
* *`Enrich` and the dead letter topic*: nobody reads the score or the topic.
* *`ShortestPath` and `RegionsWithinHops`* (`game/graph.go`): nothing
  calls them.
* *Characters and numbers of the configuration*: a line is what the loaders tell
  apart in it.
* *The end of the goroutines other than the pipelines on shutdown*: main waits for
  ever in any case (`shutdown_hangs`).
