-------------------------- MODULE IntakeProperties --------------------------
(***************************************************************************)
(* What the way of an order to the engine should guarantee.                *)
(***************************************************************************)
EXTENDS OrderIntake, TurnProperties

IntakeTypeOK ==
    /\ sent \in 0..MaxSent
    /\ kafkaOrderCh \in Seq(Message) /\ Len(kafkaOrderCh) <= HttpCap
    /\ raw \in [Partitions -> Seq(Message)] /\ handled \in [Partitions -> Seq(Message)]
    /\ assigned \subseteq Partitions /\ rebalances \in 0..MaxRebalances
    /\ seenUnits \subseteq Keys /\ asked \subseteq seenUnits /\ currentTurn \in 0..MaxTurns
    /\ validated \in Message \cup {NoMessage} /\ crashed \in BOOLEAN
    /\ engineCh \in Seq(Message) /\ Len(engineCh) <= EngineCap

\* what Validate asks of an order whatever the state of the game
Passable(u, o) ==
    /\ o.type = "DESTROY_RING" => IsRingBearer(u)
    /\ o.type = "MAIA_ABILITY" => Config[u].isMaia
    /\ o.type \in {"BLOCK_PATH", "SEARCH_PATH"} => o.path \in Paths
    /\ IsRingBearer(u) => \A i \in DOMAIN o.route : o.route[i] \in Paths

\* OrderChoices are the orders the engine is shown to work with
ASSUME ChoicesAssumption ==
    \A u \in Units : \A o \in Submissions[u] :
      o \in Order /\ Passable(u, o) => o \in OrderChoices[u]

(***************************************************************************)
(* The engine trusts its orders: it lets anybody destroy the Ring or use   *)
(* any path.  Behind the validator it gets only the orders it was written  *)
(* for (OrderChoices), so that all that holds of the engine holds here.    *)
(***************************************************************************)
IntakeImplementsEngine == Spec

(***************************************************************************)
(* Only the player of a unit's side moves it: an order that waits for the  *)
(* engine was sent by a player of that side.  A start or a reset may have  *)
(* come from anybody, under any unit's name: the validator asks nothing.   *)
(***************************************************************************)
OrdersAreOwn ==
    \A i \in DOMAIN engineCh :
      engineCh[i].order.type \notin SystemTypes
        => engineCh[i].unit \in Units /\ MatchesPlayer(engineCh[i])

(***************************************************************************)
(* A unit whose order would be refused as its second one of the turn has   *)
(* an order waiting in the engine, or somebody has sent a start or a reset *)
(* under its name.  Checked when every queue is empty, the engine is       *)
(* between turns and the game is going on; it takes the memory of the      *)
(* processor, the delays on the way and the turn change together.          *)
(***************************************************************************)
Quiet == validated = NoMessage /\ engineCh = <<>> /\ pc = "idle" /\ ~gameOver

RefusalHasReason ==
    (Quiet /\ currentTurn = cache.turn)
      => \A u \in seenUnits \ asked : ordersThisTurn[u] # NoOrder

(***************************************************************************)
(* The Light Side wins only when the Ring Bearer itself was ordered to     *)
(* destroy the Ring in the turn that ends; the engine looks for the order  *)
(* of any unit and leaves the rest to the validator.                       *)
(***************************************************************************)
VictoryIsOrdered ==
    [][(result # "LIGHT_SIDE" /\ result' = "LIGHT_SIDE") => Ordered(Frodo, "DESTROY_RING")]_all

(***************************************************************************)
(* An order on a partition of this instance is validated or refused, and a *)
(* validated one gets to the engine, unless the engine has stopped for     *)
(* good, the process has panicked or the partition went to another         *)
(* instance.                                                               *)
(***************************************************************************)
OrdersAreHandled ==
    /\ \A n \in Partitions :
         raw[n] # <<>> ~> (raw[n] = <<>> \/ n \notin assigned \/ crashed \/ pc = "stopped")
    /\ engineCh # <<>> ~> (engineCh = <<>> \/ crashed \/ pc = "stopped")

(***************************************************************************)
(* A game that is being played ends, whatever orders come or do not come,  *)
(* unless a payload makes the process panic: the last turn is the end at   *)
(* the latest.                                                             *)
(***************************************************************************)
PlayedGameEnds ==
    (cache.phase = "IN_PROGRESS")
      ~> (gameOver \/ cache.phase = "WAITING_FOR_PLAYERS" \/ pc = "stopped" \/ crashed)
=============================================================================
