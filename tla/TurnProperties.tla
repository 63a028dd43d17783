-------------------------- MODULE TurnProperties ---------------------------
(***************************************************************************)
(* What the turn engine should guarantee.  Most properties are about the   *)
(* published cache, which is all the other goroutines ever see.            *)
(***************************************************************************)
EXTENDS TurnProcessor

Frodo == TheRingBearer

Published(u) == cache.units[u]

(***************************************************************************)
(* A path that is published as blocked names its blocker, an active Shadow *)
(* unit standing at one of its ends.  Blocks are made in step 3, blockers  *)
(* may leave in steps 4, 7 and 8 or die in step 8, a temporary opening     *)
(* turns back into a block in step 9: the sweeps must undo every one of    *)
(* them before the turn is published.  That a Free Peoples unit never      *)
(* blocks rests on friendlyUnitAtEndpoint counting the blocker itself.     *)
(***************************************************************************)
BlockHasBlocker ==
    \A p \in Paths :
      LET path == cache.paths[p] IN
      path.status = "BLOCKED" =>
        /\ path.blockedBy \in Units
        /\ Published(path.blockedBy).status = "ACTIVE"
        /\ Config[path.blockedBy].side = "SHADOW"
        /\ IsEndpointRegion(p, Published(path.blockedBy).region)

(***************************************************************************)
(* Once the hidden turns are over, no turn ends with a nazgul in the Ring  *)
(* Bearer's region and the game going on: detection (step 12) always       *)
(* exposes a Ring Bearer that shares a region with a detector, and the     *)
(* flag must still be up when step 13 asks for it.                         *)
(***************************************************************************)
CaptureIsCertain ==
    (pc = "idle" /\ ~gameOver /\ cache.turn > HiddenUntil + 1)
      => ~\E u \in Detectors(cache.units) : Published(u).region = trueRegion

(***************************************************************************)
(* The Shadow cannot win in the hidden turns, neither by detection nor by  *)
(* the surveillance of the path the Ring Bearer walks.                     *)
(***************************************************************************)
NoCaptureWhileHidden == result = "DARK_SIDE" => cache.turn > HiddenUntil

(***************************************************************************)
(* The Light Side's view holds the true region of the Ring Bearer whenever *)
(* a turn is published, after every move and every reset.  The one excuse  *)
(* is the first cache, which names FirstLightView whatever units.conf says:*)
(* an army that starts its Ring Bearer elsewhere is shown the wrong region *)
(* as long as the bearer stays where it started.                           *)
(***************************************************************************)
LightViewIsTrue ==
    pc = "idle" => \/ cache.lightRegion = trueRegion
                   \/ cache.lightRegion = FirstLightView /\ trueRegion = StartRegion

(***************************************************************************)
(* From one published turn to the next the Light Side's view of the Ring   *)
(* Bearer goes to an adjacent region at most, whatever routes and orders   *)
(* it is given; from the literal of the first cache, to a neighbour of the *)
(* region it started in.                                                   *)
(***************************************************************************)
RingBearerPace ==
    [][\/ ResetGame
       \/ cache'.lightRegion = cache.lightRegion
       \/ AreAdjacent(cache.lightRegion, cache'.lightRegion)
       \/ /\ cache.lightRegion = FirstLightView
          /\ AreAdjacent(StartRegion, cache'.lightRegion)]_cache

(***************************************************************************)
(* On the public board, which snapshots and GET /game/state show to both   *)
(* sides, the Ring Bearer's region is written by an order that names the   *)
(* region (REINFORCE_REGION, DEPLOY_NAZGUL and a successful ATTACK_REGION  *)
(* do not spare the Ring Bearer) and by no walk, timer or reset.  It is    *)
(* about the board alone: a walk also announces its two regions in a       *)
(* UnitMoved on game.events.unit (turn_processor.go:697-703), which        *)
(* types.go:133-134 says it does not and which both sides receive.         *)
(***************************************************************************)
OnlyOrdersReveal ==
    [][LET shown == cache'.units[Frodo].region IN
       \/ shown \in {"", Published(Frodo).region}
       \/ /\ shown = orders[Frodo].region
          /\ \E type \in {"REINFORCE_REGION", "DEPLOY_NAZGUL", "ATTACK_REGION"} :
               Ordered(Frodo, type)]_cache

(***************************************************************************)
(* A destroyed unit takes no further part in the game until a reset: no    *)
(* damage, no timer and no order brings it back.  (ApplyDamage sets every  *)
(* survivor ACTIVE, and a disabled Saruman still stands in his region.)    *)
(***************************************************************************)
DestroyedStaysDestroyed ==
    [][\/ ResetGame
       \/ \A u \in Units : Published(u).status = "DESTROYED"
                             => cache'.units[u].status = "DESTROYED"]_cache

(***************************************************************************)
(* Surveillance only grows until a reset, and a corrupted path keeps the   *)
(* full level: the ring-bearer's road never becomes safer by playing on.   *)
(***************************************************************************)
SurveillanceGrows ==
    [][\/ ResetGame
       \/ \A p \in Paths :
            /\ cache'.paths[p].surveillanceLevel >= cache.paths[p].surveillanceLevel
            /\ cache'.paths[p].corrupted => cache'.paths[p].surveillanceLevel = 3
            /\ cache.paths[p].corrupted => cache'.paths[p].corrupted]_cache

(***************************************************************************)
(* Every unit that is published as active has a region and a strength,     *)
(* the Ring Bearer apart, and an indestructible one is always active.      *)
(***************************************************************************)
ActiveUnitsAreReal ==
    \A u \in Units :
      /\ Published(u).status = "ACTIVE" =>
           /\ Published(u).strength > 0
           /\ IsRingBearer(u) \/ Published(u).region \in Regions
      /\ Config[u].indestructible => Published(u).status = "ACTIVE"

(***************************************************************************)
(* After GameOver nothing changes what was published but a reset.          *)
(***************************************************************************)
GameOverIsFinal == [][result # "NONE" => ResetGame]_<<cache, result, trueRegion>>

\* The engine implements the life of a game.
Lifecycle ==
    INSTANCE GameLifecycle WITH
      turn <- cache.turn,
      stage <- IF cache.phase = "WAITING_FOR_PLAYERS" THEN "waiting"
               ELSE IF gameOver THEN "over" ELSE "playing"

ImplementsLifecycle == Lifecycle!GameSpec

===========================================================================
