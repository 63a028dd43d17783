--------------------------- MODULE TurnProcessor ---------------------------
(***************************************************************************)
(* The goroutine internal/engine/turn_processor.go, which owns the game.   *)
(*                                                                         *)
(* It waits (pc = "idle") for an order from the engine channel or a tick.  *)
(* START_GAME and RESET_GAME act at once; any other order is kept for the  *)
(* turn.  A tick that finds the turn's time over runs processTurn, one     *)
(* action here per step of it: the steps work on a copy of the published   *)
(* state (units, paths, regions, lightRegion) and the last one publishes   *)
(* the copy in the cache every other goroutine reads.  Go visits a map in  *)
(* any order: where the order matters, todo holds what is left to visit.   *)
(***************************************************************************)
EXTENDS GameRules

CONSTANTS
    MaxTurns,       \* session.MaxTurns
    HiddenUntil,    \* session.HiddenUntil
    FirstLightView, \* the region main.go:80 writes into the first Light view, "the-shire"
    OrderChoices    \* OrderChoices[u], the orders that may reach the engine for u

OrderTypes ==
    {"ASSIGN_ROUTE", "REDIRECT_UNIT", "DESTROY_RING", "MAIA_ABILITY", "BLOCK_PATH",
     "SEARCH_PATH", "ATTACK_REGION", "REINFORCE_REGION", "FORTIFY_REGION", "DEPLOY_NAZGUL"}

\* An order without its fields player, unit and turn, which no step reads.
Order == [type : OrderTypes, path : Paths \cup {""},
          region : Regions \cup {""}, route : Routes]

NoOrder == [type |-> "NONE", path |-> "", region |-> "", route |-> <<>>]

ASSUME GameAssumption ==
    /\ MaxTurns \in Nat \ {0} /\ HiddenUntil \in Nat
    /\ FirstLightView \in Regions
    /\ OrderChoices \in [Units -> SUBSET Order]

VARIABLES
    pc,             \* where the goroutine is: idle, a step of processTurn, stopped
    ordersThisTurn, \* the orders received for the coming turn, NoOrder for none
    result,         \* the winner in the GameOver emitted for this game, NONE before
    trueRegion,     \* ringBearer.TrueRegion
    exposed,        \* ringBearer.Exposed
    lastDetected,   \* ringBearer.LastDetectedTurn and LastDetectedRegion
    cache,          \* the published WorldStateCache
    orders,         \* processTurn: the orders of this turn
    units, paths, regions, lightRegion,  \* processTurn: its copy of the state
    todo            \* processTurn: units or regions the step has still to visit

control == <<pc, ordersThisTurn, result, cache>>
secret == <<trueRegion, exposed, lastDetected>>
board == <<units, paths, regions, lightRegion>>
vars == <<control, secret, board, orders, todo>>

Steps == {"routes", "blocks", "reinforce", "fortify", "maia", "advance", "combat",
          "tempOpen", "fortifyTimers", "respawn", "detect", "win"}

NoOrders == [u \in Units |-> NoOrder]
NoDetection == [turn |-> 0, region |-> ""]
\* mutant: a draw does not stop the game
decided == result \in {"LIGHT_SIDE", "DARK_SIDE"}

gameOver == result # "NONE"

WorldStateCache ==
    [turn : 1..MaxTurns, phase : {"WAITING_FOR_PLAYERS", "IN_PROGRESS"},
     units : [Units -> UnitSnapshot], paths : [Paths -> PathState],
     regions : [Regions -> RegionState], lightRegion : Regions,
     darkLastDetected : {NoDetection}]

TypeOK ==
    /\ pc \in Steps \cup {"idle", "stopped"}
    /\ ordersThisTurn \in [Units -> Order \cup {NoOrder}]
    /\ orders \in [Units -> Order \cup {NoOrder}]
    /\ result \in {"NONE", "LIGHT_SIDE", "DARK_SIDE", "DRAW"}
    /\ trueRegion \in Regions /\ exposed \in BOOLEAN
    /\ lastDetected \in [turn : Nat, region : Regions \cup {""}]
    /\ units \in [Units -> UnitSnapshot]
    /\ paths \in [Paths -> PathState]
    /\ regions \in [Regions -> RegionState]
    /\ lightRegion \in Regions
    /\ cache \in WorldStateCache
    /\ todo \in SUBSET (Units \cup Regions)

StartRegion == Config[TheRingBearer].startRegion

StartRegions ==
    [r \in Regions |-> [controlledBy |-> RegionConfig[r].startControl,
                        threatLevel |-> RegionConfig[r].startThreat,
                        fortified |-> FALSE, fortifyTurns |-> 0]]

\* main.go: the initial cache.  Its Light view is a literal, wherever units.conf
\* starts the Ring Bearer.
StartCache ==
    [turn |-> 1, phase |-> "WAITING_FOR_PLAYERS",
     units |-> [u \in Units |-> StartUnit(u)], paths |-> [p \in Paths |-> StartPath],
     regions |-> StartRegions, lightRegion |-> FirstLightView,
     darkLastDetected |-> NoDetection]

\* Outside processTurn the copy has no meaning; it is kept equal to the cache,
\* which is what GetSnapshot gives processTurn to begin with.
CopyCache ==
    /\ units = cache.units /\ paths = cache.paths
    /\ regions = cache.regions /\ lightRegion = cache.lightRegion

Init ==
    /\ pc = "idle" /\ result = "NONE" /\ todo = {}
    /\ ordersThisTurn = NoOrders /\ orders = NoOrders
    /\ trueRegion = StartRegion /\ exposed = FALSE /\ lastDetected = NoDetection
    /\ cache = StartCache
    /\ CopyCache

----------------------------------------------------------------------------
(***************************************************************************)
(* Run: what the goroutine does between turns.                             *)
(***************************************************************************)
ReceiveOrder(u, o) ==
    /\ pc = "idle"
    /\ ordersThisTurn' = IF gameOver THEN ordersThisTurn ELSE [ordersThisTurn EXCEPT ![u] = o]
    /\ UNCHANGED <<pc, result, cache, secret, board, orders, todo>>

StartGame ==
    /\ pc = "idle" /\ cache.phase # "IN_PROGRESS"
    /\ cache' = [cache EXCEPT !.phase = "IN_PROGRESS"]
    /\ UNCHANGED <<pc, ordersThisTurn, result, secret, board, orders, todo>>

\* mutant: the reset forgets the secret tracker
ResetCacheOnly ==
    /\ pc = "idle"
    /\ cache' = StartCache
    /\ units' = cache'.units /\ paths' = cache'.paths
    /\ regions' = cache'.regions /\ lightRegion' = cache'.lightRegion
    /\ result' = "NONE"
    /\ UNCHANGED <<pc, ordersThisTurn, secret, orders, todo>>

\* Orders already received for the turn are not touched.
ResetGame ==
    /\ pc = "idle"
    /\ cache' = [StartCache EXCEPT !.regions =
                   [r \in Regions |-> [controlledBy |-> "", threatLevel |-> 0,
                                       fortified |-> FALSE, fortifyTurns |-> 0]],
                   !.lightRegion = StartRegion]
    /\ units' = cache'.units /\ paths' = cache'.paths
    /\ regions' = cache'.regions /\ lightRegion' = cache'.lightRegion
    /\ trueRegion' = StartRegion /\ exposed' = FALSE /\ lastDetected' = NoDetection
    /\ result' = "NONE"
    /\ UNCHANGED <<pc, ordersThisTurn, orders, todo>>

\* mutant: a turn without orders is put off
BeginTurnWithOrders ==
    /\ pc = "idle" /\ ~gameOver /\ cache.phase = "IN_PROGRESS"
    /\ ordersThisTurn # NoOrders
    /\ pc' = "routes"
    /\ orders' = ordersThisTurn /\ ordersThisTurn' = NoOrders
    /\ UNCHANGED <<result, cache, secret, board, todo>>

\* mutant: turns go by before the players are there
BeginTurnWaiting ==
    /\ pc = "idle" /\ ~gameOver
    /\ pc' = "routes"
    /\ orders' = ordersThisTurn /\ ordersThisTurn' = NoOrders
    /\ UNCHANGED <<result, cache, secret, board, todo>>

\* A tick after the turn's time; the clock is not modelled, any tick may be the one.
BeginTurn ==
    /\ pc = "idle" /\ ~gameOver /\ cache.phase = "IN_PROGRESS"
    /\ pc' = "routes"
    /\ orders' = ordersThisTurn /\ ordersThisTurn' = NoOrders
    /\ UNCHANGED <<result, cache, secret, board, todo>>

\* A tick after the game is over ends the goroutine; so does the done channel.
TickAfterGameOver ==
    /\ pc = "idle" /\ gameOver
    /\ pc' = "stopped"
    /\ UNCHANGED <<ordersThisTurn, result, cache, secret, board, orders, todo>>

Done ==
    /\ pc = "idle"
    /\ pc' = "stopped"
    /\ UNCHANGED <<ordersThisTurn, result, cache, secret, board, orders, todo>>

----------------------------------------------------------------------------
(***************************************************************************)
(* processTurn, steps 2 to 6: the orders given to single units.            *)
(***************************************************************************)
Active(u) == units[u].status = "ACTIVE"

Ordered(u, type) == orders[u].type = type

\* where an order of u takes effect: the Ring Bearer's public region is no guide
EffectiveRegion(u) == IF IsRingBearer(u) THEN trueRegion ELSE units[u].region

StepAssignRoutes ==
    /\ pc = "routes" /\ pc' = "blocks"
    /\ units' = [u \in Units |->
                   IF Ordered(u, "ASSIGN_ROUTE") \/ Ordered(u, "REDIRECT_UNIT")
                   THEN [units[u] EXCEPT !.route = orders[u].route, !.routeIdx = 0]
                   ELSE units[u]]
    /\ UNCHANGED <<ordersThisTurn, result, cache, secret, paths, regions, lightRegion, orders, todo>>

\* friendlyUnitAtEndpoint(state, path, region, FreePeoples), which ignores its path
FreePeoplesAt(r) ==
    \E u \in Units : Active(u) /\ units[u].region = r /\ Config[u].side = "FREE_PEOPLES"

Blockers(p) ==
    {u \in Units : /\ Ordered(u, "BLOCK_PATH") /\ orders[u].path = p /\ Active(u)
                   /\ IsEndpointRegion(p, units[u].region)
                   /\ ~FreePeoplesAt(units[u].region)}

Searchers(p) == {u \in Units : Ordered(u, "SEARCH_PATH") /\ orders[u].path = p /\ Active(u)}

\* one level more for each search, three at most
Raised(level, n) == IF level + n < 3 THEN level + n ELSE 3

\* mutant: no sweep
KeepOrphans(ps, us) == ps

\* the sweep that opens the blocked paths whose blocker is gone (steps 3 and 8)
RevertOrphans(ps, us) ==
    [p \in Paths |->
       IF /\ ps[p].status = "BLOCKED" /\ ps[p].blockedBy # ""
          /\ \/ us[ps[p].blockedBy].status # "ACTIVE"
             \/ ~IsEndpointRegion(p, us[ps[p].blockedBy].region)
       THEN [ps[p] EXCEPT !.status = "OPEN", !.blockedBy = ""]
       ELSE ps[p]]

\* Of several units blocking a path the last one visited is recorded.
StepBlockAndSearch ==
    /\ pc = "blocks" /\ pc' = "reinforce"
    /\ \E last \in [Paths -> Units \cup {""}] :
         /\ \A p \in Paths : last[p] \in (IF Blockers(p) = {} THEN {""} ELSE Blockers(p))
         /\ paths' = RevertOrphans(
              [p \in Paths |->
                 [paths[p] EXCEPT
                    !.surveillanceLevel = Raised(@, Cardinality(Searchers(p))),
                    !.status = IF last[p] = "" THEN @ ELSE "BLOCKED",
                    !.blockedBy = IF last[p] = "" THEN @ ELSE last[p]]],
              units)
    /\ UNCHANGED <<ordersThisTurn, result, cache, secret, units, regions, lightRegion, orders, todo>>

\* A nazgul deploys anywhere; nothing here checks that the unit is one.  The
\* Ring Bearer's true region is not changed.
MovedByOrder(u) ==
    /\ Active(u) /\ orders[u].region \in Regions
    /\ \/ Ordered(u, "DEPLOY_NAZGUL")
       \/ /\ Ordered(u, "REINFORCE_REGION")
          /\ \/ EffectiveRegion(u) = orders[u].region
             \/ AreAdjacent(EffectiveRegion(u), orders[u].region)

StepReinforce ==
    /\ pc = "reinforce" /\ pc' = "fortify"
    /\ units' = [u \in Units |-> IF MovedByOrder(u)
                                 THEN [units[u] EXCEPT !.region = orders[u].region]
                                 ELSE units[u]]
    /\ UNCHANGED <<ordersThisTurn, result, cache, secret, paths, regions, lightRegion, orders, todo>>

StepFortify ==
    /\ pc = "fortify" /\ pc' = "maia"
    /\ regions' = [r \in Regions |->
                     IF \E u \in Units : /\ Ordered(u, "FORTIFY_REGION") /\ Active(u)
                                         /\ Config[u].canFortify /\ units[u].region = r
                     THEN [regions[r] EXCEPT !.fortified = TRUE, !.fortifyTurns = 2]
                     ELSE regions[r]]
    /\ todo' = {u \in Units : Ordered(u, "MAIA_ABILITY")}
    /\ UNCHANGED <<ordersThisTurn, result, cache, secret, units, paths, lightRegion, orders>>

CanUseAbility(u, ability, p) ==
    /\ MaiaAbility(u) = ability /\ Active(u) /\ units[u].cooldown = 0
    /\ p \in Paths /\ IsEndpointRegion(p, units[u].region)

MayOpen(u, p) == CanUseAbility(u, "OPEN_PATH", p) /\ paths[p].status = "BLOCKED"

MayCorrupt(u, p) ==
    /\ CanUseAbility(u, "CORRUPT_PATH", p)
    /\ p \in Config[u].maiaAbilityPaths /\ paths[p].status # "TEMPORARILY_OPEN"

\* One maia's order, carried out or, when its ability does not apply, ignored.
StepMaia(u) ==
    /\ pc = "maia" /\ u \in todo /\ todo' = todo \ {u}
    /\ LET p == orders[u].path IN
         \/ /\ MayOpen(u, p)
            /\ paths' = [paths EXCEPT ![p].status = "TEMPORARILY_OPEN", ![p].tempOpenTurns = 2]
            /\ units' = [units EXCEPT ![u].cooldown = Config[u].cooldown + 1]
         \/ /\ MayCorrupt(u, p)
            /\ paths' = [paths EXCEPT ![p].surveillanceLevel = 3, ![p].corrupted = TRUE]
            /\ units' = [units EXCEPT ![u].cooldown = Config[u].cooldown + 1]
         \/ ~MayOpen(u, p) /\ ~MayCorrupt(u, p) /\ UNCHANGED <<units, paths>>
    /\ UNCHANGED <<pc, ordersThisTurn, result, cache, secret, regions, lightRegion, orders>>

(***************************************************************************)
(* Step 7: units with a route left to walk move along its next path.       *)
(***************************************************************************)
NextPath(u) == units[u].route[units[u].routeIdx + 1]

BeginAdvance ==
    /\ pc = "maia" /\ todo = {} /\ pc' = "advance"
    /\ todo' = {u \in Units : /\ Active(u) /\ units[u].routeIdx < Len(units[u].route)
                              /\ NextPath(u) \in Paths}
    /\ UNCHANGED <<ordersThisTurn, result, cache, secret, board, orders>>

\* A block holds a unit back only while its blocker stands at an end of the path.
HeldBack(p) ==
    /\ paths[p].status = "BLOCKED"
    /\ \/ paths[p].blockedBy = ""
       \/ /\ Active(paths[p].blockedBy)
          /\ IsEndpointRegion(p, units[paths[p].blockedBy].region)

\* Walking finds and clears a phantom block, even for a unit not at the path's end.
ClearPhantom(p) ==
    paths' = IF paths[p].status = "BLOCKED"
             THEN [paths EXCEPT ![p].status = "OPEN", ![p].blockedBy = ""] ELSE paths

StepAutoAdvance(u) ==
    /\ pc = "advance" /\ u \in todo /\ todo' = todo \ {u}
    /\ LET p == NextPath(u)
           from == EffectiveRegion(u)
           to == OtherEnd(p, from)
           moved == [units EXCEPT ![u].region = IF IsRingBearer(u) THEN "" ELSE to,
                                  ![u].routeIdx = @ + 1]
       IN  \/ HeldBack(p) /\ UNCHANGED <<units, paths, lightRegion, trueRegion, exposed>>
           \/ /\ ~HeldBack(p) /\ ~IsEndpointRegion(p, from) /\ ClearPhantom(p)
              /\ UNCHANGED <<units, lightRegion, trueRegion, exposed>>
           \/ /\ ~HeldBack(p) /\ IsEndpointRegion(p, from) /\ ClearPhantom(p)
              /\ ~IsRingBearer(u) /\ units' = moved
              /\ UNCHANGED <<lightRegion, trueRegion, exposed>>
           \/ /\ ~HeldBack(p) /\ IsEndpointRegion(p, from) /\ ClearPhantom(p)
              /\ IsRingBearer(u) /\ units' = moved
              /\ trueRegion' = to /\ lightRegion' = to
              /\ exposed' = (exposed \/ ExposedByPath(paths[p], cache.turn, HiddenUntil))
    /\ UNCHANGED <<pc, ordersThisTurn, result, cache, lastDetected, regions, orders>>

(***************************************************************************)
(* Step 8: the attacks, one battle for each attacked region.  Whoever      *)
(* attacks a region fights in one group, whatever their sides; the side of *)
(* the first one counts as the attackers' side, FREE_PEOPLES when all of   *)
(* them fell in an earlier battle.                                         *)
(***************************************************************************)
Attackers(r) ==
    {u \in Units : /\ Ordered(u, "ATTACK_REGION") /\ orders[u].region = r /\ Active(u)
                   /\ EffectiveRegion(u) # r /\ AreAdjacent(EffectiveRegion(u), r)}

BeginCombat ==
    /\ pc = "advance" /\ todo = {} /\ pc' = "combat"
    /\ todo' = {r \in Regions : Attackers(r) # {}}
    /\ UNCHANGED <<ordersThisTurn, result, cache, secret, board, orders>>

AttackerSides(r) ==
    IF Attackers(r) = {} THEN {"FREE_PEOPLES"} ELSE {Config[a].side : a \in Attackers(r)}

\* mutant: whoever lies in the region defends it
FallenDefenders(r, side) ==
    {u \in Units : units[u].region = r /\ Config[u].side # side}

Defenders(r, side) ==
    {u \in Units : Active(u) /\ units[u].region = r /\ Config[u].side # side}

MoveIn(us, group, r) ==
    [u \in Units |-> IF u \in group THEN [us[u] EXCEPT !.region = r] ELSE us[u]]

Damage(us, group, damage) ==
    [u \in Units |-> IF u \in group THEN ApplyDamage(u, us[u], damage) ELSE us[u]]

DisableSaruman(us) ==
    [u \in Units |-> IF IsDisabledByStronghold(u) /\ us[u].status = "ACTIVE"
                     THEN [us[u] EXCEPT !.status = "DESTROYED"] ELSE us[u]]

\* No battle changes where the attackers of another region stand, it can only
\* kill them: the groups need not be remembered from the beginning of the step.
StepCombat(r) ==
    /\ pc = "combat" /\ r \in todo /\ todo' = todo \ {r}
    /\ \E side \in AttackerSides(r) :
         LET attackers == Attackers(r)
             defenders == Defenders(r, side)
             margin == CombatMargin(units, regions, r, attackers, defenders)
             taken == MoveIn(Damage(units, defenders, margin), attackers, r)
         IN  \/ /\ defenders = {}
                /\ units' = MoveIn(units, attackers, r)
                /\ regions' = [regions EXCEPT ![r].controlledBy = side]
             \/ /\ defenders # {} /\ margin > 0
                /\ units' = IF /\ RegionConfig[r].specialRole = "SHADOW_STRONGHOLD"
                               /\ side = "FREE_PEOPLES"
                            THEN DisableSaruman(taken) ELSE taken
                /\ regions' = [regions EXCEPT ![r].controlledBy = side]
             \/ /\ defenders # {} /\ margin <= 0
                /\ units' = Damage(units, attackers, 1) /\ UNCHANGED regions
    /\ UNCHANGED <<pc, ordersThisTurn, result, cache, secret, paths, lightRegion, orders>>

EndCombat ==
    /\ pc = "combat" /\ todo = {} /\ pc' = "tempOpen"
    /\ paths' = RevertOrphans(paths, units)
    /\ UNCHANGED <<ordersThisTurn, result, cache, secret, units, regions, lightRegion, orders, todo>>

----------------------------------------------------------------------------
(***************************************************************************)
(* Steps 9 to 11: the timers.                                              *)
(***************************************************************************)
\* mutant: the path is as new when its opening ends
ForgetfulTimer(p) ==
    IF paths[p].status # "TEMPORARILY_OPEN" THEN paths[p]
    ELSE IF paths[p].tempOpenTurns > 1 THEN [paths[p] EXCEPT !.tempOpenTurns = @ - 1]
    ELSE StartPath

\* A temporary opening that ends becomes a block again if the blocker still stands.
TempOpenTimer(p) ==
    LET blocker == paths[p].blockedBy
        blocked == blocker # "" /\ Active(blocker) /\ IsEndpointRegion(p, units[blocker].region)
    IN  IF paths[p].status # "TEMPORARILY_OPEN" THEN paths[p]
        ELSE IF paths[p].tempOpenTurns > 1 THEN [paths[p] EXCEPT !.tempOpenTurns = @ - 1]
        ELSE [paths[p] EXCEPT !.tempOpenTurns = 0,
                              !.status = IF blocked THEN "BLOCKED" ELSE "OPEN",
                              !.blockedBy = IF blocked THEN @ ELSE ""]

StepTempOpenTimers ==
    /\ pc = "tempOpen" /\ pc' = "fortifyTimers"
    /\ paths' = [p \in Paths |-> TempOpenTimer(p)]
    /\ UNCHANGED <<ordersThisTurn, result, cache, secret, units, regions, lightRegion, orders, todo>>

StepFortificationTimers ==
    /\ pc = "fortifyTimers" /\ pc' = "respawn"
    /\ regions' = [r \in Regions |->
                     LET left == regions[r].fortifyTurns - 1 IN
                     IF ~regions[r].fortified THEN regions[r]
                     ELSE [regions[r] EXCEPT !.fortified = left > 0,
                                             !.fortifyTurns = IF left > 0 THEN left ELSE 0]]
    /\ UNCHANGED <<ordersThisTurn, result, cache, secret, units, paths, lightRegion, orders, todo>>

\* mutant: a unit comes back where it fell, nowhere
HomelessRespawn(u) ==
    IF units[u].status # "RESPAWNING" THEN units[u]
    ELSE IF units[u].respawnTurns > 1 THEN [units[u] EXCEPT !.respawnTurns = @ - 1]
    ELSE [units[u] EXCEPT !.status = "ACTIVE", !.strength = Config[u].strength,
                          !.respawnTurns = 0]

RespawnTimer(u) ==
    IF units[u].status # "RESPAWNING" THEN units[u]
    ELSE IF units[u].respawnTurns > 1 THEN [units[u] EXCEPT !.respawnTurns = @ - 1]
    ELSE [units[u] EXCEPT !.status = "ACTIVE", !.region = Config[u].startRegion,
                          !.strength = Config[u].strength, !.respawnTurns = 0]

CooldownTimer(snap) ==
    IF snap.status = "ACTIVE" /\ snap.cooldown > 0
    THEN [snap EXCEPT !.cooldown = @ - 1] ELSE snap

StepRespawnAndCooldown ==
    /\ pc = "respawn" /\ pc' = "detect"
    /\ units' = [u \in Units |-> CooldownTimer(RespawnTimer(u))]
    /\ UNCHANGED <<ordersThisTurn, result, cache, secret, paths, regions, lightRegion, orders, todo>>

(***************************************************************************)
(* Steps 12 and 13, and the publication of the turn.                       *)
(***************************************************************************)
StepDetection ==
    /\ pc = "detect" /\ pc' = "win"
    /\ \/ /\ RunDetection(units, cache.turn, HiddenUntil, trueRegion)
          /\ exposed' = TRUE
          /\ lastDetected' = [turn |-> cache.turn, region |-> trueRegion]
       \/ /\ ~RunDetection(units, cache.turn, HiddenUntil, trueRegion)
          /\ UNCHANGED <<exposed, lastDetected>>
    /\ UNCHANGED <<ordersThisTurn, result, cache, trueRegion, board, orders, todo>>

RingDestroyed ==
    /\ RegionConfig[trueRegion].specialRole = "RING_DESTRUCTION_SITE"
    /\ \E u \in Units : Ordered(u, "DESTROY_RING")
    /\ ~\E u \in Units : /\ Active(u) /\ Config[u].side = "SHADOW"
                         /\ units[u].region = trueRegion

RingBearerCaptured ==
    exposed /\ \E u \in Detectors(units) : units[u].region = trueRegion

\* mutant: one turn too many
LateOutcome ==
    IF RingDestroyed THEN "LIGHT_SIDE"
    ELSE IF RingBearerCaptured THEN "DARK_SIDE"
    ELSE IF cache.turn > MaxTurns THEN "DRAW" ELSE "NONE"

\* stepWinConditions: the first condition that holds decides.
Outcome ==
    IF RingDestroyed THEN "LIGHT_SIDE"
    ELSE IF RingBearerCaptured THEN "DARK_SIDE"
    ELSE IF cache.turn >= MaxTurns THEN "DRAW" ELSE "NONE"

\* The phase stays IN_PROGRESS when the game is over, and darkLastDetected is
\* never written.
StepWinConditions ==
    /\ pc = "win" /\ pc' = "idle"
    /\ result' = Outcome
    /\ cache' = [cache EXCEPT !.turn = IF Outcome = "NONE" THEN @ + 1 ELSE @,
                              !.units = units, !.paths = paths,
                              !.regions = regions, !.lightRegion = lightRegion]
    /\ exposed' = FALSE
    /\ orders' = NoOrders
    /\ UNCHANGED <<ordersThisTurn, trueRegion, lastDetected, board, todo>>

----------------------------------------------------------------------------
ProcessTurn ==
    \/ StepAssignRoutes \/ StepBlockAndSearch \/ StepReinforce \/ StepFortify
    \/ (\E u \in Units : StepMaia(u))
    \/ BeginAdvance
    \/ (\E u \in Units : StepAutoAdvance(u))
    \/ BeginCombat
    \/ (\E r \in Regions : StepCombat(r))
    \/ EndCombat
    \/ StepTempOpenTimers \/ StepFortificationTimers \/ StepRespawnAndCooldown
    \/ StepDetection \/ StepWinConditions

Next ==
    \/ (\E u \in Units : \E o \in OrderChoices[u] : ReceiveOrder(u, o))
    \/ StartGame \/ ResetGame \/ BeginTurn \/ TickAfterGameOver \/ Done
    \/ ProcessTurn

Spec == Init /\ [][Next]_vars
=============================================================================
