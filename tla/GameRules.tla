----------------------------- MODULE GameRules -----------------------------
(***************************************************************************)
(* The pure rules of internal/game: units and their configuration          *)
(* (types.go), combat (combat.go) and detection (detection.go).  Nothing   *)
(* here has state: operators take the units, paths and regions they read.  *)
(***************************************************************************)
EXTENDS GameMap, Sequences

CONSTANTS
    Units,          \* the unit identifiers of units.conf
    Config,         \* Config[u], the static UnitConfig of u
    RegionConfig    \* RegionConfig[r], what map.conf says of region r

Sides == {"FREE_PEOPLES", "SHADOW"}
Controllers == Sides \cup {"NEUTRAL", ""}
Terrains == {"PLAINS", "MOUNTAINS", "FOREST", "FORTRESS", "VOLCANIC", "SWAMP"}
SpecialRoles ==
    {"RING_BEARER_START", "RING_DESTRUCTION_SITE", "SHADOW_STRONGHOLD", "NONE"}
UnitClasses ==
    {"RingBearer", "FellowshipGuard", "GondorArmy", "Nazgul", "UrukHaiLegion", "Maia"}

UnitConfig ==
    [class : UnitClasses, side : Sides, startRegion : Regions, strength : Nat \ {0},
     leadership : BOOLEAN, leadershipBonus : Nat, indestructible : BOOLEAN,
     detectionRange : Nat, respawns : BOOLEAN, respawnTurns : Nat, isMaia : BOOLEAN,
     maiaAbilityPaths : SUBSET Paths, ignoresFortress : BOOLEAN,
     canFortify : BOOLEAN, cooldown : Nat]

RegionConfigs ==
    [terrain : Terrains, specialRole : SpecialRoles,
     startControl : Controllers, startThreat : Nat]

IsRingBearer(u) == Config[u].class = "RingBearer"

ASSUME UnitAssumption ==
    /\ IsFiniteSet(Units) /\ "" \notin Units
    /\ Config \in [Units -> UnitConfig]
    /\ RegionConfig \in [Regions -> RegionConfigs]
    /\ \E u \in Units : /\ IsRingBearer(u) /\ Config[u].side = "FREE_PEOPLES"
                        /\ \A v \in Units : IsRingBearer(v) => v = u

TheRingBearer == CHOOSE u \in Units : IsRingBearer(u)

UnitStatus == {"ACTIVE", "DESTROYED", "RESPAWNING"}
PathStatus == {"OPEN", "THREATENED", "BLOCKED", "TEMPORARILY_OPEN"}

\* a route may name paths that do not exist
Routes == Seq(Paths \cup {""})

UnitSnapshot ==
    [region : Regions \cup {""}, strength : Nat, status : UnitStatus,
     respawnTurns : Nat, route : Routes, routeIdx : Nat, cooldown : Nat]

PathState ==
    [status : PathStatus, surveillanceLevel : 0..3, tempOpenTurns : 0..2,
     blockedBy : Units \cup {""}, corrupted : BOOLEAN]

RegionState ==
    [controlledBy : Controllers, threatLevel : Nat,
     fortified : BOOLEAN, fortifyTurns : 0..2]

(***************************************************************************)
(* Combat.  The power of a group is the sum of its members' effective      *)
(* strengths: the member's strength, and the bonus of every other leader   *)
(* of its side in the group.  The sum is counted: one element of Points    *)
(* for each point that some l of the group contributes to some u.          *)
(***************************************************************************)
Contribution(us, u, l) ==
    IF l = u THEN us[u].strength
    ELSE IF Config[l].leadership /\ Config[l].side = Config[u].side
    THEN Config[l].leadershipBonus ELSE 0

Points(us, group) ==
    UNION {{<<u, l>>} \X (1..Contribution(us, u, l)) : u \in group, l \in group}

Power(us, group) == Cardinality(Points(us, group))

TerrainBonus(r) ==
    CASE RegionConfig[r].terrain = "FORTRESS"  -> 2
      [] RegionConfig[r].terrain = "MOUNTAINS" -> 1
      [] OTHER -> 0

(***************************************************************************)
(* ResolveCombat: what the attackers' power exceeds the defence of region  *)
(* r by; the attackers win when it is positive.  One attacker that ignores *)
(* fortresses cancels the terrain bonus of all, never the fortification.   *)
(***************************************************************************)
CombatMargin(us, rs, r, attackers, defenders) ==
    LET terrain == IF \E a \in attackers : Config[a].ignoresFortress THEN 0 ELSE TerrainBonus(r)
        fortify == IF rs[r].fortified THEN 2 ELSE 0
    IN  Power(us, attackers) - (Power(us, defenders) + terrain + fortify)

(***************************************************************************)
(* ApplyDamage.  An indestructible unit keeps one point; a unit that       *)
(* respawns goes away for respawnTurns + 1 turns and forgets its route; a  *)
(* destroyed one loses everything.                                         *)
(***************************************************************************)
ApplyDamage(u, snap, damage) ==
    LET raw == snap.strength - damage IN
    IF raw > 0 \/ Config[u].indestructible
    THEN [snap EXCEPT !.strength = IF raw < 1 THEN 1 ELSE raw, !.status = "ACTIVE"]
    ELSE [region |-> "", strength |-> 0,
          status |-> IF Config[u].respawns THEN "RESPAWNING" ELSE "DESTROYED",
          respawnTurns |-> IF Config[u].respawns THEN Config[u].respawnTurns + 1 ELSE 0,
          route |-> <<>>, routeIdx |-> 0,
          cooldown |-> IF Config[u].respawns THEN snap.cooldown ELSE 0]

(***************************************************************************)
(* Detection.  Active units with a detection range see the Ring Bearer     *)
(* after the hidden turns, one hop farther while a Shadow Maia without a   *)
(* cooldown stands in its start region.                                    *)
(***************************************************************************)
Detectors(us) == {u \in Units : us[u].status = "ACTIVE" /\ Config[u].detectionRange > 0}

IsSauronEffectActive(us) ==
    \E u \in Units : /\ Config[u].isMaia /\ Config[u].side = "SHADOW"
                     /\ Config[u].cooldown = 0
                     /\ us[u].status = "ACTIVE"
                     /\ us[u].region = Config[u].startRegion

\* mutant: detection begins a turn late
LateDetection(us, turn, hiddenUntil, trueRegion) ==
    /\ turn > hiddenUntil + 1
    /\ \E u \in Detectors(us) : WithinHops(us[u].region, trueRegion, Config[u].detectionRange)

RunDetection(us, turn, hiddenUntil, trueRegion) ==
    /\ turn > hiddenUntil
    /\ \E u \in Detectors(us) :
         WithinHops(us[u].region, trueRegion,
                    Config[u].detectionRange + IF IsSauronEffectActive(us) THEN 1 ELSE 0)

\* mutant: surveillance exposes in the hidden turns too
AlwaysExposedByPath(path, turn, hiddenUntil) == path.surveillanceLevel >= 1

\* CheckRingBearerExposedByPath
ExposedByPath(path, turn, hiddenUntil) ==
    turn > hiddenUntil /\ path.surveillanceLevel >= 1

(***************************************************************************)
(* DispatchMaiaAbility: the ability of u follows from its configuration.   *)
(***************************************************************************)
MaiaAbility(u) ==
    CASE ~Config[u].isMaia -> "NONE"
      [] Config[u].isMaia /\ Config[u].side = "FREE_PEOPLES" -> "OPEN_PATH"
      [] Config[u].isMaia /\ Config[u].side = "SHADOW" ->
           IF Config[u].maiaAbilityPaths # {} THEN "CORRUPT_PATH"
           ELSE IF Config[u].cooldown = 0 THEN "PASSIVE" ELSE "NONE"

\* disableSarumanIfIsengardFell finds its unit by these traits
IsDisabledByStronghold(u) ==
    Config[u].isMaia /\ Config[u].side = "SHADOW" /\ Config[u].maiaAbilityPaths # {}

\* mutant: the Ring Bearer is put on the board like everybody else
ShownStartUnit(u) ==
    [region |-> Config[u].startRegion,
     strength |-> Config[u].strength, status |-> "ACTIVE", respawnTurns |-> 0,
     route |-> <<>>, routeIdx |-> 0, cooldown |-> 0]

\* the state of a unit when a game begins: initializeUnits, processResetGame
StartUnit(u) ==
    [region |-> IF IsRingBearer(u) THEN "" ELSE Config[u].startRegion,
     strength |-> Config[u].strength, status |-> "ACTIVE", respawnTurns |-> 0,
     route |-> <<>>, routeIdx |-> 0, cooldown |-> 0]

StartPath == [status |-> "OPEN", surveillanceLevel |-> 0, tempOpenTurns |-> 0,
              blockedBy |-> "", corrupted |-> FALSE]
=============================================================================
