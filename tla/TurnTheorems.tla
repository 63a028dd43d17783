---------------------------- MODULE TurnTheorems ----------------------------
(***************************************************************************)
(* The types and the safety of the turn engine, for every map, every army, *)
(* every choice of orders and every length of the game that the            *)
(* assumptions of GameMap, GameRules and TurnProcessor allow.              *)
(***************************************************************************)
EXTENDS TurnProperties, FiniteSetTheorems, TLAPS

(***************************************************************************)
(* The types of the rules.                                                 *)
(***************************************************************************)
LEMMA SnapshotFields ==
    ASSUME NEW snap \in UnitSnapshot
    PROVE  /\ snap.strength \in Nat /\ snap.respawnTurns \in Nat
           /\ snap.routeIdx \in Nat /\ snap.cooldown \in Nat
           /\ snap.region \in Regions \cup {""}
           /\ snap.status \in UnitStatus
           /\ snap.route \in Routes
  BY DEF UnitSnapshot

LEMMA SnapshotExcept ==
    ASSUME NEW snap \in UnitSnapshot, NEW n \in Nat
    PROVE  /\ [snap EXCEPT !.cooldown = n] \in UnitSnapshot
           /\ [snap EXCEPT !.respawnTurns = n] \in UnitSnapshot
           /\ [snap EXCEPT !.strength = n, !.status = "ACTIVE"] \in UnitSnapshot
           /\ [snap EXCEPT !.status = "DESTROYED"] \in UnitSnapshot
           /\ \A r \in Regions \cup {""} :
                /\ [snap EXCEPT !.region = r] \in UnitSnapshot
                /\ [snap EXCEPT !.region = r, !.routeIdx = n] \in UnitSnapshot
                /\ [snap EXCEPT !.status = "ACTIVE", !.region = r,
                                !.strength = n, !.respawnTurns = 0] \in UnitSnapshot
           /\ \A route \in Routes : [snap EXCEPT !.route = route, !.routeIdx = 0] \in UnitSnapshot
  BY DEF UnitSnapshot, UnitStatus

LEMMA PathExcept ==
    ASSUME NEW path \in PathState
    PROVE  /\ \A n \in 0..2 : [path EXCEPT !.tempOpenTurns = n] \in PathState
           /\ \A n \in 0..2, s \in PathStatus :
                [path EXCEPT !.status = s, !.tempOpenTurns = n] \in PathState
           /\ \A n \in 0..2, s \in PathStatus, b \in Units \cup {""} :
                [path EXCEPT !.tempOpenTurns = n, !.status = s, !.blockedBy = b] \in PathState
           /\ \A n \in 0..3 :
                [path EXCEPT !.surveillanceLevel = n, !.corrupted = TRUE] \in PathState
           /\ \A n \in 0..3, s \in PathStatus, b \in Units \cup {""} :
                [path EXCEPT !.surveillanceLevel = n, !.status = s, !.blockedBy = b] \in PathState
           /\ \A s \in PathStatus, b \in Units \cup {""} :
                [path EXCEPT !.status = s, !.blockedBy = b] \in PathState
  BY DEF PathState

LEMMA PathValues ==
    /\ {"OPEN", "BLOCKED", "TEMPORARILY_OPEN"} \subseteq PathStatus
    /\ 0 \in 0..2 /\ 2 \in 0..2 /\ 3 \in 0..3
    /\ "" \in Units \cup {""}
  BY DEF PathStatus

LEMMA RaisedType == \A k \in 0..3, n \in Nat : Raised(k, n) \in 0..3
  BY DEF Raised

LEMMA RegionExcept ==
    ASSUME NEW region \in RegionState
    PROVE  /\ \A b \in BOOLEAN, n \in 0..2 :
                [region EXCEPT !.fortified = b, !.fortifyTurns = n] \in RegionState
           /\ \A c \in Controllers : [region EXCEPT !.controlledBy = c] \in RegionState
  BY DEF RegionState

LEMMA ConfigFields ==
    ASSUME NEW u \in Units
    PROVE  /\ Config[u].startRegion \in Regions /\ Config[u].strength \in Nat \ {0}
           /\ Config[u].leadershipBonus \in Nat /\ Config[u].respawnTurns \in Nat
           /\ Config[u].cooldown \in Nat /\ Config[u].detectionRange \in Nat
  BY UnitAssumption DEF UnitConfig

LEMMA NextNat == \A n \in Nat : n + 1 \in Nat /\ (n > 0 => n - 1 \in Nat) /\ (n > 1 => n - 1 \in Nat)
  OBVIOUS

LEMMA PowerType ==
    ASSUME NEW us \in [Units -> UnitSnapshot], NEW G \in SUBSET Units
    PROVE  Power(us, G) \in Nat
<1> DEFINE Parts == {{<<u, l>>} \X (1..Contribution(us, u, l)) : u \in G, l \in G}
<1>1. IsFiniteSet(G)
  BY FS_Subset, UnitAssumption
<1>2. IsFiniteSet(G \X G)
  BY <1>1, FS_Product
<1>3. \A u, l \in G : Contribution(us, u, l) \in Nat
  BY UnitAssumption DEF Contribution, UnitConfig, UnitSnapshot
<1>4. \A u, l \in G : IsFiniteSet({<<u, l>>} \X (1..Contribution(us, u, l)))
  <2> SUFFICES ASSUME NEW u \in G, NEW l \in G
               PROVE  IsFiniteSet({<<u, l>>} \X (1..Contribution(us, u, l)))
    OBVIOUS
  <2>1. IsFiniteSet(1..Contribution(us, u, l))
    BY <1>3, FS_Interval
  <2>2. IsFiniteSet({<<u, l>>})
    BY FS_Singleton
  <2> QED
    BY <2>1, <2>2, FS_Product
<1>5. \A T \in Parts : IsFiniteSet(T)
  BY <1>4
<1>6. IsFiniteSet(Parts)
  <2> DEFINE Part == [q \in G \X G |-> {q} \X (1..Contribution(us, q[1], q[2]))]
  <2>1. \A u, l \in G : Part[<<u, l>>] = {<<u, l>>} \X (1..Contribution(us, u, l))
    OBVIOUS
  <2>2. \A q \in G \X G : q = <<q[1], q[2]>> /\ q[1] \in G /\ q[2] \in G
    OBVIOUS
  <2>3. \A q \in G \X G : Part[q] \in Parts
    BY <2>1, <2>2
  <2>4. \A t \in Parts : \E q \in G \X G : Part[q] = t
    <3> TAKE t \in Parts
    <3>1. PICK u \in G, l \in G : t = {<<u, l>>} \X (1..Contribution(us, u, l))
      OBVIOUS
    <3>2. <<u, l>> \in G \X G /\ Part[<<u, l>>] = t
      BY <3>1, <2>1
    <3> QED
      BY <3>2
  <2> HIDE DEF Parts
  <2>5. Part \in [G \X G -> Parts]
    BY <2>3
  <2> HIDE DEF Part
  <2>6. Part \in Surjection(G \X G, Parts)
    BY <2>4, <2>5, Zenon DEF Surjection
  <2> QED
    BY <1>2, <2>6, FS_Surjection
<1>7. IsFiniteSet(UNION Parts)
  <2> HIDE DEF Parts
  <2> QED
    BY <1>5, <1>6, FS_UNION
<1> QED
  BY <1>7, FS_CardinalityType DEF Power, Points

LEMMA MarginType ==
    ASSUME NEW us \in [Units -> UnitSnapshot], NEW rs \in [Regions -> RegionState],
           NEW r \in Regions, NEW A \in SUBSET Units, NEW D \in SUBSET Units
    PROVE  CombatMargin(us, rs, r, A, D) \in Int
<1>1. Power(us, A) \in Nat /\ Power(us, D) \in Nat
  BY PowerType
<1>2. TerrainBonus(r) \in Nat
  BY DEF TerrainBonus
<1> QED
  BY <1>1, <1>2 DEF CombatMargin

LEMMA ApplyDamageType ==
    ASSUME NEW u \in Units, NEW snap \in UnitSnapshot, NEW d \in Int
    PROVE  ApplyDamage(u, snap, d) \in UnitSnapshot
<1> DEFINE raw == snap.strength - d
           left == IF raw < 1 THEN 1 ELSE raw
<1>1. left \in Nat
  <2>1. snap.strength \in Nat
    BY SnapshotFields
  <2> QED
    BY <2>1
<1>2. \A n \in Nat : [snap EXCEPT !.strength = n, !.status = "ACTIVE"] \in UnitSnapshot
  BY SnapshotExcept
<1>3. \A n, c \in Nat, s \in UnitStatus :
        [region |-> "", strength |-> 0, status |-> s, respawnTurns |-> n,
         route |-> <<>>, routeIdx |-> 0, cooldown |-> c] \in UnitSnapshot
  <2>1. <<>> \in Routes
    BY DEF Routes
  <2> QED
    BY <2>1 DEF UnitSnapshot
<1>4. Config[u].respawnTurns + 1 \in Nat /\ snap.cooldown \in Nat
  <2>1. Config[u].respawnTurns \in Nat /\ snap.cooldown \in Nat
    BY ConfigFields, SnapshotFields
  <2> QED
    BY <2>1
<1>5. CASE raw > 0 \/ Config[u].indestructible
  BY <1>1, <1>2, <1>5 DEF ApplyDamage
<1>6. CASE ~(raw > 0 \/ Config[u].indestructible)
  <2>1. CASE Config[u].respawns
    BY <1>3, <1>4, <1>6, <2>1 DEF ApplyDamage, UnitStatus
  <2>2. CASE ~Config[u].respawns
    BY <1>3, <1>4, <1>6, <2>2 DEF ApplyDamage, UnitStatus
  <2> QED
    BY <2>1, <2>2
<1> QED
  BY <1>5, <1>6

LEMMA DamageType ==
    ASSUME NEW us \in [Units -> UnitSnapshot], NEW G \in SUBSET Units, NEW d \in Int
    PROVE  Damage(us, G, d) \in [Units -> UnitSnapshot]
  BY ApplyDamageType DEF Damage

LEMMA MoveInType ==
    ASSUME NEW us \in [Units -> UnitSnapshot], NEW G \in SUBSET Units, NEW r \in Regions
    PROVE  MoveIn(us, G, r) \in [Units -> UnitSnapshot]
  BY SnapshotExcept DEF MoveIn

LEMMA DisableSarumanType ==
    ASSUME NEW us \in [Units -> UnitSnapshot]
    PROVE  DisableSaruman(us) \in [Units -> UnitSnapshot]
  BY SnapshotExcept DEF DisableSaruman

LEMMA RevertOrphansType ==
    ASSUME NEW ps \in [Paths -> PathState], NEW us \in [Units -> UnitSnapshot]
    PROVE  RevertOrphans(ps, us) \in [Paths -> PathState]
  BY DEF RevertOrphans, PathState, PathStatus

LEMMA CooldownTimerType ==
    ASSUME NEW snap \in UnitSnapshot
    PROVE  CooldownTimer(snap) \in UnitSnapshot
<1>1. snap.cooldown \in Nat
  BY SnapshotFields
<1>2. snap.cooldown > 0 => snap.cooldown - 1 \in Nat
  BY <1>1
<1>3. \A n \in Nat : [snap EXCEPT !.cooldown = n] \in UnitSnapshot
  BY SnapshotExcept
<1> QED
  BY <1>2, <1>3 DEF CooldownTimer

LEMMA RespawnTimerType ==
    ASSUME NEW u \in Units, units[u] \in UnitSnapshot
    PROVE  RespawnTimer(u) \in UnitSnapshot
<1>1. units[u].respawnTurns \in Nat
  BY SnapshotFields
<1>2. units[u].respawnTurns > 1 => units[u].respawnTurns - 1 \in Nat
  BY <1>1
<1>3. Config[u].startRegion \in Regions /\ Config[u].strength \in Nat
  BY ConfigFields
<1>4. \A n \in Nat, r \in Regions :
        /\ [units[u] EXCEPT !.respawnTurns = n] \in UnitSnapshot
        /\ [units[u] EXCEPT !.status = "ACTIVE", !.region = r, !.strength = n,
                            !.respawnTurns = 0] \in UnitSnapshot
  BY SnapshotExcept
<1> QED
  BY <1>2, <1>3, <1>4 DEF RespawnTimer

LEMMA TempOpenTimerType ==
    ASSUME TypeOK, NEW p \in Paths
    PROVE  TempOpenTimer(p) \in PathState
<1>1. paths[p] \in PathState
  BY DEF TypeOK
<1>2. paths[p].tempOpenTurns \in 0..2 /\ paths[p].blockedBy \in Units \cup {""}
  BY <1>1 DEF PathState
<1>3. \A n \in 0..2 : n > 1 => n - 1 \in 0..2
  OBVIOUS
<1>4. \A n \in 0..2 : [paths[p] EXCEPT !.tempOpenTurns = n] \in PathState
  BY <1>1, PathExcept
<1>5. \A b \in Units \cup {""} :
        /\ [paths[p] EXCEPT !.tempOpenTurns = 0, !.status = "BLOCKED", !.blockedBy = b] \in PathState
        /\ [paths[p] EXCEPT !.tempOpenTurns = 0, !.status = "OPEN", !.blockedBy = b] \in PathState
  BY <1>1, PathExcept, PathValues
<1> QED
  <2>1. CASE paths[p].status # "TEMPORARILY_OPEN"
    BY <1>1, <2>1 DEF TempOpenTimer
  <2>2. CASE paths[p].status = "TEMPORARILY_OPEN" /\ paths[p].tempOpenTurns > 1
    <3>1. TempOpenTimer(p) = [paths[p] EXCEPT !.tempOpenTurns = paths[p].tempOpenTurns - 1]
      BY <2>2 DEF TempOpenTimer
    <3>2. paths[p].tempOpenTurns - 1 \in 0..2
      BY <1>2, <1>3, <2>2
    <3> QED
      BY <1>4, <3>1, <3>2, Zenon
  <2>3. CASE paths[p].status = "TEMPORARILY_OPEN" /\ ~(paths[p].tempOpenTurns > 1)
    <3> DEFINE blocker == paths[p].blockedBy
               blocked == /\ blocker # "" /\ Active(blocker)
                          /\ IsEndpointRegion(p, units[blocker].region)
    <3>1. CASE blocked
      <4>1. TempOpenTimer(p) = [paths[p] EXCEPT !.tempOpenTurns = 0, !.status = "BLOCKED",
                                               !.blockedBy = paths[p].blockedBy]
        BY <2>3, <3>1 DEF TempOpenTimer
      <4> QED
        BY <1>2, <1>5, <4>1, Zenon
    <3>2. CASE ~blocked
      <4>1. TempOpenTimer(p) = [paths[p] EXCEPT !.tempOpenTurns = 0, !.status = "OPEN",
                                               !.blockedBy = ""]
        BY <2>3, <3>2 DEF TempOpenTimer
      <4> QED
        BY <1>5, <4>1, Zenon
    <3> QED
      BY <3>1, <3>2
  <2> QED
    BY <2>1, <2>2, <2>3

(***************************************************************************)
(* Type correctness, one lemma for each step.                              *)
(***************************************************************************)
LEMMA StartTypes ==
    /\ StartRegion \in Regions
    /\ StartCache \in WorldStateCache
<1>1. TheRingBearer \in Units
  BY UnitAssumption DEF TheRingBearer
<1>2. StartRegion \in Regions
  BY <1>1, ConfigFields DEF StartRegion
<1>3. \A u \in Units : StartUnit(u) \in UnitSnapshot
  <2> TAKE u \in Units
  <2>1. <<>> \in Routes
    BY DEF Routes
  <2>2. Config[u].startRegion \in Regions /\ Config[u].strength \in Nat
    BY ConfigFields
  <2> QED
    BY <2>1, <2>2 DEF StartUnit, UnitSnapshot, UnitStatus
<1>4. StartPath \in PathState
  BY DEF StartPath, PathState, PathStatus
<1>5. StartRegions \in [Regions -> RegionState]
  <2> SUFFICES ASSUME NEW r \in Regions
               PROVE  [controlledBy |-> RegionConfig[r].startControl,
                       threatLevel |-> RegionConfig[r].startThreat,
                       fortified |-> FALSE, fortifyTurns |-> 0] \in RegionState
    BY DEF StartRegions
  <2>1. RegionConfig[r].startControl \in Controllers /\ RegionConfig[r].startThreat \in Nat
    BY UnitAssumption DEF RegionConfigs
  <2> QED
    BY <2>1 DEF RegionState
<1>6. 1 \in 1..MaxTurns
  BY GameAssumption
<1> QED
  BY <1>2, <1>3, <1>4, <1>5, <1>6, GameAssumption DEF StartCache, WorldStateCache

LEMMA TypeInit == Init => TypeOK
<1> SUFFICES ASSUME Init PROVE TypeOK
  OBVIOUS
<1>1. NoOrders \in [Units -> Order \cup {NoOrder}]
  BY DEF NoOrders
<1>2. NoDetection \in [turn : Nat, region : Regions \cup {""}]
  BY DEF NoDetection
<1> QED
  BY <1>1, <1>2, StartTypes DEF Init, TypeOK, CopyCache, WorldStateCache

LEMMA TypeRun ==
    ASSUME TypeOK,
           \/ \E u \in Units : \E o \in OrderChoices[u] : ReceiveOrder(u, o)
           \/ StartGame \/ ResetGame \/ BeginTurn \/ TickAfterGameOver \/ Done
    PROVE  TypeOK'
<1>1. CASE \E u \in Units : \E o \in OrderChoices[u] : ReceiveOrder(u, o)
  <2> PICK u \in Units : \E o \in OrderChoices[u] : ReceiveOrder(u, o)
    BY <1>1
  <2> PICK o \in OrderChoices[u] : ReceiveOrder(u, o)
    OBVIOUS
  <2>1. o \in Order
    BY GameAssumption
  <2>2. ordersThisTurn' \in [Units -> Order \cup {NoOrder}]
    BY <2>1 DEF ReceiveOrder, TypeOK
  <2> QED
    BY <2>2 DEF ReceiveOrder, TypeOK, secret, board
<1>2. CASE StartGame
  <2>1. cache' \in WorldStateCache
    BY <1>2 DEF StartGame, TypeOK, WorldStateCache
  <2> QED
    BY <1>2, <2>1 DEF StartGame, TypeOK, secret, board
<1>3. CASE ResetGame
  <2>1. [r \in Regions |-> [controlledBy |-> "", threatLevel |-> 0, fortified |-> FALSE,
                            fortifyTurns |-> 0]] \in [Regions -> RegionState]
    BY DEF RegionState, Controllers
  <2>2. cache' \in WorldStateCache
    BY <1>3, <2>1, StartTypes DEF ResetGame, WorldStateCache
  <2>3. NoDetection \in [turn : Nat, region : Regions \cup {""}]
    BY DEF NoDetection
  <2> QED
    BY <1>3, <2>2, <2>3, StartTypes DEF ResetGame, TypeOK, WorldStateCache
<1>4. CASE BeginTurn
  <2>1. NoOrders \in [Units -> Order \cup {NoOrder}]
    BY DEF NoOrders
  <2> QED
    BY <1>4, <2>1 DEF BeginTurn, TypeOK, secret, board, Steps
<1>5. CASE TickAfterGameOver \/ Done
  BY <1>5 DEF TickAfterGameOver, Done, TypeOK, secret, board
<1> QED
  BY <1>1, <1>2, <1>3, <1>4, <1>5

\* the steps that change the units by what each unit was ordered
LEMMA TypeOrders ==
    ASSUME TypeOK, StepAssignRoutes \/ StepReinforce \/ StepFortify
    PROVE  TypeOK'
<1>1. \A u \in Units : units[u] \in UnitSnapshot /\ orders[u] \in Order \cup {NoOrder}
  BY DEF TypeOK
<1>2. \A u \in Units : orders[u].route \in Routes /\ orders[u].region \in Regions \cup {""}
  <2> TAKE u \in Units
  <2>1. CASE orders[u] \in Order
    BY <2>1 DEF Order
  <2>2. CASE orders[u] = NoOrder
    <3>1. NoOrder.route = <<>> /\ NoOrder.region = "" /\ <<>> \in Routes
      BY DEF NoOrder, Routes
    <3> QED
      BY <2>2, <3>1
  <2> QED
    BY <1>1, <2>1, <2>2
<1>3. CASE StepAssignRoutes
  <2>1. \A u \in Units :
          [units[u] EXCEPT !.route = orders[u].route, !.routeIdx = 0] \in UnitSnapshot
    BY <1>1, <1>2, SnapshotExcept, Zenon
  <2>2. units' \in [Units -> UnitSnapshot]
    BY <1>1, <1>3, <2>1 DEF StepAssignRoutes
  <2> QED
    BY <1>3, <2>2 DEF StepAssignRoutes, TypeOK, Steps, secret
<1>4. CASE StepReinforce
  <2>1. \A u \in Units : \A r \in Regions : [units[u] EXCEPT !.region = r] \in UnitSnapshot
    BY <1>1, SnapshotExcept
  <2>2. units' \in [Units -> UnitSnapshot]
    BY <1>1, <1>4, <2>1 DEF StepReinforce, MovedByOrder
  <2> QED
    BY <1>4, <2>2 DEF StepReinforce, TypeOK, Steps, secret
<1>5. CASE StepFortify
  <2>1. \A r \in Regions : [regions[r] EXCEPT !.fortified = TRUE, !.fortifyTurns = 2] \in RegionState
    <3> TAKE r \in Regions
    <3>1. regions[r] \in RegionState
      BY DEF TypeOK
    <3> QED
      BY <3>1, PathValues, RegionExcept, Zenon
  <2>2. regions' \in [Regions -> RegionState]
    BY <1>5, <2>1 DEF StepFortify, TypeOK
  <2> QED
    BY <1>5, <2>2 DEF StepFortify, TypeOK, Steps, secret
<1> QED
  BY <1>3, <1>4, <1>5

\* the paths after the orders of step 3, last[p] being the unit recorded as blocking p
Blocking(last) ==
    [p \in Paths |->
       [paths[p] EXCEPT
          !.surveillanceLevel = Raised(@, Cardinality(Searchers(p))),
          !.status = IF last[p] = "" THEN @ ELSE "BLOCKED",
          !.blockedBy = IF last[p] = "" THEN @ ELSE last[p]]]

LEMMA BlockingType ==
    ASSUME TypeOK, NEW last \in [Paths -> Units \cup {""}]
    PROVE  Blocking(last) \in [Paths -> PathState]
<1>0. \A p \in Paths : Cardinality(Searchers(p)) \in Nat
  <2> TAKE p \in Paths
  <2>1. IsFiniteSet(Searchers(p))
    BY FS_Subset, UnitAssumption DEF Searchers
  <2> QED
    BY <2>1, FS_CardinalityType
<1> SUFFICES ASSUME NEW p \in Paths
             PROVE  Blocking(last)[p] \in PathState
  BY Zenon DEF Blocking
<1>1. paths[p] \in PathState
  BY DEF TypeOK
<1>2. paths[p].surveillanceLevel \in 0..3
  BY <1>1 DEF PathState
<1> DEFINE level == Raised(paths[p].surveillanceLevel, Cardinality(Searchers(p)))
<1>3. level \in 0..3
  BY <1>0, <1>2, RaisedType, Zenon
<1>4. Blocking(last)[p] =
        [paths[p] EXCEPT !.surveillanceLevel = level,
                         !.status = IF last[p] = "" THEN paths[p].status ELSE "BLOCKED",
                         !.blockedBy = IF last[p] = "" THEN paths[p].blockedBy ELSE last[p]]
  BY DEF Blocking
<1> HIDE DEF level
<1>5. \A s \in PathStatus, b \in Units \cup {""} :
        [paths[p] EXCEPT !.surveillanceLevel = level, !.status = s, !.blockedBy = b] \in PathState
  BY <1>1, <1>3, PathExcept
<1>6. /\ paths[p].status \in PathStatus /\ "BLOCKED" \in PathStatus
      /\ paths[p].blockedBy \in Units \cup {""} /\ last[p] \in Units \cup {""}
  BY <1>1 DEF PathState, PathStatus
<1>7. PICK s \in PathStatus, b \in Units \cup {""} :
        Blocking(last)[p] = [paths[p] EXCEPT !.surveillanceLevel = level, !.status = s,
                                             !.blockedBy = b]
  BY <1>4, <1>6
<1>8. [paths[p] EXCEPT !.surveillanceLevel = level, !.status = s, !.blockedBy = b] \in PathState
  BY <1>5
<1> QED
  BY <1>7, <1>8, Zenon

LEMMA TypeBlockAndSearch ==
    ASSUME TypeOK, StepBlockAndSearch
    PROVE  TypeOK'
<1>1. PICK last \in [Paths -> Units \cup {""}] : paths' = RevertOrphans(Blocking(last), units)
  BY DEF StepBlockAndSearch, Blocking
<1>2. paths' \in [Paths -> PathState]
  BY <1>1, BlockingType, RevertOrphansType DEF TypeOK
<1> QED
  BY <1>2 DEF StepBlockAndSearch, TypeOK, Steps, secret

LEMMA TypeMaia ==
    ASSUME TypeOK, NEW u \in Units, StepMaia(u)
    PROVE  TypeOK'
<1>1. units[u] \in UnitSnapshot /\ paths \in [Paths -> PathState]
      /\ units \in [Units -> UnitSnapshot]
  BY DEF TypeOK
<1> DEFINE p == orders[u].path
           after == Config[u].cooldown + 1
<1>2. after \in Nat
  BY ConfigFields, NextNat, Zenon
<1>3. [units EXCEPT ![u].cooldown = after] \in [Units -> UnitSnapshot]
  <2> HIDE DEF after
  <2>1. [units[u] EXCEPT !.cooldown = after] \in UnitSnapshot
    BY <1>1, <1>2, SnapshotExcept, Zenon
  <2> QED
    BY <1>1, <2>1
<1>4. CASE MayOpen(u, p) /\ paths' = [paths EXCEPT ![p].status = "TEMPORARILY_OPEN",
                                                  ![p].tempOpenTurns = 2]
                         /\ units' = [units EXCEPT ![u].cooldown = after]
  <2>1. p \in Paths
    BY <1>4 DEF MayOpen, CanUseAbility
  <2>2. [paths[p] EXCEPT !.status = "TEMPORARILY_OPEN", !.tempOpenTurns = 2] \in PathState
    <3>1. paths[p] \in PathState
      BY <1>1, <2>1
    <3> QED
      BY <3>1, PathExcept, PathValues
  <2>3. paths' \in [Paths -> PathState]
    BY <1>1, <1>4, <2>1, <2>2
  <2>4. units' \in [Units -> UnitSnapshot]
    BY <1>3, <1>4
  <2> QED
    BY <2>3, <2>4 DEF StepMaia, TypeOK, secret
<1>5. CASE MayCorrupt(u, p) /\ paths' = [paths EXCEPT ![p].surveillanceLevel = 3,
                                                     ![p].corrupted = TRUE]
                            /\ units' = [units EXCEPT ![u].cooldown = after]
  <2>1. p \in Paths
    BY <1>5 DEF MayCorrupt, CanUseAbility
  <2>2. [paths[p] EXCEPT !.surveillanceLevel = 3, !.corrupted = TRUE] \in PathState
    <3>1. paths[p] \in PathState
      BY <1>1, <2>1
    <3> QED
      BY <3>1, PathExcept, PathValues
  <2>3. paths' \in [Paths -> PathState]
    BY <1>1, <1>5, <2>1, <2>2
  <2>4. units' \in [Units -> UnitSnapshot]
    BY <1>3, <1>5
  <2> QED
    BY <2>3, <2>4 DEF StepMaia, TypeOK, secret
<1>6. CASE UNCHANGED <<units, paths>>
  BY <1>6 DEF StepMaia, TypeOK, secret
<1> QED
  BY <1>4, <1>5, <1>6 DEF StepMaia

\* the steps that only choose what to visit next
LEMMA TypeBegin ==
    ASSUME TypeOK, BeginAdvance \/ BeginCombat
    PROVE  TypeOK'
<1>1. CASE BeginAdvance
  BY <1>1 DEF BeginAdvance, TypeOK, Steps, secret, board
<1>2. CASE BeginCombat
  BY <1>2 DEF BeginCombat, TypeOK, Steps, secret, board
<1> QED
  BY <1>1, <1>2

LEMMA OtherEndType ==
    ASSUME NEW p \in Paths, NEW r
    PROVE  OtherEnd(p, r) \in Regions
  BY MapAssumption DEF OtherEnd

LEMMA ClearPhantomType ==
    ASSUME TypeOK, NEW p \in Paths, ClearPhantom(p)
    PROVE  paths' \in [Paths -> PathState]
<1>1. paths[p] \in PathState /\ paths \in [Paths -> PathState]
  BY DEF TypeOK
<1>2. [paths[p] EXCEPT !.status = "OPEN", !.blockedBy = ""] \in PathState
  BY <1>1, PathExcept, PathValues
<1> QED
  BY <1>1, <1>2 DEF ClearPhantom

LEMMA TypeAutoAdvance ==
    ASSUME TypeOK, NEW u \in Units, StepAutoAdvance(u), NextPath(u) \in Paths
    PROVE  TypeOK'
<1> DEFINE p == NextPath(u)
           to == OtherEnd(p, EffectiveRegion(u))
           moved == [units EXCEPT ![u].region = IF IsRingBearer(u) THEN "" ELSE to,
                                  ![u].routeIdx = @ + 1]
<1>1. units \in [Units -> UnitSnapshot] /\ units[u] \in UnitSnapshot
  BY DEF TypeOK
<1>2. to \in Regions
  BY OtherEndType
<1>3. moved \in [Units -> UnitSnapshot]
  <2>1. units[u].routeIdx \in Nat
    BY <1>1, SnapshotFields
  <2>2. units[u].routeIdx + 1 \in Nat
    BY <2>1
  <2>3. \A r \in Regions \cup {""} :
          [units[u] EXCEPT !.region = r, !.routeIdx = units[u].routeIdx + 1] \in UnitSnapshot
    BY <1>1, <2>2, SnapshotExcept, Zenon
  <2>4. \A r \in Regions \cup {""} :
          [units EXCEPT ![u].region = r, ![u].routeIdx = @ + 1] \in [Units -> UnitSnapshot]
    BY <1>1, <2>3
  <2> HIDE DEF to
  <2> QED
    BY <1>2, <2>4
<1>4. paths \in [Paths -> PathState] /\ ClearPhantom(p) => paths' \in [Paths -> PathState]
  BY ClearPhantomType
<1>5. /\ units' \in [Units -> UnitSnapshot] /\ paths' \in [Paths -> PathState]
      /\ lightRegion' \in Regions /\ trueRegion' \in Regions /\ exposed' \in BOOLEAN
  <2>1. CASE HeldBack(p) /\ UNCHANGED <<units, paths, lightRegion, trueRegion, exposed>>
    BY <2>1 DEF TypeOK
  <2>2. CASE ClearPhantom(p) /\ UNCHANGED <<units, lightRegion, trueRegion, exposed>>
    BY <1>4, <2>2 DEF TypeOK
  <2>3. CASE ClearPhantom(p) /\ units' = moved /\ UNCHANGED <<lightRegion, trueRegion, exposed>>
    BY <1>3, <1>4, <2>3 DEF TypeOK
  <2>4. CASE /\ ClearPhantom(p) /\ units' = moved
             /\ trueRegion' = to /\ lightRegion' = to
             /\ exposed' = (exposed \/ ExposedByPath(paths[p], cache.turn, HiddenUntil))
    <3>1. exposed' \in BOOLEAN
      BY <2>4, Zenon
    <3> QED
      BY <1>2, <1>3, <1>4, <2>4, <3>1 DEF TypeOK
  <2> QED
    BY <2>1, <2>2, <2>3, <2>4 DEF StepAutoAdvance
<1> QED
  BY <1>5 DEF StepAutoAdvance, TypeOK

LEMMA TypeCombat ==
    ASSUME TypeOK, NEW r \in Regions, StepCombat(r)
    PROVE  TypeOK'
<1>1. units \in [Units -> UnitSnapshot] /\ regions \in [Regions -> RegionState]
  BY DEF TypeOK
<1>2. PICK side \in AttackerSides(r) :
         LET attackers == Attackers(r)
             defenders == Defenders(r, side)
             margin == CombatMargin(units, regions, r, attackers, defenders)
             taken == MoveIn(Damage(units, defenders, margin), attackers, r)
         IN  \/ /\ units' = MoveIn(units, attackers, r)
                /\ regions' = [regions EXCEPT ![r].controlledBy = side]
             \/ /\ units' = DisableSaruman(taken) \/ units' = taken
                /\ regions' = [regions EXCEPT ![r].controlledBy = side]
             \/ units' = Damage(units, attackers, 1) /\ UNCHANGED regions
  BY DEF StepCombat
<1> DEFINE attackers == Attackers(r)
           defenders == Defenders(r, side)
           margin == CombatMargin(units, regions, r, attackers, defenders)
           taken == MoveIn(Damage(units, defenders, margin), attackers, r)
<1>3. attackers \in SUBSET Units /\ defenders \in SUBSET Units
  BY DEF Attackers, Defenders
<1>4. margin \in Int
  BY <1>1, <1>3, MarginType
<1>5. side \in Controllers
  BY UnitAssumption DEF AttackerSides, Attackers, Controllers, Sides, UnitConfig
<1>6. [regions EXCEPT ![r].controlledBy = side] \in [Regions -> RegionState]
  <2>1. [regions[r] EXCEPT !.controlledBy = side] \in RegionState
    BY <1>1, <1>5, RegionExcept
  <2> QED
    BY <1>1, <2>1
<1>7. /\ MoveIn(units, attackers, r) \in [Units -> UnitSnapshot]
      /\ Damage(units, attackers, 1) \in [Units -> UnitSnapshot]
      /\ taken \in [Units -> UnitSnapshot] /\ DisableSaruman(taken) \in [Units -> UnitSnapshot]
  <2> HIDE DEF attackers, defenders, margin
  <2>1. Damage(units, defenders, margin) \in [Units -> UnitSnapshot]
    BY <1>1, <1>3, <1>4, DamageType
  <2>2. taken \in [Units -> UnitSnapshot]
    BY <1>3, <2>1, MoveInType
  <2>3. MoveIn(units, attackers, r) \in [Units -> UnitSnapshot]
    BY <1>1, <1>3, MoveInType
  <2>4. Damage(units, attackers, 1) \in [Units -> UnitSnapshot]
    BY <1>1, <1>3, DamageType
  <2>5. DisableSaruman(taken) \in [Units -> UnitSnapshot]
    <3> HIDE DEF taken
    <3> QED
      BY <2>2, DisableSarumanType
  <2> QED
    BY <2>2, <2>3, <2>4, <2>5
<1>8. units' \in [Units -> UnitSnapshot] /\ regions' \in [Regions -> RegionState]
  BY <1>1, <1>2, <1>6, <1>7
<1> QED
  BY <1>8 DEF StepCombat, TypeOK, secret

LEMMA TypeTimers ==
    ASSUME TypeOK,
           EndCombat \/ StepTempOpenTimers \/ StepFortificationTimers \/ StepRespawnAndCooldown
    PROVE  TypeOK'
<1>1. CASE EndCombat
  <2>1. paths' \in [Paths -> PathState]
    BY <1>1, RevertOrphansType DEF EndCombat, TypeOK
  <2> QED
    BY <1>1, <2>1 DEF EndCombat, TypeOK, Steps, secret
<1>2. CASE StepTempOpenTimers
  <2>1. paths' \in [Paths -> PathState]
    BY <1>2, TempOpenTimerType DEF StepTempOpenTimers
  <2> QED
    BY <1>2, <2>1 DEF StepTempOpenTimers, TypeOK, Steps, secret
<1>3. CASE StepFortificationTimers
  <2> DEFINE left(r) == regions[r].fortifyTurns - 1
             Timed(r) == [regions[r] EXCEPT !.fortified = left(r) > 0,
                                            !.fortifyTurns = IF left(r) > 0 THEN left(r) ELSE 0]
  <2>1. ASSUME NEW r \in Regions
        PROVE  regions[r] \in RegionState /\ Timed(r) \in RegionState
    <3>1. regions[r] \in RegionState
      BY DEF TypeOK
    <3>2. regions[r].fortifyTurns \in 0..2
      BY <3>1 DEF RegionState
    <3>3. (IF left(r) > 0 THEN left(r) ELSE 0) \in 0..2 /\ (left(r) > 0) \in BOOLEAN
      BY <3>2
    <3> HIDE DEF left
    <3> QED
      BY <3>1, <3>3, RegionExcept, Zenon
  <2>2. regions' = [r \in Regions |-> IF ~regions[r].fortified THEN regions[r] ELSE Timed(r)]
    BY <1>3 DEF StepFortificationTimers
  <2> HIDE DEF Timed
  <2>3. regions' \in [Regions -> RegionState]
    BY <2>1, <2>2
  <2> QED
    BY <1>3, <2>3 DEF StepFortificationTimers, TypeOK, Steps, secret
<1>4. CASE StepRespawnAndCooldown
  <2>1. \A u \in Units : CooldownTimer(RespawnTimer(u)) \in UnitSnapshot
    <3> TAKE u \in Units
    <3>1. RespawnTimer(u) \in UnitSnapshot
      BY RespawnTimerType DEF TypeOK
    <3> QED
      BY <3>1, CooldownTimerType
  <2>2. units' \in [Units -> UnitSnapshot]
    BY <1>4, <2>1 DEF StepRespawnAndCooldown
  <2> QED
    BY <1>4, <2>2 DEF StepRespawnAndCooldown, TypeOK, Steps, secret
<1> QED
  BY <1>1, <1>2, <1>3, <1>4

LEMMA OutcomeType ==
    ASSUME TypeOK
    PROVE  /\ Outcome \in {"NONE", "LIGHT_SIDE", "DARK_SIDE", "DRAW"}
           /\ Outcome = "NONE" => cache.turn + 1 \in 1..MaxTurns
<1>1. cache.turn \in 1..MaxTurns
  BY DEF TypeOK, WorldStateCache
<1>2. Outcome \in {"NONE", "LIGHT_SIDE", "DARK_SIDE", "DRAW"}
  BY DEF Outcome
<1>3. Outcome = "NONE" => ~(cache.turn >= MaxTurns)
  BY DEF Outcome
<1> QED
  BY <1>1, <1>2, <1>3, GameAssumption

LEMMA TypeEnd ==
    ASSUME TypeOK, StepDetection \/ StepWinConditions
    PROVE  TypeOK'
<1>1. CASE StepDetection
  <2>1. cache.turn \in 1..MaxTurns
    BY DEF TypeOK, WorldStateCache
  <2>2. cache.turn \in Nat
    BY <2>1, GameAssumption
  <2>3. exposed' \in BOOLEAN /\ lastDetected' \in [turn : Nat, region : Regions \cup {""}]
    <3>1. CASE exposed' = TRUE /\ lastDetected' = [turn |-> cache.turn, region |-> trueRegion]
      BY <2>2, <3>1 DEF TypeOK
    <3>2. CASE UNCHANGED <<exposed, lastDetected>>
      BY <3>2 DEF TypeOK
    <3> QED
      BY <1>1, <3>1, <3>2 DEF StepDetection
  <2> QED
    BY <1>1, <2>3 DEF StepDetection, TypeOK, Steps, board
<1>2. CASE StepWinConditions
  <2> DEFINE turn == IF Outcome = "NONE" THEN cache.turn + 1 ELSE cache.turn
  <2>1. turn \in 1..MaxTurns
    BY OutcomeType DEF TypeOK, WorldStateCache
  <2>2. cache' = [cache EXCEPT !.turn = turn, !.units = units, !.paths = paths,
                               !.regions = regions, !.lightRegion = lightRegion]
    BY <1>2 DEF StepWinConditions
  <2> HIDE DEF turn
  <2>3. cache' \in WorldStateCache
    BY <2>1, <2>2 DEF TypeOK, WorldStateCache
  <2>4. NoOrders \in [Units -> Order \cup {NoOrder}]
    BY DEF NoOrders
  <2>5. result' \in {"NONE", "LIGHT_SIDE", "DARK_SIDE", "DRAW"}
    BY <1>2, OutcomeType DEF StepWinConditions
  <2> QED
    BY <1>2, <2>3, <2>4, <2>5 DEF StepWinConditions, TypeOK, board
<1> QED
  BY <1>1, <1>2

(***************************************************************************)
(* The walk of step 7 only keeps its types because every unit still to be  *)
(* visited has a real path next on its route: the units are picked at the  *)
(* beginning of the step, and nobody's route changes before its own visit. *)
(***************************************************************************)
WalkersHavePaths == pc = "advance" => \A u \in Units \cap todo : NextPath(u) \in Paths

TypeInv == TypeOK /\ WalkersHavePaths

LEMMA TypeNext == TypeInv /\ [Next]_vars => TypeOK'
<1> SUFFICES ASSUME TypeInv, [Next]_vars PROVE TypeOK'
  OBVIOUS
<1> USE DEF TypeInv
<1>1. CASE (\E u \in Units : \E o \in OrderChoices[u] : ReceiveOrder(u, o))
           \/ StartGame \/ ResetGame \/ BeginTurn \/ TickAfterGameOver \/ Done
  BY <1>1, TypeRun
<1>2. CASE StepAssignRoutes \/ StepReinforce \/ StepFortify
  BY <1>2, TypeOrders
<1>3. CASE StepBlockAndSearch
  BY <1>3, TypeBlockAndSearch
<1>4. ASSUME NEW u \in Units, StepMaia(u) PROVE TypeOK'
  BY <1>4, TypeMaia
<1>5. CASE BeginAdvance \/ BeginCombat
  BY <1>5, TypeBegin
<1>6. ASSUME NEW u \in Units, StepAutoAdvance(u) PROVE TypeOK'
  <2>1. NextPath(u) \in Paths
    BY <1>6 DEF WalkersHavePaths, StepAutoAdvance
  <2> QED
    BY <1>6, <2>1, TypeAutoAdvance
<1>7. ASSUME NEW r \in Regions, StepCombat(r) PROVE TypeOK'
  BY <1>7, TypeCombat
<1>8. CASE EndCombat \/ StepTempOpenTimers \/ StepFortificationTimers \/ StepRespawnAndCooldown
  BY <1>8, TypeTimers
<1>9. CASE StepDetection \/ StepWinConditions
  BY <1>9, TypeEnd
<1>10. CASE UNCHANGED vars
  BY <1>10 DEF vars, control, secret, board, TypeOK
<1> QED
  BY <1>1, <1>2, <1>3, <1>4, <1>5, <1>6, <1>7, <1>8, <1>9, <1>10 DEF Next, ProcessTurn

LEMMA WalkersNext == TypeInv /\ [Next]_vars => WalkersHavePaths'
<1> SUFFICES ASSUME TypeInv, [Next]_vars, pc' = "advance"
             PROVE  \A u \in Units \cap todo' : NextPath(u)' \in Paths
  BY DEF WalkersHavePaths
<1>1. CASE BeginAdvance
  BY <1>1 DEF BeginAdvance, NextPath, board
<1>2. ASSUME NEW v \in Units, StepAutoAdvance(v)
      PROVE  \A u \in Units \cap todo' : NextPath(u)' \in Paths
  <2> SUFFICES ASSUME NEW u \in Units \cap todo' PROVE NextPath(u)' \in Paths
    OBVIOUS
  <2>1. pc = "advance" /\ u \in todo /\ u # v
    BY <1>2 DEF StepAutoAdvance
  <2>2. units'[u] = units[u]
    BY <1>2, <2>1 DEF StepAutoAdvance, TypeInv, TypeOK
  <2> QED
    BY <2>1, <2>2 DEF NextPath, TypeInv, WalkersHavePaths
<1>3. CASE UNCHANGED vars
  BY <1>3 DEF vars, control, board, TypeInv, WalkersHavePaths, NextPath
<1>4. \/ BeginAdvance
      \/ \E v \in Units : StepAutoAdvance(v)
      \/ UNCHANGED vars
  BY DEF Next, ProcessTurn, ReceiveOrder, StartGame, ResetGame, BeginTurn, TickAfterGameOver,
         Done, StepAssignRoutes, StepBlockAndSearch, StepReinforce, StepFortify, StepMaia,
         BeginCombat, StepCombat, EndCombat, StepTempOpenTimers, StepFortificationTimers,
         StepRespawnAndCooldown, StepDetection, StepWinConditions
<1> QED
  BY <1>1, <1>2, <1>3, <1>4

LEMMA TypeInvariant == Spec => []TypeInv
<1>1. Init => TypeInv
  BY TypeInit DEF TypeInv, WalkersHavePaths, Init
<1>2. TypeInv /\ [Next]_vars => TypeInv'
  BY TypeNext, WalkersNext DEF TypeInv
<1> QED
  BY <1>1, <1>2, PTL DEF Spec

(***************************************************************************)
(* Type correctness, for any map, army and orders: in particular the turn  *)
(* never passes MaxTurns, a unit's strength and timers never go below zero *)
(* whatever the battles (combat.go) and timers do, and surveillance stays  *)
(* between 0 and 3.                                                        *)
(***************************************************************************)
THEOREM TypeCorrect == Spec => []TypeOK
<1>1. TypeInv => TypeOK
  BY DEF TypeInv
<1> QED
  BY <1>1, TypeInvariant, PTL

----------------------------------------------------------------------------
(***************************************************************************)
(* Safety, from the types.                                                 *)
(***************************************************************************)
(***************************************************************************)
(* What every step but the last has in common: it neither publishes nor    *)
(* decides anything, and the turn goes on.                                 *)
(***************************************************************************)
MiddleStep == ProcessTurn /\ ~StepWinConditions

LEMMA MiddleStepFrame ==
    ASSUME MiddleStep
    PROVE  /\ pc \in Steps /\ pc' \in Steps
           /\ UNCHANGED <<ordersThisTurn, result, cache, orders>>
  BY DEF MiddleStep, ProcessTurn, Steps, secret, board,
         StepAssignRoutes, StepBlockAndSearch, StepReinforce, StepFortify, StepMaia,
         BeginAdvance, StepAutoAdvance, BeginCombat, StepCombat, EndCombat,
         StepTempOpenTimers, StepFortificationTimers, StepRespawnAndCooldown, StepDetection

\* only the walk moves the Ring Bearer
LEMMA RingBearerFrame ==
    ASSUME MiddleStep, ~\E u \in Units : StepAutoAdvance(u)
    PROVE  UNCHANGED <<trueRegion, lightRegion>>
  BY DEF MiddleStep, ProcessTurn, secret, board,
         StepAssignRoutes, StepBlockAndSearch, StepReinforce, StepFortify, StepMaia,
         BeginAdvance, BeginCombat, StepCombat, EndCombat,
         StepTempOpenTimers, StepFortificationTimers, StepRespawnAndCooldown, StepDetection

LEMMA NextCases ==
    ASSUME [Next]_vars
    PROVE  \/ \E u \in Units : \E o \in OrderChoices[u] : ReceiveOrder(u, o)
           \/ StartGame \/ ResetGame \/ BeginTurn \/ TickAfterGameOver \/ Done
           \/ MiddleStep \/ StepWinConditions \/ UNCHANGED vars
  BY DEF Next, MiddleStep

(***************************************************************************)
(* The life of a game.  Turns are only computed in a game that was started *)
(* and is not over; that the game is over implies that it was started.     *)
(***************************************************************************)
StageInv ==
    /\ pc \in Steps => result = "NONE" /\ cache.phase = "IN_PROGRESS"
    /\ result # "NONE" => cache.phase = "IN_PROGRESS"

LEMMA StageInductive ==
    /\ Init => StageInv
    /\ TypeOK /\ StageInv /\ [Next]_vars => StageInv'
<1>1. Init => StageInv
  BY DEF Init, StageInv, Steps
<1>2. ASSUME TypeOK, StageInv, [Next]_vars PROVE StageInv'
  <2>1. CASE \E u \in Units : \E o \in OrderChoices[u] : ReceiveOrder(u, o)
    BY <1>2, <2>1 DEF ReceiveOrder, StageInv
  <2>2. CASE StartGame
    BY <1>2, <2>2 DEF StartGame, StageInv, Steps, TypeOK, WorldStateCache
  <2>3. CASE ResetGame
    BY <1>2, <2>3 DEF ResetGame, StageInv, Steps
  <2>4. CASE BeginTurn
    BY <1>2, <2>4 DEF BeginTurn, StageInv, Steps, gameOver
  <2>5. CASE TickAfterGameOver \/ Done
    BY <1>2, <2>5 DEF TickAfterGameOver, Done, StageInv, Steps
  <2>6. CASE MiddleStep
    BY <1>2, <2>6, MiddleStepFrame DEF StageInv
  <2>7. CASE StepWinConditions
    <3>1. pc \in Steps /\ pc' \notin Steps /\ cache'.phase = cache.phase
      BY <1>2, <2>7 DEF StepWinConditions, Steps, TypeOK, WorldStateCache
    <3> QED
      BY <1>2, <3>1 DEF StageInv
  <2>8. CASE UNCHANGED vars
    BY <1>2, <2>8 DEF vars, control, StageInv
  <2> QED
    BY <1>2, <2>1, <2>2, <2>3, <2>4, <2>5, <2>6, <2>7, <2>8, NextCases
<1> QED
  BY <1>1, <1>2

LEMMA StageInvariant == Spec => []StageInv
  BY StageInductive, TypeCorrect, PTL DEF Spec

(***************************************************************************)
(* The goroutine implements the life of a game: it waits, plays its turns  *)
(* one by one up to MaxTurns, is over, and only a reset leads back.        *)
(***************************************************************************)
THEOREM EngineImplementsLifecycle == Spec => ImplementsLifecycle
<1>1. Init => Lifecycle!Begin
  BY DEF Init, StartCache, Lifecycle!Begin
<1>2. TypeOK /\ StageInv /\ [Next]_vars => [Lifecycle!Move]_(Lifecycle!game)
  <2> SUFFICES ASSUME TypeOK, StageInv, [Next]_vars
               PROVE  [Lifecycle!Move]_(Lifecycle!game)
    OBVIOUS
  <2> USE DEF Lifecycle!game
  <2>1. CASE \E u \in Units : \E o \in OrderChoices[u] : ReceiveOrder(u, o)
    BY <2>1 DEF ReceiveOrder, gameOver
  <2>2. CASE StartGame
    <3>1. /\ cache.phase = "WAITING_FOR_PLAYERS" /\ ~gameOver
          /\ cache'.phase = "IN_PROGRESS" /\ cache'.turn = cache.turn /\ ~gameOver'
      BY <2>2 DEF StartGame, gameOver, StageInv, TypeOK, WorldStateCache
    <3> QED
      BY <3>1 DEF Lifecycle!Move, Lifecycle!Start
  <2>3. CASE ResetGame
    <3>1. cache'.phase = "WAITING_FOR_PLAYERS" /\ cache'.turn = 1
      BY <2>3 DEF ResetGame, StartCache
    <3> QED
      BY <3>1 DEF Lifecycle!Move, Lifecycle!Reset
  <2>4. CASE BeginTurn
    BY <2>4 DEF BeginTurn, gameOver
  <2>5. CASE TickAfterGameOver \/ Done
    BY <2>5 DEF TickAfterGameOver, Done, gameOver
  <2>6. CASE MiddleStep
    BY <2>6, MiddleStepFrame DEF gameOver
  <2>7. CASE StepWinConditions
    <3>1. ~gameOver /\ cache.phase = "IN_PROGRESS"
      BY <2>7 DEF StepWinConditions, StageInv, Steps, gameOver
    <3>2. cache'.phase = cache.phase /\ (gameOver' <=> Outcome # "NONE")
      BY <2>7 DEF StepWinConditions, gameOver, TypeOK, WorldStateCache
    <3>3. CASE Outcome = "NONE"
      <4>1. cache'.turn = cache.turn + 1
        BY <2>7, <3>3 DEF StepWinConditions, TypeOK, WorldStateCache
      <4>2. cache.turn \in 1..MaxTurns /\ ~(cache.turn >= MaxTurns)
        BY <3>3 DEF Outcome, TypeOK, WorldStateCache
      <4>3. cache.turn < MaxTurns
        BY <4>2, GameAssumption
      <4> QED
        BY <3>1, <3>2, <3>3, <4>1, <4>3 DEF Lifecycle!Move, Lifecycle!EndTurn
    <3>4. CASE Outcome # "NONE"
      <4>1. cache'.turn = cache.turn
        BY <2>7, <3>4 DEF StepWinConditions, TypeOK, WorldStateCache
      <4> QED
        BY <3>1, <3>2, <3>4, <4>1 DEF Lifecycle!Move, Lifecycle!Finish
    <3> QED
      BY <3>3, <3>4
  <2>8. CASE UNCHANGED vars
    BY <2>8 DEF vars, control, gameOver
  <2> QED
    BY <2>1, <2>2, <2>3, <2>4, <2>5, <2>6, <2>7, <2>8, NextCases
<1> QED
  BY <1>1, <1>2, TypeCorrect, StageInvariant, PTL DEF Spec, ImplementsLifecycle, Lifecycle!GameSpec

(***************************************************************************)
(* After GameOver neither the published state nor the winner nor the Ring  *)
(* Bearer's region changes until a reset: the engine discards orders, no   *)
(* turn is computed, and START_GAME finds the phase still IN_PROGRESS.     *)
(***************************************************************************)
THEOREM OverIsFinal == Spec => GameOverIsFinal
<1>1. StageInv /\ [Next]_vars => [result # "NONE" => ResetGame]_<<cache, result, trueRegion>>
  <2> SUFFICES ASSUME StageInv, [Next]_vars, result # "NONE", ~ResetGame
               PROVE  UNCHANGED <<cache, result, trueRegion>>
    OBVIOUS
  <2>1. pc \notin Steps /\ cache.phase = "IN_PROGRESS"
    BY DEF StageInv
  <2>2. ~MiddleStep /\ ~StepWinConditions /\ ~StartGame /\ ~BeginTurn
    BY <2>1, MiddleStepFrame DEF StepWinConditions, StartGame, BeginTurn, gameOver, Steps
  <2> QED
    BY <2>2, NextCases DEF ReceiveOrder, TickAfterGameOver, Done, vars, control, secret
<1> QED
  BY <1>1, StageInvariant, PTL DEF Spec, GameOverIsFinal

(***************************************************************************)
(* The secret and the view of the Light Side.  The walk moves both at      *)
(* once; the reset too; the publication takes the copy.  Before the first  *)
(* of them the view is the literal of the first cache.                     *)
(***************************************************************************)
LightInv ==
    /\ \/ lightRegion = trueRegion
       \/ lightRegion = FirstLightView /\ trueRegion = StartRegion
    /\ pc \notin Steps => cache.lightRegion = lightRegion

\* A reset begins where every game begins.
LEMMA ResetRegions ==
    ASSUME ResetGame
    PROVE  /\ lightRegion' = StartRegion /\ trueRegion' = StartRegion
           /\ cache'.lightRegion = StartRegion /\ cache'.turn = 1
           /\ pc \notin Steps /\ pc' \notin Steps
  BY DEF ResetGame, StartCache, Steps

LEMMA LightInductive ==
    /\ Init => LightInv
    /\ TypeOK /\ LightInv /\ [Next]_vars => LightInv'
<1>1. Init => LightInv
  BY DEF Init, LightInv, CopyCache, StartCache
<1>2. ASSUME TypeOK, LightInv, [Next]_vars PROVE LightInv'
  <2>1. CASE \E u \in Units : \E o \in OrderChoices[u] : ReceiveOrder(u, o)
    BY <1>2, <2>1 DEF ReceiveOrder, LightInv, secret, board
  <2>2. CASE StartGame
    BY <1>2, <2>2 DEF StartGame, LightInv, secret, board, TypeOK, WorldStateCache
  <2>3. CASE ResetGame
    BY <2>3, ResetRegions DEF LightInv
  <2>4. CASE BeginTurn \/ TickAfterGameOver \/ Done
    BY <1>2, <2>4 DEF BeginTurn, TickAfterGameOver, Done, LightInv, secret, board, Steps
  <2>5. CASE MiddleStep
    <3>1. \/ lightRegion' = trueRegion'
          \/ lightRegion' = FirstLightView /\ trueRegion' = StartRegion
      <4>1. CASE \E u \in Units : StepAutoAdvance(u)
        <5> PICK u \in Units : StepAutoAdvance(u)
          BY <4>1
        <5>1. \/ UNCHANGED <<lightRegion, trueRegion>>
              \/ \E to : trueRegion' = to /\ lightRegion' = to
          BY DEF StepAutoAdvance
        <5> QED
          BY <1>2, <5>1 DEF LightInv
      <4>2. CASE ~\E u \in Units : StepAutoAdvance(u)
        BY <1>2, <2>5, <4>2, RingBearerFrame DEF LightInv
      <4> QED
        BY <4>1, <4>2
    <3> QED
      BY <2>5, <3>1, MiddleStepFrame DEF LightInv
  <2>6. CASE StepWinConditions
    <3>1. cache'.lightRegion = lightRegion
      BY <1>2, <2>6 DEF StepWinConditions, TypeOK, WorldStateCache
    <3> QED
      BY <1>2, <2>6, <3>1 DEF StepWinConditions, LightInv, board
  <2>7. CASE UNCHANGED vars
    BY <1>2, <2>7 DEF vars, control, secret, board, LightInv
  <2> QED
    BY <1>2, <2>1, <2>2, <2>3, <2>4, <2>5, <2>6, <2>7, NextCases
<1> QED
  BY <1>1, <1>2

LEMMA LightInvariant == Spec => []LightInv
  BY LightInductive, TypeCorrect, PTL DEF Spec

\* Whenever no turn is being computed the Light Side's view is the truth, or
\* still the literal of the first cache with the bearer where it started.
THEOREM LightViewCorrect == Spec => []LightViewIsTrue
<1>1. LightInv => LightViewIsTrue
  BY DEF LightInv, LightViewIsTrue, Steps
<1> QED
  BY <1>1, LightInvariant, PTL

(***************************************************************************)
(* The hidden turns.  Exposed is only raised after them, is lowered at the *)
(* end of each turn, and the turn counter stands still in between.         *)
(***************************************************************************)
HiddenInv ==
    /\ exposed => cache.turn > HiddenUntil
    /\ NoCaptureWhileHidden

LEMMA HiddenInductive ==
    /\ Init => HiddenInv
    /\ TypeOK /\ StageInv /\ HiddenInv /\ [Next]_vars => HiddenInv'
<1>1. Init => HiddenInv
  BY DEF Init, HiddenInv, NoCaptureWhileHidden
<1>2. ASSUME TypeOK, StageInv, HiddenInv, [Next]_vars PROVE HiddenInv'
  <2> USE <1>2 DEF HiddenInv, NoCaptureWhileHidden
  <2>1. CASE \E u \in Units : \E o \in OrderChoices[u] : ReceiveOrder(u, o)
    BY <2>1 DEF ReceiveOrder, secret
  <2>2. CASE StartGame
    BY <2>2 DEF StartGame, secret, TypeOK, WorldStateCache
  <2>3. CASE ResetGame
    BY <2>3 DEF ResetGame
  <2>4. CASE BeginTurn \/ TickAfterGameOver \/ Done
    BY <2>4 DEF BeginTurn, TickAfterGameOver, Done, secret
  <2>5. CASE MiddleStep
    <3>1. exposed' => cache.turn > HiddenUntil
      BY <2>5 DEF MiddleStep, ProcessTurn, secret, board, ExposedByPath, RunDetection,
         StepAssignRoutes, StepBlockAndSearch, StepReinforce, StepFortify, StepMaia,
         BeginAdvance, StepAutoAdvance, BeginCombat, StepCombat, EndCombat,
         StepTempOpenTimers, StepFortificationTimers, StepRespawnAndCooldown, StepDetection
    <3> QED
      BY <2>5, <3>1, MiddleStepFrame
  <2>6. CASE StepWinConditions
    <3>1. ~exposed'
      BY <2>6 DEF StepWinConditions
    <3>2. result' = "DARK_SIDE" => exposed /\ Outcome # "NONE"
      BY <2>6 DEF StepWinConditions, Outcome, RingBearerCaptured
    <3>3. Outcome # "NONE" => cache'.turn = cache.turn
      BY <2>6 DEF StepWinConditions, TypeOK, WorldStateCache
    <3> QED
      BY <3>1, <3>2, <3>3
  <2>7. CASE UNCHANGED vars
    BY <2>7 DEF vars, control, secret
  <2> QED
    BY <2>1, <2>2, <2>3, <2>4, <2>5, <2>6, <2>7, NextCases
<1> QED
  BY <1>1, <1>2

\* The Shadow never wins in the hidden turns, however long they are.
THEOREM HiddenTurnsAreSafe == Spec => []NoCaptureWhileHidden
<1>1. HiddenInv => NoCaptureWhileHidden
  BY DEF HiddenInv
<1> QED
  BY <1>1, HiddenInductive, TypeCorrect, StageInvariant, PTL DEF Spec

(***************************************************************************)
(* Capture.  When step 13 begins, a detector in the Ring Bearer's region   *)
(* has exposed it in step 12: every unit is within any range of the region *)
(* it stands in.  So a turn that ends without a winner leaves no detector  *)
(* there.                                                                  *)
(***************************************************************************)
DetectorAt(us, r) == \E u \in Detectors(us) : us[u].region = r

CaptureInv ==
    /\ (pc = "win" /\ cache.turn > HiddenUntil /\ DetectorAt(units, trueRegion)) => exposed
    /\ CaptureIsCertain

LEMMA CaptureInductive ==
    /\ Init => CaptureInv
    /\ TypeOK /\ StageInv /\ CaptureInv /\ [Next]_vars => CaptureInv'
<1>1. Init => CaptureInv
  <2>1. ~(1 > HiddenUntil + 1)
    BY GameAssumption
  <2> QED
    BY <2>1 DEF Init, StartCache, CaptureInv, CaptureIsCertain
<1>2. ASSUME TypeOK, StageInv, CaptureInv, [Next]_vars PROVE CaptureInv'
  <2> USE <1>2 DEF CaptureInv, CaptureIsCertain, Published
  <2>1. CASE \E u \in Units : \E o \in OrderChoices[u] : ReceiveOrder(u, o)
    BY <2>1 DEF ReceiveOrder, secret, gameOver
  <2>2. CASE StartGame
    BY <2>2 DEF StartGame, secret, gameOver, TypeOK, WorldStateCache
  <2>3. CASE ResetGame
    <3>1. ~(1 > HiddenUntil + 1)
      BY GameAssumption
    <3> QED
      BY <2>3, <3>1, ResetRegions DEF ResetGame
  <2>4. CASE BeginTurn \/ TickAfterGameOver \/ Done
    BY <2>4 DEF BeginTurn, TickAfterGameOver, Done
  <2>5. CASE StepDetection
    <3>1. pc' = "win" /\ UNCHANGED <<cache, trueRegion, units>>
      BY <2>5 DEF StepDetection, board
    <3>2. (cache.turn > HiddenUntil /\ DetectorAt(units, trueRegion))
            => RunDetection(units, cache.turn, HiddenUntil, trueRegion)
      BY DEF DetectorAt, RunDetection, WithinHops
    <3>3. RunDetection(units, cache.turn, HiddenUntil, trueRegion) => exposed'
      BY <2>5 DEF StepDetection
    <3> QED
      BY <3>1, <3>2, <3>3
  <2>6. CASE MiddleStep /\ ~StepDetection
    <3>1. pc' # "win"
      BY <2>6 DEF MiddleStep, ProcessTurn,
         StepAssignRoutes, StepBlockAndSearch, StepReinforce, StepFortify, StepMaia,
         BeginAdvance, StepAutoAdvance, BeginCombat, StepCombat, EndCombat,
         StepTempOpenTimers, StepFortificationTimers, StepRespawnAndCooldown
    <3>2. pc' # "idle"
      BY <2>6, MiddleStepFrame DEF Steps
    <3> QED
      BY <3>1, <3>2
  <2>7. CASE StepWinConditions
    <3>1. pc = "win" /\ pc' = "idle" /\ trueRegion' = trueRegion /\ result' = Outcome
      BY <2>7 DEF StepWinConditions
    <3>2. cache'.units = units
      BY <2>7 DEF StepWinConditions, TypeOK, WorldStateCache
    <3>3. ASSUME Outcome = "NONE", cache'.turn > HiddenUntil + 1
          PROVE  ~DetectorAt(units, trueRegion)
      <4>1. cache'.turn = cache.turn + 1
        BY <2>7, <3>3 DEF StepWinConditions, TypeOK, WorldStateCache
      <4>2. cache.turn \in 1..MaxTurns
        BY DEF TypeOK, WorldStateCache
      <4>3. cache.turn > HiddenUntil
        BY <3>3, <4>1, <4>2, GameAssumption
      <4>4. ~RingBearerCaptured
        BY <3>3 DEF Outcome
      <4> QED
        BY <3>1, <4>3, <4>4 DEF RingBearerCaptured, DetectorAt
    <3> QED
      BY <3>1, <3>2, <3>3 DEF gameOver, DetectorAt
  <2>8. CASE UNCHANGED vars
    BY <2>8 DEF vars, control, secret, board, gameOver
  <2> QED
    BY <2>1, <2>2, <2>3, <2>4, <2>5, <2>6, <2>7, <2>8, NextCases
<1> QED
  BY <1>1, <1>2

\* No turn after the hidden ones ends with a detector in the Ring Bearer's
\* region and the game going on.
THEOREM CaptureCorrect == Spec => []CaptureIsCertain
<1>1. CaptureInv => CaptureIsCertain
  BY DEF CaptureInv
<1> QED
  BY <1>1, CaptureInductive, TypeCorrect, StageInvariant, PTL DEF Spec

(***************************************************************************)
(* The pace of the Ring Bearer.  Its true region leaves the published one  *)
(* in step 7 at most, and only by its own visit there, which takes it off  *)
(* the list of those still to walk: one path a turn.                       *)
(***************************************************************************)
BeforeWalk == {"idle", "stopped", "routes", "blocks", "reinforce", "fortify", "maia"}

\* one path from r, or from where the bearer really was when r is the literal
OnePath(r, to) ==
    \/ AreAdjacent(r, to)
    \/ r = FirstLightView /\ AreAdjacent(StartRegion, to)

PaceInv ==
    /\ pc \in BeforeWalk => lightRegion = cache.lightRegion
    /\ pc = "advance" /\ Frodo \in todo => lightRegion = cache.lightRegion
    /\ lightRegion = cache.lightRegion \/ OnePath(cache.lightRegion, lightRegion)

LEMMA TheRingBearerIsOne ==
    /\ Frodo \in Units /\ IsRingBearer(Frodo)
    /\ \A u \in Units : IsRingBearer(u) => u = Frodo
  BY UnitAssumption DEF Frodo, TheRingBearer

LEMMA WalkGoesToNeighbour ==
    ASSUME NEW p \in Paths, NEW r, IsEndpointRegion(p, r)
    PROVE  AreAdjacent(r, OtherEnd(p, r))
  BY DEF AreAdjacent, OtherEnd, IsEndpointRegion

LEMMA PaceWalk ==
    ASSUME TypeInv, LightInv, PaceInv, NEW u \in Units, StepAutoAdvance(u)
    PROVE  PaceInv'
<1> DEFINE p == NextPath(u)
           from == EffectiveRegion(u)
<1>1. /\ pc = "advance" /\ pc' = "advance" /\ u \in todo /\ todo' = todo \ {u}
      /\ cache' = cache
  BY DEF StepAutoAdvance
<1>2. CASE lightRegion' = lightRegion
  BY <1>1, <1>2 DEF PaceInv, BeforeWalk
<1>3. CASE lightRegion' # lightRegion
  <2>1. IsRingBearer(u) /\ IsEndpointRegion(p, from) /\ lightRegion' = OtherEnd(p, from)
    BY <1>3 DEF StepAutoAdvance
  <2>2. u = Frodo
    BY <2>1, TheRingBearerIsOne
  <2>3. from = trueRegion /\ lightRegion = cache.lightRegion
    BY <1>1, <2>1, <2>2 DEF EffectiveRegion, PaceInv
  <2>4. p \in Paths
    BY <1>1 DEF TypeInv, WalkersHavePaths
  <2>5. AreAdjacent(from, OtherEnd(p, from))
    BY <2>1, <2>4, WalkGoesToNeighbour
  <2>6. OnePath(cache.lightRegion, lightRegion')
    BY <2>1, <2>3, <2>5 DEF LightInv, OnePath
  <2> QED
    BY <1>1, <2>2, <2>6 DEF PaceInv, BeforeWalk
<1> QED
  BY <1>2, <1>3

LEMMA PaceInductive ==
    /\ Init => PaceInv
    /\ TypeInv /\ LightInv /\ PaceInv /\ [Next]_vars => PaceInv'
<1>1. Init => PaceInv
  BY DEF Init, PaceInv, CopyCache
<1>2. ASSUME TypeInv, LightInv, PaceInv, [Next]_vars PROVE PaceInv'
  <2>1. CASE \E u \in Units : \E o \in OrderChoices[u] : ReceiveOrder(u, o)
    BY <1>2, <2>1 DEF ReceiveOrder, PaceInv, board, BeforeWalk
  <2>2. CASE StartGame
    <3>1. cache'.lightRegion = cache.lightRegion
      BY <1>2, <2>2 DEF StartGame, TypeInv, TypeOK, WorldStateCache
    <3> QED
      BY <1>2, <2>2, <3>1 DEF StartGame, PaceInv, board
  <2>3. CASE ResetGame
    BY <2>3, ResetRegions DEF PaceInv
  <2>4. CASE BeginTurn \/ TickAfterGameOver \/ Done
    BY <1>2, <2>4 DEF BeginTurn, TickAfterGameOver, Done, PaceInv, board, BeforeWalk
  <2>5. CASE \E u \in Units : StepAutoAdvance(u)
    BY <1>2, <2>5, PaceWalk
  <2>6. CASE MiddleStep /\ ~\E u \in Units : StepAutoAdvance(u)
    <3>1. lightRegion' = lightRegion /\ cache' = cache
      BY <2>6, RingBearerFrame, MiddleStepFrame
    <3>2. pc' \in BeforeWalk \cup {"advance"} => pc \in BeforeWalk
      BY <2>6 DEF MiddleStep, ProcessTurn, BeforeWalk,
         StepAssignRoutes, StepBlockAndSearch, StepReinforce, StepFortify, StepMaia,
         BeginAdvance, BeginCombat, StepCombat, EndCombat,
         StepTempOpenTimers, StepFortificationTimers, StepRespawnAndCooldown, StepDetection
    <3> QED
      BY <1>2, <3>1, <3>2 DEF PaceInv
  <2>7. CASE StepWinConditions
    <3>1. cache'.lightRegion = lightRegion /\ lightRegion' = lightRegion /\ pc' = "idle"
      BY <1>2, <2>7 DEF StepWinConditions, TypeInv, TypeOK, WorldStateCache, board
    <3> QED
      BY <3>1 DEF PaceInv
  <2>8. CASE UNCHANGED vars
    BY <1>2, <2>8 DEF vars, control, board, PaceInv
  <2> QED
    BY <1>2, <2>1, <2>2, <2>3, <2>4, <2>5, <2>6, <2>7, <2>8, NextCases
<1> QED
  BY <1>1, <1>2

\* From one published turn to the next the Ring Bearer goes one path at most
\* (as the Light Side's view shows it, from the literal of the first cache too).
THEOREM PaceCorrect == Spec => RingBearerPace
<1>1. TypeInv /\ PaceInv /\ [Next]_vars
        => [\/ ResetGame
            \/ cache'.lightRegion = cache.lightRegion
            \/ OnePath(cache.lightRegion, cache'.lightRegion)]_cache
  <2> SUFFICES ASSUME TypeInv, PaceInv, [Next]_vars, ~ResetGame
               PROVE  \/ cache' = cache
                      \/ cache'.lightRegion = cache.lightRegion
                      \/ OnePath(cache.lightRegion, cache'.lightRegion)
    OBVIOUS
  <2>1. CASE StepWinConditions
    <3>1. cache'.lightRegion = lightRegion
      BY <2>1 DEF StepWinConditions, TypeInv, TypeOK, WorldStateCache
    <3> QED
      BY <3>1 DEF PaceInv
  <2>2. CASE StartGame
    BY <2>2 DEF StartGame, TypeInv, TypeOK, WorldStateCache
  <2>3. CASE ~StepWinConditions /\ ~StartGame
    BY <2>3, NextCases, MiddleStepFrame
       DEF ReceiveOrder, BeginTurn, TickAfterGameOver, Done, vars, control
  <2> QED
    BY <2>1, <2>2, <2>3
<1>2. Spec => []PaceInv
  BY PaceInductive, TypeInvariant, LightInvariant, PTL DEF Spec
<1> QED
  BY <1>1, <1>2, TypeInvariant, PTL DEF Spec, RingBearerPace, OnePath
=============================================================================
