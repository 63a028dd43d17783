--------------------------- MODULE BoardTheorems ---------------------------
(***************************************************************************)
(* What a path and a unit keep from turn to turn, for every map, army and  *)
(* choice of orders: the blocks of paths and the watch over them, a unit's *)
(* death, what makes an active unit a real one, and the secret of the Ring *)
(* Bearer.                                                                 *)
(***************************************************************************)
EXTENDS TurnTheorems

----------------------------------------------------------------------------
(***************************************************************************)
(* Blocked paths: what is published as blocked has its blocker.            *)
(***************************************************************************)
(***************************************************************************)
(* Two halves.  A block names a Shadow unit at all times.  That the unit   *)
(* is active and stands at the path may fail in the middle of a turn; the  *)
(* sweep of step 8 restores it and the later steps keep it.                *)
(***************************************************************************)
BlocksNamed(ps) ==
    \A p \in Paths :
      /\ ps[p].status = "BLOCKED" => ps[p].blockedBy # ""
      /\ ps[p].blockedBy # "" => Config[ps[p].blockedBy].side = "SHADOW"

BlocksStand(ps, us) ==
    \A p \in Paths :
      ps[p].status = "BLOCKED" =>
        /\ us[ps[p].blockedBy].status = "ACTIVE"
        /\ IsEndpointRegion(p, us[ps[p].blockedBy].region)

AfterSweep == {"tempOpen", "fortifyTimers", "respawn", "detect", "win"}

BlockInv ==
    /\ BlocksNamed(paths) /\ BlocksNamed(cache.paths)
    /\ pc \in AfterSweep => BlocksStand(paths, units)
    /\ BlocksStand(cache.paths, cache.units)

\* the sweep leaves no block without its blocker
LEMMA SweepRestores ==
    ASSUME NEW ps \in [Paths -> PathState], NEW us, BlocksNamed(ps)
    PROVE  /\ BlocksNamed(RevertOrphans(ps, us))
           /\ BlocksStand(RevertOrphans(ps, us), us)
<1> DEFINE new == RevertOrphans(ps, us)
<1>1. ASSUME NEW p \in Paths
      PROVE  \/ new[p] = ps[p] /\ (ps[p].status = "BLOCKED" =>
                                     /\ us[ps[p].blockedBy].status = "ACTIVE"
                                     /\ IsEndpointRegion(p, us[ps[p].blockedBy].region))
             \/ new[p].status = "OPEN" /\ new[p].blockedBy = ""
  BY DEF RevertOrphans, BlocksNamed, PathState
<1> HIDE DEF new
<1>2. BlocksNamed(new) /\ BlocksStand(new, us)
  BY <1>1 DEF BlocksNamed, BlocksStand
<1> QED
  BY <1>2 DEF new

\* step 3: whoever may block belongs to the Shadow, being itself an active unit
\* in the region where friendlyUnitAtEndpoint looks for the Free Peoples
LEMMA BlockersAreShadow ==
    ASSUME NEW p \in Paths, NEW u \in Blockers(p)
    PROVE  u \in Units /\ u # "" /\ Config[u].side = "SHADOW"
<1>1. u \in Units /\ Active(u) /\ ~FreePeoplesAt(units[u].region)
  BY DEF Blockers
<1>2. Config[u].side \in Sides
  BY <1>1, UnitAssumption DEF UnitConfig
<1> QED
  BY <1>1, <1>2, UnitAssumption DEF FreePeoplesAt, Sides

LEMMA NamedBlock ==
    ASSUME TypeOK, BlocksNamed(paths), StepBlockAndSearch
    PROVE  BlocksNamed(paths')
<1>1. PICK last \in [Paths -> Units \cup {""}] :
        /\ \A p \in Paths : last[p] \in (IF Blockers(p) = {} THEN {""} ELSE Blockers(p))
        /\ paths' = RevertOrphans(Blocking(last), units)
  BY DEF StepBlockAndSearch, Blocking
<1>2. Blocking(last) \in [Paths -> PathState]
  BY BlockingType
<1>3. BlocksNamed(Blocking(last))
  <2> SUFFICES ASSUME NEW p \in Paths
               PROVE  LET path == Blocking(last)[p] IN
                      /\ path.status = "BLOCKED" => path.blockedBy # ""
                      /\ path.blockedBy # "" => Config[path.blockedBy].side = "SHADOW"
    BY DEF BlocksNamed
  <2>1. paths[p] \in PathState
    BY DEF TypeOK
  <2>2. CASE last[p] = ""
    <3>1. /\ Blocking(last)[p].status = paths[p].status
          /\ Blocking(last)[p].blockedBy = paths[p].blockedBy
      BY <2>1, <2>2 DEF Blocking, PathState
    <3> QED
      BY <3>1 DEF BlocksNamed
  <2>3. CASE last[p] # ""
    <3>1. /\ Blocking(last)[p].status = "BLOCKED"
          /\ Blocking(last)[p].blockedBy = last[p]
      BY <2>1, <2>3 DEF Blocking, PathState
    <3>2. last[p] \in Blockers(p)
      BY <1>1, <2>3
    <3> QED
      BY <2>3, <3>1, <3>2, BlockersAreShadow
  <2> QED
    BY <2>2, <2>3
<1> QED
  BY <1>1, <1>2, <1>3, SweepRestores

\* step 6: an opening keeps the blocker's name, a corruption touches nothing of it
LEMMA NamedMaia ==
    ASSUME TypeOK, BlocksNamed(paths), NEW u \in Units, StepMaia(u)
    PROVE  BlocksNamed(paths')
<1> SUFFICES ASSUME NEW p \in Paths
             PROVE  /\ paths'[p].blockedBy = paths[p].blockedBy
                    /\ paths'[p].status = "BLOCKED" => paths[p].status = "BLOCKED"
  BY DEF BlocksNamed
<1>1. paths[p] \in PathState /\ paths \in [Paths -> PathState]
  BY DEF TypeOK
<1>2. CASE paths' = [paths EXCEPT ![orders[u].path].status = "TEMPORARILY_OPEN",
                                  ![orders[u].path].tempOpenTurns = 2]
  BY <1>1, <1>2 DEF PathState
<1>3. CASE paths' = [paths EXCEPT ![orders[u].path].surveillanceLevel = 3,
                                  ![orders[u].path].corrupted = TRUE]
  BY <1>1, <1>3 DEF PathState
<1>4. CASE paths' = paths
  BY <1>4
<1> QED
  BY <1>2, <1>3, <1>4 DEF StepMaia

\* step 7: a walker may only clear a block
LEMMA NamedWalk ==
    ASSUME TypeOK, BlocksNamed(paths), NEW u \in Units, StepAutoAdvance(u)
    PROVE  BlocksNamed(paths')
<1> DEFINE q == NextPath(u)
<1>1. paths' = paths \/ paths' = [paths EXCEPT ![q].status = "OPEN", ![q].blockedBy = ""]
  BY DEF StepAutoAdvance, ClearPhantom
<1> HIDE DEF q
<1> SUFFICES ASSUME NEW p \in Paths
             PROVE  \/ paths'[p] = paths[p]
                    \/ paths'[p].status = "OPEN" /\ paths'[p].blockedBy = ""
  BY DEF BlocksNamed
<1>2. paths[p] \in PathState /\ paths \in [Paths -> PathState]
  BY DEF TypeOK
<1>3. CASE paths' = paths
  BY <1>3
<1>4. CASE paths' = [paths EXCEPT ![q].status = "OPEN", ![q].blockedBy = ""]
  <2>1. CASE p = q
    BY <1>2, <1>4, <2>1 DEF PathState
  <2>2. CASE p # q
    BY <1>2, <1>4, <2>2
  <2> QED
    BY <2>1, <2>2
<1> QED
  BY <1>1, <1>3, <1>4

\* step 9: an opening that ends turns into a block only when the blocker stands
LEMMA BlocksTempOpen ==
    ASSUME TypeOK, BlocksNamed(paths), BlocksStand(paths, units), StepTempOpenTimers
    PROVE  BlocksNamed(paths') /\ BlocksStand(paths', units)
<1>1. ASSUME NEW p \in Paths
      PROVE  /\ paths'[p].blockedBy \in {paths[p].blockedBy, ""}
             /\ paths'[p].status = "BLOCKED" =>
                  /\ paths'[p].blockedBy = paths[p].blockedBy /\ paths[p].blockedBy # ""
                  /\ units[paths[p].blockedBy].status = "ACTIVE"
                  /\ IsEndpointRegion(p, units[paths[p].blockedBy].region)
  <2>1. paths[p] \in PathState /\ paths'[p] = TempOpenTimer(p)
    BY DEF StepTempOpenTimers, TypeOK
  <2>2. CASE paths[p].status # "TEMPORARILY_OPEN"
    BY <2>1, <2>2 DEF TempOpenTimer, BlocksNamed, BlocksStand
  <2>3. CASE paths[p].status = "TEMPORARILY_OPEN" /\ paths[p].tempOpenTurns > 1
    <3>1. /\ paths'[p].status = "TEMPORARILY_OPEN"
          /\ paths'[p].blockedBy = paths[p].blockedBy
      BY <2>1, <2>3 DEF TempOpenTimer, PathState
    <3> QED
      BY <3>1
  <2>4. CASE paths[p].status = "TEMPORARILY_OPEN" /\ ~(paths[p].tempOpenTurns > 1)
    BY <2>1, <2>4 DEF TempOpenTimer, PathState, Active
  <2> QED
    BY <2>2, <2>3, <2>4
<1> QED
  BY <1>1 DEF BlocksNamed, BlocksStand

\* step 11: who was active stays so, where it stood
LEMMA BlocksRespawn ==
    ASSUME TypeOK, BlocksNamed(paths), BlocksStand(paths, units), StepRespawnAndCooldown
    PROVE  BlocksStand(paths, units')
<1>1. ASSUME NEW u \in Units, units[u].status = "ACTIVE"
      PROVE  units'[u].status = "ACTIVE" /\ units'[u].region = units[u].region
  <2>1. units[u] \in UnitSnapshot /\ units'[u] = CooldownTimer(units[u])
    BY <1>1 DEF StepRespawnAndCooldown, RespawnTimer, TypeOK
  <2> QED
    BY <1>1, <2>1 DEF CooldownTimer, UnitSnapshot
<1>2. \A p \in Paths : paths[p].status = "BLOCKED" => paths[p].blockedBy \in Units
  BY DEF BlocksNamed, TypeOK, PathState
<1> QED
  BY <1>1, <1>2 DEF BlocksStand

LEMMA BlockMiddle ==
    ASSUME TypeOK, BlockInv, MiddleStep
    PROVE  /\ BlocksNamed(paths')
           /\ pc' \in AfterSweep => BlocksStand(paths', units')
<1> USE DEF BlockInv
<1>1. CASE StepBlockAndSearch
  BY <1>1, NamedBlock DEF StepBlockAndSearch, AfterSweep
<1>2. ASSUME NEW u \in Units, StepMaia(u)
      PROVE  BlocksNamed(paths') /\ pc' \notin AfterSweep
  BY <1>2, NamedMaia DEF StepMaia, AfterSweep
<1>3. ASSUME NEW u \in Units, StepAutoAdvance(u)
      PROVE  BlocksNamed(paths') /\ pc' \notin AfterSweep
  BY <1>3, NamedWalk DEF StepAutoAdvance, AfterSweep
<1>4. CASE StepAssignRoutes \/ StepReinforce \/ StepFortify \/ BeginAdvance \/ BeginCombat
           \/ \E r \in Regions : StepCombat(r)
  <2>1. paths' = paths /\ pc' \notin AfterSweep
    BY <1>4 DEF StepAssignRoutes, StepReinforce, StepFortify, BeginAdvance, BeginCombat,
                StepCombat, AfterSweep, board
  <2> QED
    BY <2>1
<1>5. CASE EndCombat
  <2>1. paths' = RevertOrphans(paths, units) /\ units' = units /\ paths \in [Paths -> PathState]
    BY <1>5 DEF EndCombat, TypeOK
  <2> QED
    BY <2>1, SweepRestores
<1>6. CASE StepTempOpenTimers
  <2>1. pc \in AfterSweep /\ units' = units
    BY <1>6 DEF StepTempOpenTimers, AfterSweep
  <2> QED
    BY <1>6, <2>1, BlocksTempOpen
<1>7. CASE StepFortificationTimers \/ StepDetection
  <2>1. pc \in AfterSweep /\ units' = units /\ paths' = paths
    BY <1>7 DEF StepFortificationTimers, StepDetection, AfterSweep, board
  <2> QED
    BY <2>1
<1>8. CASE StepRespawnAndCooldown
  <2>1. pc \in AfterSweep /\ paths' = paths
    BY <1>8 DEF StepRespawnAndCooldown, AfterSweep
  <2> QED
    BY <1>8, <2>1, BlocksRespawn
<1> QED
  BY <1>1, <1>2, <1>3, <1>4, <1>5, <1>6, <1>7, <1>8 DEF MiddleStep, ProcessTurn

\* every game begins without blocks
LEMMA NoBlocksAtStart ==
    /\ BlocksNamed(StartCache.paths)
    /\ \A us : BlocksStand(StartCache.paths, us)
  BY DEF StartCache, StartPath, BlocksNamed, BlocksStand

LEMMA BlockInductive ==
    /\ Init => BlockInv
    /\ TypeOK /\ BlockInv /\ [Next]_vars => BlockInv'
<1>1. Init => BlockInv
  BY NoBlocksAtStart DEF Init, CopyCache, BlockInv, AfterSweep
<1>2. ASSUME TypeOK, BlockInv, [Next]_vars PROVE BlockInv'
  <2> USE <1>2 DEF BlockInv
  <2>1. CASE \E u \in Units : \E o \in OrderChoices[u] : ReceiveOrder(u, o)
    BY <2>1 DEF ReceiveOrder, board
  <2>2. CASE StartGame
    <3>1. cache'.paths = cache.paths /\ cache'.units = cache.units
      BY <2>2 DEF StartGame, TypeOK, WorldStateCache
    <3> QED
      BY <2>2, <3>1 DEF StartGame, board
  <2>3. CASE ResetGame
    <3>1. cache'.paths = StartCache.paths /\ paths' = StartCache.paths
      BY <2>3 DEF ResetGame, StartCache
    <3>2. pc' \notin AfterSweep
      BY <2>3 DEF ResetGame, AfterSweep
    <3> QED
      BY <3>1, <3>2, NoBlocksAtStart
  <2>4. CASE BeginTurn \/ TickAfterGameOver \/ Done
    BY <2>4 DEF BeginTurn, TickAfterGameOver, Done, board, AfterSweep
  <2>5. CASE MiddleStep
    BY <2>5, BlockMiddle, MiddleStepFrame
  <2>6. CASE StepWinConditions
    <3>1. cache'.paths = paths /\ cache'.units = units
      BY <2>6 DEF StepWinConditions, TypeOK, WorldStateCache
    <3>2. pc \in AfterSweep /\ pc' \notin AfterSweep /\ paths' = paths
      BY <2>6 DEF StepWinConditions, AfterSweep, board
    <3> QED
      BY <3>1, <3>2
  <2>7. CASE UNCHANGED vars
    BY <2>7 DEF vars, control, board
  <2> QED
    BY <1>2, <2>1, <2>2, <2>3, <2>4, <2>5, <2>6, <2>7, NextCases
<1> QED
  BY <1>1, <1>2

(***************************************************************************)
(* What is published as blocked is blocked by an active unit of the Shadow *)
(* that stands at an end of the path.                                      *)
(***************************************************************************)
THEOREM BlockCorrect == Spec => []BlockHasBlocker
<1>1. TypeOK /\ BlockInv => BlockHasBlocker
  <2> SUFFICES ASSUME TypeOK, BlockInv, NEW p \in Paths, cache.paths[p].status = "BLOCKED"
               PROVE  LET path == cache.paths[p] IN
                      /\ path.blockedBy \in Units
                      /\ Published(path.blockedBy).status = "ACTIVE"
                      /\ Config[path.blockedBy].side = "SHADOW"
                      /\ IsEndpointRegion(p, Published(path.blockedBy).region)
    BY DEF BlockHasBlocker
  <2>1. cache.paths[p] \in PathState
    BY DEF TypeOK, WorldStateCache
  <2>2. cache.paths[p].blockedBy \in Units \cup {""}
    BY <2>1 DEF PathState
  <2> QED
    BY <2>2 DEF BlockInv, BlocksNamed, BlocksStand, Published
<1> QED
  BY <1>1, BlockInductive, TypeCorrect, PTL DEF Spec

----------------------------------------------------------------------------
(***************************************************************************)
(* Paths.  Only searches and corruption touch the surveillance, and they   *)
(* raise it; a corrupted path has the full level, so that a search can     *)
(* add nothing to it.                                                      *)
(***************************************************************************)
Watched(old, new) ==
    /\ new.surveillanceLevel >= old.surveillanceLevel
    /\ old.corrupted => new.corrupted

FullyWatched(path) == path.corrupted => path.surveillanceLevel = 3

WatchInv ==
    \A p \in Paths : /\ FullyWatched(paths[p]) /\ FullyWatched(cache.paths[p])
                     /\ Watched(cache.paths[p], paths[p])

\* a step that raises neither
LEMMA SameWatch ==
    ASSUME NEW old \in PathState, NEW new, FullyWatched(old),
           new.surveillanceLevel = old.surveillanceLevel, new.corrupted = old.corrupted
    PROVE  Watched(old, new) /\ FullyWatched(new)
<1>1. old.surveillanceLevel \in 0..3
  BY DEF PathState
<1>2. new.surveillanceLevel >= old.surveillanceLevel
  BY <1>1
<1>3. old.corrupted => new.corrupted
  OBVIOUS
<1>4. FullyWatched(new)
  BY ZenonT(30) DEF FullyWatched
<1> QED
  BY <1>2, <1>3, <1>4 DEF Watched

\* one step after another
LEMMA WatchTransitive ==
    ASSUME NEW a, NEW b, NEW c, Watched(a, b), Watched(b, c),
           a.surveillanceLevel \in 0..3, b.surveillanceLevel \in 0..3, c.surveillanceLevel \in 0..3
    PROVE  Watched(a, c)
<1>1. c.surveillanceLevel >= a.surveillanceLevel
  BY DEF Watched
<1>2. a.corrupted => c.corrupted
  BY Zenon DEF Watched
<1> QED
  BY <1>1, <1>2 DEF Watched

\* the paths of a new game
LEMMA FirstWatch ==
    ASSUME NEW p \in Paths
    PROVE  /\ FullyWatched(StartCache.paths[p])
           /\ Watched(StartCache.paths[p], StartCache.paths[p])
<1>1. StartCache.paths[p] = StartPath
  BY DEF StartCache
<1>2. StartPath.surveillanceLevel = 0 /\ StartPath.corrupted = FALSE
  BY DEF StartPath
<1>3. StartPath.surveillanceLevel >= StartPath.surveillanceLevel
  BY <1>2
<1>4. FullyWatched(StartPath)
  BY <1>2, Zenon DEF FullyWatched
<1> QED
  BY <1>1, <1>3, <1>4 DEF Watched

LEMMA SweepWatch ==
    ASSUME NEW ps \in [Paths -> PathState], NEW us, NEW p \in Paths
    PROVE  /\ RevertOrphans(ps, us)[p].surveillanceLevel = ps[p].surveillanceLevel
           /\ RevertOrphans(ps, us)[p].corrupted = ps[p].corrupted
  BY DEF RevertOrphans, PathState

LEMMA RaisedGrows ==
    ASSUME NEW level \in 0..3, NEW n \in Nat
    PROVE  Raised(level, n) >= level /\ (level = 3 => Raised(level, n) = 3)
  BY DEF Raised

LEMMA SearchWatch ==
    ASSUME TypeOK, StepBlockAndSearch, NEW p \in Paths, FullyWatched(paths[p])
    PROVE  Watched(paths[p], paths'[p]) /\ FullyWatched(paths'[p])
<1>1. PICK last \in [Paths -> Units \cup {""}] :
        /\ \A q \in Paths : last[q] \in (IF Blockers(q) = {} THEN {""} ELSE Blockers(q))
        /\ paths' = RevertOrphans(Blocking(last), units)
  BY DEF StepBlockAndSearch, Blocking
<1>2. Blocking(last) \in [Paths -> PathState]
  BY BlockingType
<1>3. paths[p] \in PathState /\ paths[p].surveillanceLevel \in 0..3
  BY DEF TypeOK, PathState
<1>4. /\ Blocking(last)[p].surveillanceLevel
           = Raised(paths[p].surveillanceLevel, Cardinality(Searchers(p)))
      /\ Blocking(last)[p].corrupted = paths[p].corrupted
  BY <1>3 DEF Blocking, PathState
<1>5. Cardinality(Searchers(p)) \in Nat
  BY FS_Subset, FS_CardinalityType, UnitAssumption DEF Searchers
<1>6. /\ paths'[p].surveillanceLevel
           = Raised(paths[p].surveillanceLevel, Cardinality(Searchers(p)))
      /\ paths'[p].corrupted = paths[p].corrupted
  BY <1>1, <1>2, <1>4, SweepWatch
<1>7. /\ paths'[p].surveillanceLevel >= paths[p].surveillanceLevel
      /\ paths[p].surveillanceLevel = 3 => paths'[p].surveillanceLevel = 3
  BY <1>3, <1>5, <1>6, RaisedGrows
<1> QED
  BY <1>6, <1>7, Zenon DEF Watched, FullyWatched

LEMMA MaiaWatch ==
    ASSUME TypeOK, NEW u \in Units, StepMaia(u), NEW p \in Paths, FullyWatched(paths[p])
    PROVE  Watched(paths[p], paths'[p]) /\ FullyWatched(paths'[p])
<1>1. paths[p] \in PathState /\ paths \in [Paths -> PathState]
  BY DEF TypeOK
<1>2. paths[p].surveillanceLevel \in 0..3
  BY <1>1 DEF PathState
<1>3. CASE paths' = [paths EXCEPT ![orders[u].path].status = "TEMPORARILY_OPEN",
                                  ![orders[u].path].tempOpenTurns = 2]
  <2>1. /\ paths'[p].surveillanceLevel = paths[p].surveillanceLevel
        /\ paths'[p].corrupted = paths[p].corrupted
    BY <1>1, <1>3 DEF PathState
  <2> QED
    BY <1>1, <2>1, SameWatch
<1>4. CASE paths' = [paths EXCEPT ![orders[u].path].surveillanceLevel = 3,
                                  ![orders[u].path].corrupted = TRUE]
  <2>1. CASE p = orders[u].path
    <3>1. paths'[p].surveillanceLevel = 3 /\ paths'[p].corrupted = TRUE
      BY <1>1, <1>4, <2>1 DEF PathState
    <3> QED
      BY <1>2, <3>1 DEF Watched, FullyWatched
  <2>2. CASE p # orders[u].path
    <3>1. paths'[p] = paths[p]
      BY <1>1, <1>4, <2>2
    <3> QED
      BY <1>1, <3>1, SameWatch
  <2> QED
    BY <2>1, <2>2
<1>5. CASE paths' = paths
  BY <1>1, <1>5, SameWatch
<1> QED
  BY <1>3, <1>4, <1>5 DEF StepMaia

LEMMA WalkWatch ==
    ASSUME TypeOK, NEW u \in Units, StepAutoAdvance(u), NEW p \in Paths, FullyWatched(paths[p])
    PROVE  Watched(paths[p], paths'[p]) /\ FullyWatched(paths'[p])
<1> DEFINE q == NextPath(u)
<1>1. paths' = paths \/ paths' = [paths EXCEPT ![q].status = "OPEN", ![q].blockedBy = ""]
  BY DEF StepAutoAdvance, ClearPhantom
<1> HIDE DEF q
<1>2. paths[p] \in PathState /\ paths \in [Paths -> PathState]
  BY DEF TypeOK
<1>3. /\ paths'[p].surveillanceLevel = paths[p].surveillanceLevel
      /\ paths'[p].corrupted = paths[p].corrupted
  <2>1. CASE paths' = paths
    BY <2>1
  <2>2. CASE paths' = [paths EXCEPT ![q].status = "OPEN", ![q].blockedBy = ""]
    BY <1>2, <2>2 DEF PathState
  <2> QED
    BY <1>1, <2>1, <2>2
<1> QED
  BY <1>2, <1>3, SameWatch

LEMMA TimerWatch ==
    ASSUME TypeOK, StepTempOpenTimers, NEW p \in Paths, FullyWatched(paths[p])
    PROVE  Watched(paths[p], paths'[p]) /\ FullyWatched(paths'[p])
<1>1. paths[p] \in PathState /\ paths'[p] = TempOpenTimer(p)
  BY DEF StepTempOpenTimers, TypeOK
<1>2. /\ TempOpenTimer(p).surveillanceLevel = paths[p].surveillanceLevel
      /\ TempOpenTimer(p).corrupted = paths[p].corrupted
  BY <1>1 DEF TempOpenTimer, PathState
<1> QED
  BY <1>1, <1>2, SameWatch

LEMMA MiddleWatch ==
    ASSUME TypeOK, MiddleStep, NEW p \in Paths, FullyWatched(paths[p])
    PROVE  Watched(paths[p], paths'[p]) /\ FullyWatched(paths'[p])
<1>1. CASE StepBlockAndSearch
  BY <1>1, SearchWatch
<1>2. ASSUME NEW u \in Units, StepMaia(u)
      PROVE  Watched(paths[p], paths'[p]) /\ FullyWatched(paths'[p])
  BY <1>2, MaiaWatch
<1>3. ASSUME NEW u \in Units, StepAutoAdvance(u)
      PROVE  Watched(paths[p], paths'[p]) /\ FullyWatched(paths'[p])
  BY <1>3, WalkWatch
<1>4. CASE EndCombat
  <2>1. paths' = RevertOrphans(paths, units) /\ paths \in [Paths -> PathState]
    BY <1>4 DEF EndCombat, TypeOK
  <2> QED
    BY <2>1, SweepWatch, SameWatch
<1>5. CASE StepTempOpenTimers
  BY <1>5, TimerWatch
<1>6. CASE \/ StepAssignRoutes \/ StepReinforce \/ StepFortify \/ BeginAdvance \/ BeginCombat
           \/ StepFortificationTimers \/ StepRespawnAndCooldown \/ StepDetection
           \/ \E r \in Regions : StepCombat(r)
  <2>1. paths' = paths /\ paths[p] \in PathState
    BY <1>6 DEF StepAssignRoutes, StepReinforce, StepFortify, BeginAdvance, BeginCombat,
                StepCombat, StepFortificationTimers, StepRespawnAndCooldown, StepDetection,
                board, TypeOK
  <2> QED
    BY <2>1, SameWatch
<1> QED
  BY <1>1, <1>2, <1>3, <1>4, <1>5, <1>6 DEF MiddleStep, ProcessTurn

LEMMA WatchInductive ==
    /\ Init => WatchInv
    /\ TypeInv /\ WatchInv /\ [Next]_vars => WatchInv'
<1>1. ASSUME Init PROVE WatchInv
  <2>1. cache.paths = StartCache.paths /\ paths = StartCache.paths
    BY <1>1 DEF Init, CopyCache
  <2> QED
    BY <2>1, FirstWatch DEF WatchInv
<1>2. ASSUME TypeInv, WatchInv, [Next]_vars PROVE WatchInv'
  <2> SUFFICES ASSUME NEW p \in Paths
               PROVE  /\ FullyWatched(paths'[p]) /\ FullyWatched(cache'.paths[p])
                      /\ Watched(cache'.paths[p], paths'[p])
    BY DEF WatchInv, Watched, FullyWatched
  <2>1. /\ FullyWatched(paths[p]) /\ FullyWatched(cache.paths[p])
        /\ Watched(cache.paths[p], paths[p])
    BY <1>2 DEF WatchInv
  <2>2. paths[p] \in PathState /\ cache.paths[p] \in PathState
    BY <1>2 DEF TypeInv, TypeOK, WorldStateCache
  <2>3. TypeOK'
    BY <1>2, TypeNext
  <2>4. CASE ResetGame
    <3>1. cache'.paths = StartCache.paths /\ paths' = StartCache.paths
      BY <2>4 DEF ResetGame, StartCache
    <3> QED
      BY <3>1, FirstWatch
  <2>5. CASE MiddleStep
    <3>1. Watched(paths[p], paths'[p]) /\ FullyWatched(paths'[p]) /\ cache' = cache
      BY <1>2, <2>1, <2>5, MiddleWatch, MiddleStepFrame DEF TypeInv
    <3>2. paths'[p] \in PathState
      BY <1>2, <2>3 DEF TypeOK
    <3>3. Watched(cache.paths[p], paths'[p])
      BY <2>1, <2>2, <3>1, <3>2, WatchTransitive DEF PathState
    <3> QED
      BY <2>1, <3>1, <3>3
  <2>6. CASE StepWinConditions
    <3>1. cache'.paths = paths /\ paths' = paths
      BY <1>2, <2>6 DEF StepWinConditions, TypeInv, TypeOK, WorldStateCache, board
    <3> QED
      BY <2>1, <2>2, <3>1, SameWatch
  <2>7. CASE StartGame
    <3>1. cache'.paths = cache.paths /\ paths' = paths
      BY <1>2, <2>7 DEF StartGame, TypeInv, TypeOK, WorldStateCache, board
    <3> QED
      BY <2>1, <3>1
  <2>8. CASE \/ \E u \in Units : \E o \in OrderChoices[u] : ReceiveOrder(u, o)
             \/ BeginTurn \/ TickAfterGameOver \/ Done \/ UNCHANGED vars
    <3>1. cache'.paths = cache.paths /\ paths' = paths
      BY <2>8 DEF ReceiveOrder, BeginTurn, TickAfterGameOver, Done, vars, control, board
    <3> QED
      BY <2>1, <3>1
  <2> QED
    BY <1>2, <2>4, <2>5, <2>6, <2>7, <2>8, NextCases
<1> QED
  BY <1>1, <1>2
(***************************************************************************)
(* From one published turn to the next no path loses surveillance or its   *)
(* corruption, but by a reset.                                             *)
(***************************************************************************)
THEOREM WatchCorrect == Spec => SurveillanceGrows
<1>1. TypeInv /\ WatchInv /\ WatchInv' /\ [Next]_vars
        => [\/ ResetGame
            \/ \A p \in Paths :
                 /\ cache'.paths[p].surveillanceLevel >= cache.paths[p].surveillanceLevel
                 /\ cache'.paths[p].corrupted => cache'.paths[p].surveillanceLevel = 3
                 /\ cache.paths[p].corrupted => cache'.paths[p].corrupted]_cache
  <2> SUFFICES ASSUME TypeInv, WatchInv, WatchInv', [Next]_vars, ~ResetGame, cache' # cache,
                      NEW p \in Paths
               PROVE  /\ cache'.paths[p].surveillanceLevel >= cache.paths[p].surveillanceLevel
                      /\ cache'.paths[p].corrupted => cache'.paths[p].surveillanceLevel = 3
                      /\ cache.paths[p].corrupted => cache'.paths[p].corrupted
    OBVIOUS
  <2>1. FullyWatched(cache'.paths[p])
    BY DEF WatchInv, FullyWatched
  <2>2. cache.paths[p] \in PathState
    BY DEF TypeInv, TypeOK, WorldStateCache
  <2>3. Watched(cache.paths[p], cache'.paths[p])
    <3>1. CASE StepWinConditions
      <4>1. cache'.paths = paths
        BY <3>1 DEF StepWinConditions, TypeInv, TypeOK, WorldStateCache
      <4> QED
        BY <4>1 DEF WatchInv
    <3>2. CASE StartGame
      <4>1. cache'.paths = cache.paths
        BY <3>2 DEF StartGame, TypeInv, TypeOK, WorldStateCache
      <4> QED
        BY <2>2, <4>1, SameWatch DEF WatchInv
    <3> QED
      BY <3>1, <3>2, NextCases, MiddleStepFrame
         DEF ReceiveOrder, BeginTurn, TickAfterGameOver, Done, vars, control
  <2> QED
    BY <2>1, <2>3 DEF Watched, FullyWatched
<1>2. Spec => []WatchInv
  BY WatchInductive, TypeInvariant, PTL DEF Spec
<1> QED
  BY <1>1, <1>2, TypeInvariant, PTL DEF Spec, SurveillanceGrows
----------------------------------------------------------------------------
(***************************************************************************)
(* Units.  What a step makes of a unit: an active one stays a real one, a  *)
(* destroyed one stays destroyed, one that does not respawn is never on    *)
(* its way back, and the public region of the Ring Bearer is forgotten,    *)
(* kept, or written by an order that names it.                             *)
(***************************************************************************)
\* units.conf: the unit a fallen stronghold disables is not indestructible
StrongholdUnitsCanFall ==
    \A u \in Units : IsDisabledByStronghold(u) => ~Config[u].indestructible

\* units.conf: the Ring Bearer does not respawn
TheRingBearerFalls == ~Config[Frodo].respawns

Real(u, snap) ==
    /\ snap.status = "ACTIVE" => snap.strength > 0
    /\ snap.status = "ACTIVE" => IsRingBearer(u) \/ snap.region \in Regions
    /\ Config[u].indestructible => snap.status = "ACTIVE"

Sent(u, r) ==
    /\ r = orders[u].region
    /\ \E type \in {"REINFORCE_REGION", "DEPLOY_NAZGUL", "ATTACK_REGION"} : Ordered(u, type)

Lawful(u, old, new) ==
    /\ StrongholdUnitsCanFall /\ Real(u, old) => Real(u, new)
    /\ old.status = "DESTROYED" => new.status = "DESTROYED"
    /\ ~Config[u].respawns /\ old.status # "RESPAWNING"
         => /\ new.status # "RESPAWNING"
            /\ IsRingBearer(u) => new.region \in {"", old.region} \/ Sent(u, new.region)

\* one step after another
LEMMA LawfulTransitive ==
    ASSUME NEW u, NEW a, NEW b, NEW c, Lawful(u, a, b), Lawful(u, b, c)
    PROVE  Lawful(u, a, c)
  BY Zenon DEF Lawful

\* a step that changes neither where the unit is nor how it fares
LEMMA LawfulSame ==
    ASSUME NEW u, NEW old, NEW new,
           new.status = old.status, new.strength = old.strength, new.region = old.region
    PROVE  Lawful(u, old, new)
  BY Zenon DEF Lawful, Real

\* a step that moves the unit
LEMMA LawfulMove ==
    ASSUME NEW u, NEW old, NEW new, new.status = old.status, new.strength = old.strength,
           \/ new.region \in Regions /\ (~IsRingBearer(u) \/ Sent(u, new.region))
           \/ new.region = "" /\ IsRingBearer(u)
    PROVE  Lawful(u, old, new)
  BY Zenon DEF Lawful, Real

\* a step on units that are active only
LEMMA LawfulDamage ==
    ASSUME NEW us \in [Units -> UnitSnapshot], NEW G \in SUBSET Units, NEW d \in Int,
           \A u \in G : us[u].status = "ACTIVE", NEW u \in Units
    PROVE  Lawful(u, us[u], Damage(us, G, d)[u])
<1> DEFINE snap == us[u]
           raw == snap.strength - d
           left == IF raw < 1 THEN 1 ELSE raw
           new == Damage(us, G, d)[u]
<1>1. CASE u \notin G
  BY <1>1, LawfulSame DEF Damage
<1>2. CASE u \in G
  <2>1. snap.status = "ACTIVE" /\ snap \in UnitSnapshot /\ new = ApplyDamage(u, snap, d)
    BY <1>2 DEF Damage
  <2>2. CASE raw > 0 \/ Config[u].indestructible
    <3>1. left \in Int /\ left > 0
      <4>1. snap.strength \in Nat
        BY <2>1, SnapshotFields
      <4> QED
        BY <4>1
    <3>2. new = [snap EXCEPT !.strength = left, !.status = "ACTIVE"]
      BY <2>1, <2>2 DEF ApplyDamage
    <3>3. new.status = "ACTIVE" /\ new.strength = left /\ new.region = snap.region
      <4> HIDE DEF left, snap
      <4> QED
        BY <2>1, <3>2 DEF UnitSnapshot
    <3> HIDE DEF left, snap, new
    <3>4. Real(u, snap) => Real(u, new)
      BY <2>1, <3>1, <3>3 DEF Real
    <3>5. Lawful(u, snap, new)
      BY <2>1, <3>3, <3>4, Zenon DEF Lawful
    <3> QED
      BY <3>5 DEF snap, new
  <2>3. CASE ~(raw > 0 \/ Config[u].indestructible)
    <3>0. /\ ApplyDamage(u, snap, d).region = "" /\ ~Config[u].indestructible
          /\ ApplyDamage(u, snap, d).status
               = IF Config[u].respawns THEN "RESPAWNING" ELSE "DESTROYED"
      <4> HIDE DEF snap
      <4> QED
        BY <2>3 DEF ApplyDamage
    <3>1. /\ new.region = ""
          /\ new.status = IF Config[u].respawns THEN "RESPAWNING" ELSE "DESTROYED"
      BY <2>1, <3>0, Zenon
    <3>2. new.status # "ACTIVE" /\ (~Config[u].respawns => new.status = "DESTROYED")
      BY <3>1
    <3>3. Real(u, new)
      BY <3>0, <3>2 DEF Real
    <3> HIDE DEF snap, new, raw
    <3>4. Lawful(u, snap, new)
      BY <2>1, <3>1, <3>2, <3>3 DEF Lawful
    <3> QED
      BY <3>4 DEF snap, new
  <2> QED
    BY <2>2, <2>3
<1> QED
  BY <1>1, <1>2

LEMMA LawfulMoveIn ==
    ASSUME NEW us \in [Units -> UnitSnapshot], NEW r \in Regions, NEW u \in Units
    PROVE  Lawful(u, us[u], MoveIn(us, Attackers(r), r)[u])
<1> DEFINE new == MoveIn(us, Attackers(r), r)[u]
<1>1. CASE u \notin Attackers(r)
  BY <1>1, LawfulSame DEF MoveIn
<1>2. CASE u \in Attackers(r)
  <2>1. new.region = r /\ new.status = us[u].status /\ new.strength = us[u].strength
    BY <1>2 DEF MoveIn, UnitSnapshot
  <2>2. Sent(u, r)
    BY <1>2 DEF Attackers, Sent
  <2> HIDE DEF new
  <2>3. Lawful(u, us[u], new)
    BY <2>1, <2>2, LawfulMove
  <2> QED
    BY <2>3 DEF new
<1> QED
  BY <1>1, <1>2

LEMMA LawfulDisable ==
    ASSUME NEW us \in [Units -> UnitSnapshot], NEW u \in Units
    PROVE  Lawful(u, us[u], DisableSaruman(us)[u])
<1> DEFINE new == DisableSaruman(us)[u]
<1>1. CASE ~(IsDisabledByStronghold(u) /\ us[u].status = "ACTIVE")
  BY <1>1, LawfulSame DEF DisableSaruman
<1>2. CASE IsDisabledByStronghold(u) /\ us[u].status = "ACTIVE"
  <2>1. new.status = "DESTROYED" /\ new.region = us[u].region
    BY <1>2 DEF DisableSaruman, UnitSnapshot
  <2>2. StrongholdUnitsCanFall => ~Config[u].indestructible
    BY <1>2 DEF StrongholdUnitsCanFall
  <2> HIDE DEF new
  <2>3. Lawful(u, us[u], new)
    BY <1>2, <2>1, <2>2 DEF Lawful, Real
  <2> QED
    BY <2>3 DEF new
<1> QED
  BY <1>1, <1>2

LEMMA LawfulCombat ==
    ASSUME TypeOK, NEW r \in Regions, StepCombat(r), NEW u \in Units
    PROVE  Lawful(u, units[u], units'[u])
<1>1. units \in [Units -> UnitSnapshot] /\ regions \in [Regions -> RegionState]
  BY DEF TypeOK
<1>2. PICK side \in AttackerSides(r) :
         LET attackers == Attackers(r)
             defenders == Defenders(r, side)
             margin == CombatMargin(units, regions, r, attackers, defenders)
             taken == MoveIn(Damage(units, defenders, margin), attackers, r)
         IN  \/ units' = MoveIn(units, attackers, r)
             \/ units' = DisableSaruman(taken) \/ units' = taken
             \/ units' = Damage(units, attackers, 1)
  BY DEF StepCombat
<1> DEFINE attackers == Attackers(r)
           defenders == Defenders(r, side)
           margin == CombatMargin(units, regions, r, attackers, defenders)
           hurt == Damage(units, defenders, margin)
           taken == MoveIn(hurt, attackers, r)
<1>3. /\ attackers \in SUBSET Units /\ \A a \in attackers : units[a].status = "ACTIVE"
      /\ defenders \in SUBSET Units /\ \A d \in defenders : units[d].status = "ACTIVE"
  BY DEF Attackers, Defenders, Active
<1>4. margin \in Int
  BY <1>1, <1>3, MarginType
<1>5. hurt \in [Units -> UnitSnapshot] /\ Lawful(u, units[u], hurt[u])
  <2> HIDE DEF defenders, margin
  <2> QED
    BY <1>1, <1>3, <1>4, DamageType, LawfulDamage
<1>6. taken \in [Units -> UnitSnapshot] /\ Lawful(u, hurt[u], taken[u])
  <2> HIDE DEF hurt
  <2> QED
    BY <1>3, <1>5, MoveInType, LawfulMoveIn
<1>7. Lawful(u, taken[u], DisableSaruman(taken)[u])
  <2> HIDE DEF taken
  <2> QED
    BY <1>6, LawfulDisable
<1>8. CASE units' = MoveIn(units, attackers, r)
  BY <1>1, <1>8, LawfulMoveIn
<1>9. Lawful(u, units[u], taken[u])
  <2> HIDE DEF hurt, taken
  <2> QED
    BY <1>5, <1>6, LawfulTransitive
<1>10. CASE units' = taken
  <2> HIDE DEF taken
  <2> QED
    BY <1>9, <1>10
<1>11. CASE units' = DisableSaruman(taken)
  <2> HIDE DEF taken
  <2> QED
    BY <1>7, <1>9, <1>11, LawfulTransitive
<1>12. CASE units' = Damage(units, attackers, 1)
  <2> HIDE DEF attackers
  <2> QED
    BY <1>1, <1>3, <1>12, LawfulDamage
<1> QED
  BY <1>2, <1>8, <1>10, <1>11, <1>12

LEMMA LawfulRespawn ==
    ASSUME TypeOK, StepRespawnAndCooldown, NEW u \in Units
    PROVE  Lawful(u, units[u], units'[u])
<1> DEFINE snap == units[u]
           woken == RespawnTimer(u)
<1>1. snap \in UnitSnapshot /\ woken \in UnitSnapshot /\ units'[u] = CooldownTimer(woken)
  BY RespawnTimerType DEF TypeOK, StepRespawnAndCooldown
<1>2. Lawful(u, woken, CooldownTimer(woken))
  <2> HIDE DEF woken
  <2>1. /\ CooldownTimer(woken).status = woken.status
        /\ CooldownTimer(woken).strength = woken.strength
        /\ CooldownTimer(woken).region = woken.region
    BY <1>1 DEF CooldownTimer, UnitSnapshot
  <2> QED
    BY <2>1, LawfulSame
<1>3. Lawful(u, snap, woken)
  <2>1. CASE snap.status # "RESPAWNING"
    BY <2>1, LawfulSame DEF RespawnTimer
  <2>2. CASE snap.status = "RESPAWNING" /\ snap.respawnTurns > 1
    <3>1. /\ woken.status = snap.status /\ woken.strength = snap.strength
          /\ woken.region = snap.region
      BY <1>1, <2>2 DEF RespawnTimer, UnitSnapshot
    <3> HIDE DEF woken, snap
    <3> QED
      BY <3>1, LawfulSame
  <2>3. CASE snap.status = "RESPAWNING" /\ ~(snap.respawnTurns > 1)
    <3>1. /\ woken.status = "ACTIVE" /\ woken.strength = Config[u].strength
          /\ woken.region = Config[u].startRegion
      BY <1>1, <2>3 DEF RespawnTimer, UnitSnapshot
    <3>2. Config[u].startRegion \in Regions /\ Config[u].strength \in Nat \ {0}
      BY ConfigFields
    <3> HIDE DEF woken, snap
    <3>3. Real(u, woken)
      BY <3>1, <3>2 DEF Real
    <3> QED
      BY <2>3, <3>3 DEF Lawful
  <2> QED
    BY <2>1, <2>2, <2>3
<1> QED
  <2> HIDE DEF snap, woken
  <2>1. Lawful(u, snap, units'[u])
    BY <1>1, <1>2, <1>3, LawfulTransitive
  <2> QED
    BY <2>1 DEF snap

LEMMA LawfulOrders ==
    ASSUME TypeOK, StepAssignRoutes \/ StepReinforce, NEW u \in Units
    PROVE  Lawful(u, units[u], units'[u])
<1>1. units[u] \in UnitSnapshot
  BY DEF TypeOK
<1>2. CASE StepAssignRoutes
  <2>1. /\ units'[u].status = units[u].status /\ units'[u].strength = units[u].strength
        /\ units'[u].region = units[u].region
    BY <1>1, <1>2 DEF StepAssignRoutes, UnitSnapshot
  <2> QED
    BY <2>1, LawfulSame
<1>3. CASE StepReinforce
  <2>1. CASE MovedByOrder(u)
    <3>1. /\ units'[u].status = units[u].status /\ units'[u].strength = units[u].strength
          /\ units'[u].region = orders[u].region
      BY <1>1, <1>3, <2>1 DEF StepReinforce, UnitSnapshot
    <3>2. orders[u].region \in Regions /\ Sent(u, orders[u].region)
      BY <2>1 DEF MovedByOrder, Sent
    <3> QED
      BY <3>1, <3>2, LawfulMove
  <2>2. CASE ~MovedByOrder(u)
    <3>1. units'[u] = units[u]
      BY <1>3, <2>2 DEF StepReinforce
    <3> QED
      BY <3>1, LawfulSame
  <2> QED
    BY <2>1, <2>2
<1> QED
  BY <1>2, <1>3

\* what an update of one unit leaves alone
LEMMA OneCooldown ==
    ASSUME NEW us \in [Units -> UnitSnapshot], NEW v \in Units, NEW u \in Units, NEW n,
           NEW new, new = [us EXCEPT ![v].cooldown = n]
    PROVE  /\ new[u].status = us[u].status /\ new[u].strength = us[u].strength
           /\ new[u].region = us[u].region
<1>1. us[u] \in UnitSnapshot
  OBVIOUS
<1>2. new[u] = IF u = v THEN [us[u] EXCEPT !.cooldown = n] ELSE us[u]
  OBVIOUS
<1> QED
  BY <1>1, <1>2 DEF UnitSnapshot

LEMMA OneMove ==
    ASSUME NEW us \in [Units -> UnitSnapshot], NEW v \in Units, NEW u \in Units, NEW n, NEW r,
           NEW new, new = [us EXCEPT ![v].region = r, ![v].routeIdx = n]
    PROVE  /\ new[u].status = us[u].status /\ new[u].strength = us[u].strength
           /\ new[u].region = IF u = v THEN r ELSE us[u].region
<1>1. us[u] \in UnitSnapshot
  OBVIOUS
<1>2. new[u] = IF u = v THEN [us[u] EXCEPT !.region = r, !.routeIdx = n] ELSE us[u]
  OBVIOUS
<1> QED
  BY <1>1, <1>2 DEF UnitSnapshot

LEMMA LawfulMaia ==
    ASSUME TypeOK, NEW v \in Units, StepMaia(v), NEW u \in Units
    PROVE  Lawful(u, units[u], units'[u])
<1>1. units[u] \in UnitSnapshot /\ units \in [Units -> UnitSnapshot]
  BY DEF TypeOK
<1>2. units' = units \/ \E n : units' = [units EXCEPT ![v].cooldown = n]
  BY DEF StepMaia
<1>3. /\ units'[u].status = units[u].status /\ units'[u].strength = units[u].strength
      /\ units'[u].region = units[u].region
  BY <1>1, <1>2, OneCooldown
<1> QED
  BY <1>3, LawfulSame

LEMMA LawfulWalk ==
    ASSUME TypeOK, WalkersHavePaths, NEW v \in Units, StepAutoAdvance(v), NEW u \in Units
    PROVE  Lawful(u, units[u], units'[u])
<1> DEFINE to == OtherEnd(NextPath(v), EffectiveRegion(v))
           shown == IF IsRingBearer(v) THEN "" ELSE to
<1>1. units[u] \in UnitSnapshot /\ units \in [Units -> UnitSnapshot]
  BY DEF TypeOK
<1>2. to \in Regions
  <2>1. NextPath(v) \in Paths
    BY DEF StepAutoAdvance, WalkersHavePaths
  <2> QED
    BY <2>1, OtherEndType
<1>3. \/ units' = units
      \/ \E n : units' = [units EXCEPT ![v].region = shown, ![v].routeIdx = n]
  BY DEF StepAutoAdvance
<1> HIDE DEF to
<1>4. CASE units' = units \/ u # v
  <2>1. /\ units'[u].status = units[u].status /\ units'[u].strength = units[u].strength
        /\ units'[u].region = units[u].region
    <3> HIDE DEF shown
    <3> QED
      BY <1>1, <1>3, <1>4, OneMove
  <2> QED
    BY <2>1, LawfulSame
<1>5. CASE u = v /\ units' # units
  <2>1. /\ units'[u].status = units[u].status /\ units'[u].strength = units[u].strength
        /\ units'[u].region = shown
    <3> HIDE DEF shown
    <3>1. PICK k : units' = [units EXCEPT ![v].region = shown, ![v].routeIdx = k]
      BY <1>3, <1>5
    <3> QED
      BY <1>1, <1>5, <3>1, OneMove
  <2> QED
    BY <1>2, <1>5, <2>1, LawfulMove
<1> QED
  BY <1>1, <1>3, <1>4, <1>5

LEMMA LawfulMiddle ==
    ASSUME TypeInv, MiddleStep, NEW u \in Units
    PROVE  Lawful(u, units[u], units'[u])
<1>1. TypeOK /\ WalkersHavePaths
  BY DEF TypeInv
<1>2. CASE StepAssignRoutes \/ StepReinforce
  BY <1>1, <1>2, LawfulOrders
<1>3. ASSUME NEW v \in Units, StepMaia(v) PROVE Lawful(u, units[u], units'[u])
  BY <1>1, <1>3, LawfulMaia
<1>4. ASSUME NEW v \in Units, StepAutoAdvance(v) PROVE Lawful(u, units[u], units'[u])
  BY <1>1, <1>4, LawfulWalk
<1>5. ASSUME NEW r \in Regions, StepCombat(r) PROVE Lawful(u, units[u], units'[u])
  BY <1>1, <1>5, LawfulCombat
<1>6. CASE StepRespawnAndCooldown
  BY <1>1, <1>6, LawfulRespawn
<1>7. CASE \/ StepBlockAndSearch \/ StepFortify \/ BeginAdvance \/ BeginCombat \/ EndCombat
           \/ StepTempOpenTimers \/ StepFortificationTimers \/ StepDetection
  <2>1. units' = units
    BY <1>7 DEF StepBlockAndSearch, StepFortify, BeginAdvance, BeginCombat, EndCombat,
                StepTempOpenTimers, StepFortificationTimers, StepDetection, board
  <2> QED
    BY <2>1, LawfulSame
<1> QED
  BY <1>2, <1>3, <1>4, <1>5, <1>6, <1>7 DEF MiddleStep, ProcessTurn

(***************************************************************************)
(* The published units and those of the turn being computed.               *)
(***************************************************************************)
UnitInv ==
    \A u \in Units :
      /\ StrongholdUnitsCanFall => Real(u, units[u]) /\ Real(u, Published(u))
      /\ Published(u).status = "DESTROYED" => units[u].status = "DESTROYED"
      /\ ~Config[u].respawns => units[u].status # "RESPAWNING"

\* what the turn being computed has made of the Ring Bearer's public region
RevealInv ==
    LET shown == units[Frodo].region IN
    IF pc \in Steps THEN shown \in {"", Published(Frodo).region} \/ Sent(Frodo, shown)
    ELSE shown = Published(Frodo).region

\* a unit of a new game
LEMMA FirstUnits ==
    ASSUME NEW u \in Units
    PROVE  /\ Real(u, StartCache.units[u])
           /\ StartCache.units[u].status = "ACTIVE"
           /\ IsRingBearer(u) => StartCache.units[u].region = ""
<1>1. StartCache.units[u] = StartUnit(u)
  BY DEF StartCache
<1>2. /\ StartUnit(u).status = "ACTIVE" /\ StartUnit(u).strength = Config[u].strength
      /\ StartUnit(u).region = IF IsRingBearer(u) THEN "" ELSE Config[u].startRegion
  BY DEF StartUnit
<1>3. Config[u].strength \in Nat \ {0} /\ Config[u].startRegion \in Regions
  BY ConfigFields
<1>4. StartUnit(u).strength > 0
  <2>1. \A n \in Nat \ {0} : n > 0
    OBVIOUS
  <2> QED
    BY <1>2, <1>3, <2>1, Zenon
<1>5. IsRingBearer(u) \/ StartUnit(u).region \in Regions
  BY <1>2, <1>3
<1>6. Real(u, StartUnit(u))
  BY <1>2, <1>4, <1>5, Zenon DEF Real
<1> QED
  BY <1>1, <1>2, <1>6

LEMMA UnitInductive ==
    /\ Init => UnitInv
    /\ TypeInv /\ UnitInv /\ [Next]_vars => UnitInv'
<1>1. ASSUME Init PROVE UnitInv
  <2>1. cache.units = StartCache.units /\ units = StartCache.units
    BY <1>1 DEF Init, CopyCache
  <2> QED
    BY <2>1, FirstUnits DEF UnitInv, Published
<1>2. ASSUME TypeInv, UnitInv, [Next]_vars PROVE UnitInv'
  <2> SUFFICES ASSUME NEW u \in Units
               PROVE  /\ StrongholdUnitsCanFall => Real(u, units'[u]) /\ Real(u, cache'.units[u])
                      /\ cache'.units[u].status = "DESTROYED" => units'[u].status = "DESTROYED"
                      /\ ~Config[u].respawns => units'[u].status # "RESPAWNING"
    BY DEF UnitInv, Published, Real, StrongholdUnitsCanFall, IsDisabledByStronghold, IsRingBearer
  <2>1. /\ StrongholdUnitsCanFall => Real(u, units[u]) /\ Real(u, cache.units[u])
        /\ cache.units[u].status = "DESTROYED" => units[u].status = "DESTROYED"
        /\ ~Config[u].respawns => units[u].status # "RESPAWNING"
    BY <1>2 DEF UnitInv, Published
  <2>2. CASE ResetGame
    <3>1. cache'.units = StartCache.units /\ units' = StartCache.units
      BY <2>2 DEF ResetGame, StartCache
    <3> QED
      BY <3>1, FirstUnits
  <2>3. CASE MiddleStep
    <3>1. Lawful(u, units[u], units'[u]) /\ cache' = cache
      BY <1>2, <2>3, LawfulMiddle, MiddleStepFrame
    <3> QED
      BY <2>1, <3>1, Zenon DEF Lawful
  <2>4. CASE StepWinConditions
    <3>1. cache'.units = units /\ units' = units
      BY <1>2, <2>4 DEF StepWinConditions, TypeInv, TypeOK, WorldStateCache, board
    <3> QED
      BY <2>1, <3>1
  <2>5. CASE StartGame
    <3>1. cache'.units = cache.units /\ units' = units
      BY <1>2, <2>5 DEF StartGame, TypeInv, TypeOK, WorldStateCache, board
    <3> QED
      BY <2>1, <3>1
  <2>6. CASE \/ \E v \in Units : \E o \in OrderChoices[v] : ReceiveOrder(v, o)
             \/ BeginTurn \/ TickAfterGameOver \/ Done \/ UNCHANGED vars
    <3>1. cache'.units = cache.units /\ units' = units
      BY <2>6 DEF ReceiveOrder, BeginTurn, TickAfterGameOver, Done, vars, control, board
    <3> QED
      BY <2>1, <3>1
  <2> QED
    BY <1>2, <2>2, <2>3, <2>4, <2>5, <2>6, NextCases
<1> QED
  BY <1>1, <1>2

LEMMA UnitInvariant == Spec => []UnitInv
  BY UnitInductive, TypeInvariant, PTL DEF Spec

(***************************************************************************)
(* Every published active unit has a strength, and a region unless it is   *)
(* the Ring Bearer, and an indestructible one is always active, if what    *)
(* the fall of a stronghold disables is not indestructible.                *)
(***************************************************************************)
THEOREM ActiveUnitsCorrect ==
    ASSUME StrongholdUnitsCanFall
    PROVE  Spec => []ActiveUnitsAreReal
<1>1. UnitInv => ActiveUnitsAreReal
  BY DEF UnitInv, ActiveUnitsAreReal, Real
<1> QED
  BY <1>1, UnitInvariant, PTL

(***************************************************************************)
(* No order, timer or battle brings a destroyed unit back.                 *)
(***************************************************************************)
THEOREM FallenStayFallen == Spec => DestroyedStaysDestroyed
<1>1. TypeInv /\ UnitInv /\ [Next]_vars
        => [\/ ResetGame
            \/ \A u \in Units : Published(u).status = "DESTROYED"
                                  => cache'.units[u].status = "DESTROYED"]_cache
  <2> SUFFICES ASSUME TypeInv, UnitInv, [Next]_vars, ~ResetGame, cache' # cache,
                      NEW u \in Units, Published(u).status = "DESTROYED"
               PROVE  cache'.units[u].status = "DESTROYED"
    OBVIOUS
  <2>1. CASE StepWinConditions
    <3>1. cache'.units = units
      BY <2>1 DEF StepWinConditions, TypeInv, TypeOK, WorldStateCache
    <3> QED
      BY <3>1 DEF UnitInv
  <2>2. CASE StartGame
    <3>1. cache'.units = cache.units
      BY <2>2 DEF StartGame, TypeInv, TypeOK, WorldStateCache
    <3> QED
      BY <3>1 DEF Published
  <2> QED
    BY <2>1, <2>2, NextCases, MiddleStepFrame
       DEF ReceiveOrder, BeginTurn, TickAfterGameOver, Done, vars, control
<1> QED
  BY <1>1, UnitInvariant, TypeInvariant, PTL DEF Spec, DestroyedStaysDestroyed

LEMMA RevealInductive ==
    ASSUME TheRingBearerFalls
    PROVE  /\ Init => RevealInv
           /\ TypeInv /\ UnitInv /\ RevealInv /\ [Next]_vars => RevealInv'
<1>1. Frodo \in Units /\ IsRingBearer(Frodo)
  BY TheRingBearerIsOne DEF Frodo
<1>2. ASSUME Init PROVE RevealInv
  <2>1. cache.units = StartCache.units /\ units = StartCache.units /\ pc \notin Steps
    BY <1>2 DEF Init, CopyCache, Steps
  <2> QED
    BY <2>1 DEF RevealInv, Published
<1>3. ASSUME TypeInv, UnitInv, RevealInv, [Next]_vars PROVE RevealInv'
  <2>1. CASE MiddleStep
    <3>1. /\ Lawful(Frodo, units[Frodo], units'[Frodo])
          /\ pc \in Steps /\ pc' \in Steps /\ cache' = cache /\ orders' = orders
      BY <1>1, <1>3, <2>1, LawfulMiddle, MiddleStepFrame
    <3>2. units[Frodo].status # "RESPAWNING"
      BY <1>1, <1>3 DEF UnitInv, TheRingBearerFalls
    <3>3. \/ units'[Frodo].region \in {"", units[Frodo].region}
          \/ Sent(Frodo, units'[Frodo].region)
      BY <1>1, <3>1, <3>2 DEF Lawful, TheRingBearerFalls
    <3>4. \/ units[Frodo].region \in {"", cache.units[Frodo].region}
          \/ Sent(Frodo, units[Frodo].region)
      BY <1>3, <3>1 DEF RevealInv, Published
    <3>5. \/ units'[Frodo].region \in {"", cache.units[Frodo].region}
          \/ Sent(Frodo, units'[Frodo].region)
      BY <3>3, <3>4
    <3> QED
      BY <3>1, <3>5 DEF RevealInv, Published, Sent, Ordered
  <2>2. CASE StepWinConditions
    <3>1. cache'.units = units /\ units' = units /\ pc' \notin Steps
      BY <1>3, <2>2 DEF StepWinConditions, TypeInv, TypeOK, WorldStateCache, board, Steps
    <3> QED
      BY <3>1 DEF RevealInv, Published
  <2>3. CASE ResetGame
    <3>1. units' = cache'.units /\ pc' \notin Steps
      BY <2>3 DEF ResetGame, Steps
    <3> QED
      BY <3>1 DEF RevealInv, Published
  <2>4. CASE StartGame
    <3>1. cache'.units = cache.units /\ units' = units /\ pc' \notin Steps /\ pc \notin Steps
      BY <1>3, <2>4 DEF StartGame, TypeInv, TypeOK, WorldStateCache, board, Steps
    <3> QED
      BY <1>3, <3>1 DEF RevealInv, Published
  <2>5. CASE BeginTurn
    <3>1. cache' = cache /\ units' = units /\ pc \notin Steps
      BY <2>5 DEF BeginTurn, board, Steps
    <3>2. units'[Frodo].region = cache'.units[Frodo].region
      BY <1>3, <3>1 DEF RevealInv, Published
    <3> QED
      BY <3>2 DEF RevealInv, Published
  <2>6. CASE \/ \E v \in Units : \E o \in OrderChoices[v] : ReceiveOrder(v, o)
             \/ TickAfterGameOver \/ Done
    <3>1. cache' = cache /\ units' = units /\ pc \notin Steps /\ pc' \notin Steps
      BY <2>6 DEF ReceiveOrder, TickAfterGameOver, Done, board, Steps
    <3> QED
      BY <1>3, <3>1 DEF RevealInv, Published
  <2>7. CASE UNCHANGED vars
    BY <1>3, <2>7 DEF RevealInv, Published, Sent, Ordered, vars, control, board
  <2> QED
    BY <1>3, <2>1, <2>2, <2>3, <2>4, <2>5, <2>6, <2>7, NextCases
<1> QED
  BY <1>2, <1>3

(***************************************************************************)
(* Only an order that names a region puts the Ring Bearer on the board the *)
(* Dark Side sees, if the Ring Bearer does not respawn.                    *)
(***************************************************************************)
THEOREM SecretCorrect ==
    ASSUME TheRingBearerFalls
    PROVE  Spec => OnlyOrdersReveal
<1>1. TypeInv /\ RevealInv /\ [Next]_vars
        => [LET shown == cache'.units[Frodo].region IN
            \/ shown \in {"", Published(Frodo).region}
            \/ /\ shown = orders[Frodo].region
               /\ \E type \in {"REINFORCE_REGION", "DEPLOY_NAZGUL", "ATTACK_REGION"} :
                    Ordered(Frodo, type)]_cache
  <2> SUFFICES ASSUME TypeInv, RevealInv, [Next]_vars, cache' # cache
               PROVE  \/ cache'.units[Frodo].region \in {"", Published(Frodo).region}
                      \/ Sent(Frodo, cache'.units[Frodo].region)
    BY DEF Sent
  <2>1. CASE StepWinConditions
    <3>1. cache'.units = units /\ pc \in Steps
      BY <2>1 DEF StepWinConditions, TypeInv, TypeOK, WorldStateCache, Steps
    <3> QED
      BY <3>1 DEF RevealInv
  <2>2. CASE StartGame
    <3>1. cache'.units = cache.units
      BY <2>2 DEF StartGame, TypeInv, TypeOK, WorldStateCache
    <3> QED
      BY <3>1 DEF Published
  <2>3. CASE ResetGame
    <3>1. cache'.units = StartCache.units
      BY <2>3 DEF ResetGame, StartCache
    <3>2. Frodo \in Units /\ IsRingBearer(Frodo)
      BY TheRingBearerIsOne DEF Frodo
    <3> QED
      BY <3>1, <3>2, FirstUnits
  <2> QED
    BY <2>1, <2>2, <2>3, NextCases, MiddleStepFrame
       DEF ReceiveOrder, BeginTurn, TickAfterGameOver, Done, vars, control
<1>2. Spec => []RevealInv
  BY RevealInductive, UnitInvariant, TypeInvariant, PTL DEF Spec
<1> QED
  BY <1>1, <1>2, TypeInvariant, PTL DEF Spec, OnlyOrdersReveal
=============================================================================
