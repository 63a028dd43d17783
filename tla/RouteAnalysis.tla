--------------------------- MODULE RouteAnalysis ---------------------------
(***************************************************************************)
(* What the two analysis pipelines compute from a copy of the published    *)
(* state: the risk of the canonical routes and the chances of the Nazgul   *)
(* to intercept the Ring Bearer on one of them.  Nothing here has state.   *)
(*                                                                         *)
(* Of the state w they read the threat levels of regions, the status and   *)
(* surveillance of paths, and the regions of the active units that detect. *)
(***************************************************************************)
EXTENDS GameMap, SequencesExt

CONSTANTS
    CanonicalRoutes,    \* a sequence of [regions, paths]
    Cost,               \* Cost[p], the turns path p takes
    Detectors           \* the units with a detection range

Routes == [regions : Seq(Regions), paths : Seq(Paths)]

ASSUME RouteAssumption ==
    /\ Cost \in [Paths -> Nat] /\ IsFiniteSet(Detectors)
    /\ CanonicalRoutes \in Seq(Routes) /\ Len(CanonicalRoutes) > 0
    /\ \A i \in DOMAIN CanonicalRoutes :
         LET route == CanonicalRoutes[i]
         IN  /\ Len(route.regions) = Len(route.paths) + 1 /\ Len(route.regions) < 999
             /\ \A k \in DOMAIN route.paths :
                  {route.regions[k], route.regions[k + 1]}
                    = {Ends[route.paths[k]].from, Ends[route.paths[k]].to}

WorldState ==
    [threat : [Regions -> Int], surveillance : [Paths -> Int],
     status : [Paths -> {"OPEN", "THREATENED", "BLOCKED", "TEMPORARILY_OPEN"}],
     detectors : UNION {[active -> Regions] : active \in SUBSET Detectors},
     trueRegion : Regions \cup {""}]

----------------------------------------------------------------------------
(***************************************************************************)
(* Pipeline 1                                                              *)
(***************************************************************************)
On(route, w, status) == {i \in DOMAIN route.paths : w.status[route.paths[i]] = status}

\* the Nazgul within two hops of a region of the route
Near(route, w) ==
    {u \in DOMAIN w.detectors :
       \E i \in DOMAIN route.regions : WithinHops(route.regions[i], w.detectors[u], 2)}

\* where a route leads, but not where it begins
Threat(route, w) ==
    SumFunction([i \in 2..Len(route.regions) |-> w.threat[route.regions[i]]])

RiskScore(route, w) ==
    Threat(route, w)
      + 3 * SumFunction([i \in DOMAIN route.paths |-> w.surveillance[route.paths[i]]])
      + 5 * Cardinality(On(route, w, "BLOCKED"))
      + 2 * Cardinality(On(route, w, "THREATENED"))
      + 2 * Cardinality(Near(route, w))

Ranked(r, w) ==
    [route |-> r, riskScore |-> RiskScore(CanonicalRoutes[r], w),
     blocked |-> On(CanonicalRoutes[r], w, "BLOCKED") # {}]

\* the lesser of two goes first
Exchange(list, i, j) ==
    IF list[j].riskScore < list[i].riskScore
    THEN [list EXCEPT ![i] = list[j], ![j] = list[i]] ELSE list

\* place i against all later ones
Pass(list, i) ==
    LET upTo[j \in i..Len(list)] ==
          IF j = i THEN list ELSE Exchange(upTo[j - 1], i, j)
    IN  upTo[Len(list)]

InOrder(list) ==
    LET after[i \in 0..(Len(list) - 1)] == IF i = 0 THEN list ELSE Pass(after[i - 1], i)
    IN  after[Len(list) - 1]

RankRoutes(w) ==
    LET routes == InOrder([r \in DOMAIN CanonicalRoutes |-> Ranked(r, w)])
    IN  [routes |-> routes, recommended |-> routes[1].route,
         warnings |-> {routes[i].route : i \in {k \in DOMAIN routes : routes[k].blocked}}]

----------------------------------------------------------------------------
(***************************************************************************)
(* Pipeline 2                                                              *)
(***************************************************************************)
\* bfsDistance
Distance(a, b) ==
    LET rounds == {k \in 0..Cardinality(Regions) : WithinHops(a, b, k)}
    IN  IF rounds = {} THEN 999 ELSE Min(rounds)

\* pathCostToRegion, along the route from where start is first on it: 0 also when the
\* route does not pass through start at all
PathCost(start, route, target) ==
    LET steps == {k \in 1..(target - 1) : \E j \in 1..k : route.regions[j] = start}
    IN  SumFunction([k \in steps |-> Cost[route.paths[k]]])

\* mutant: a region is worth going to however late
LateScore(turns, window, length) ==
    IF length > 0 THEN [num |-> length - turns, den |-> length] ELSE [num |-> 0, den |-> 1]

\* a score is a fraction
Score(turns, window, length) ==
    IF window >= 0 /\ length > 0
    THEN [num |-> length - turns, den |-> length] ELSE [num |-> 0, den |-> 1]

Greater(x, y) == x.num * y.den > y.num * x.den

\* what region number i of route r offers a Nazgul in the region from
Offer(from, bearer, r, i) ==
    LET route == CanonicalRoutes[r]
        turns == Distance(from, route.regions[i])
    IN  [target |-> route.regions[i], turns |-> turns,
         score |-> Score(turns, PathCost(bearer, route, i) - turns, Len(route.regions) - 1)]

NoOffer == [target |-> "", turns |-> 0, score |-> [num |-> 0, den |-> 1]]

Better(best, offer) == IF Greater(offer.score, best.score) THEN offer ELSE best

\* the regions of route r, one after the other
BestOn(best, from, bearer, r) ==
    LET n == Len(CanonicalRoutes[r].regions)
        upTo[i \in 0..n] ==
          IF i = 0 THEN best ELSE Better(upTo[i - 1], Offer(from, bearer, r, i))
    IN  upTo[n]

\* the first of the best
BestOffer(from, bearer) ==
    LET n == Len(CanonicalRoutes)
        upTo[r \in 0..n] == IF r = 0 THEN NoOffer ELSE BestOn(upTo[r - 1], from, bearer, r)
    IN  upTo[n]

ComputeInterceptionPlans(w, bearer) ==
    LET best == [u \in DOMAIN w.detectors |-> BestOffer(w.detectors[u], bearer)]
    IN  [u \in {d \in DOMAIN best : best[d].target # ""} |-> best[u]]
=============================================================================
