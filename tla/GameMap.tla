------------------------------ MODULE GameMap ------------------------------
(***************************************************************************)
(* The map of Middle Earth: internal/game/graph.go over the regions and    *)
(* paths of config/map.conf.  Regions and paths are named by identifiers;  *)
(* the empty identifier "" stands for "no region" and "no path", as in the *)
(* code.  Every path can be walked both ways.                              *)
(***************************************************************************)
EXTENDS Integers, FiniteSets

CONSTANTS
    Regions,    \* the region identifiers of map.conf
    Paths,      \* the path identifiers of map.conf
    Ends        \* Ends[p].from and Ends[p].to, the two regions path p joins

ASSUME MapAssumption ==
    /\ IsFiniteSet(Regions) /\ IsFiniteSet(Paths)
    /\ "" \notin Regions /\ "" \notin Paths
    /\ Ends \in [Paths -> [from : Regions, to : Regions]]

(***************************************************************************)
(* Graph.IsEndpointRegion and Graph.AreAdjacent.  The empty region is an   *)
(* end of no path and adjacent to nothing.                                 *)
(***************************************************************************)
\* mutant: a unit may leave along any path
AnyRegion(p, r) == p \in Paths /\ r \in Regions

IsEndpointRegion(p, r) == r \in {Ends[p].from, Ends[p].to}

AreAdjacent(a, b) ==
    \E p \in Paths : {a, b} = {Ends[p].from, Ends[p].to}

OtherEnd(p, r) == IF Ends[p].from = r THEN Ends[p].to ELSE Ends[p].from

(***************************************************************************)
(* Graph.Distance is the number of hops of a breadth-first search.  The    *)
(* rules only ask whether it is at most some range, so what is modelled is *)
(* the set of regions the search has reached after k rounds.  Two equal    *)
(* identifiers are at distance 0, even the empty one, and no region is     *)
(* within any range of the empty one.                                      *)
(***************************************************************************)
Reached(a) ==
    LET after[k \in Nat] ==
          IF k = 0 THEN {a}
          ELSE LET before == after[k - 1]
               IN  before \cup {b \in Regions : \E c \in before : AreAdjacent(c, b)}
    IN  after

WithinHops(a, b, k) == a = b \/ b \in Reached(a)[k]
=============================================================================
