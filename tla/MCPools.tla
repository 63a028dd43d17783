------------------------------ MODULE MCPools ------------------------------
(***************************************************************************)
(* Two handlers and two triggers, two workers, every channel of capacity   *)
(* 1, and two states one after the other.  Of three routes the last two    *)
(* have a region in common, and a Nazgul may stand on none.                *)
(***************************************************************************)
EXTENDS PoolProperties, TLC

CONSTANTS h1, h2, t1, t2, w1, w2

MCRegions == {"shire", "bree", "moria", "fords", "doom", "tower"}
MCPaths == {"sb", "bm", "md", "sf", "bf", "fd", "tm"}
Between(a, b) == [from |-> a, to |-> b]
MCEnds == [p \in MCPaths |->
    CASE p = "sb" -> Between("shire", "bree") [] p = "bm" -> Between("bree", "moria")
      [] p = "md" -> Between("moria", "doom") [] p = "sf" -> Between("shire", "fords")
      [] p = "bf" -> Between("bree", "fords") [] p = "tm" -> Between("tower", "moria")
      [] OTHER -> Between("fords", "doom")]
MCCost == [p \in MCPaths |-> IF p \in {"sf", "fd"} THEN 2 ELSE 1]

MCRoutes ==
    << [regions |-> <<"shire", "bree", "moria", "doom">>, paths |-> <<"sb", "bm", "md">>],
       [regions |-> <<"shire", "bree", "fords", "doom">>, paths |-> <<"sb", "bf", "fd">>],
       [regions |-> <<"shire", "fords", "doom">>, paths |-> <<"sf", "fd">>] >>

MCDetectors == {"king", "second"}

WorldWith(threat, watched, blocked, king, bearer) ==
    [threat |-> [r \in MCRegions |-> IF r = threat THEN 4 ELSE 1],
     surveillance |-> [p \in MCPaths |-> IF p = watched THEN 1 ELSE 0],
     status |-> [p \in MCPaths |-> CASE p = blocked -> "BLOCKED"
                                     [] p = watched -> "THREATENED" [] OTHER -> "OPEN"],
     detectors |-> ("king" :> king @@ "second" :> "doom"),
     trueRegion |-> bearer]

\* the king can be in moria before the bearer; then he stands behind it
MCWorlds == << WorldWith("moria", "sb", "bm", "tower", "shire"),
               WorldWith("fords", "bf", "fd", "bree", "moria") >>
=============================================================================
