------------------------------- MODULE MCHunt -------------------------------
(***************************************************************************)
(* The hunt: the Ring Bearer is one path from the destruction site, with   *)
(* Aragorn; a nazgul and Sauron wait there.                                *)
(***************************************************************************)
EXTENDS Soldiers

MCRegions == {"shire", "bree", "doom"}
MCPaths == {"east", "south"}
MCEnds == [p \in MCPaths |-> IF p = "east" THEN [from |-> "shire", to |-> "bree"]
                             ELSE [from |-> "bree", to |-> "doom"]]

MCUnits == {"frodo", "aragorn", "nazgul", "sauron"}

MCConfig ==
    [u \in MCUnits |->
       CASE u = "frodo" -> [Soldier EXCEPT !.class = "RingBearer", !.startRegion = "bree",
                                           !.strength = 1]
         [] u = "aragorn" -> [Soldier EXCEPT !.startRegion = "bree"]
         [] u = "nazgul" -> [Soldier EXCEPT !.class = "Nazgul", !.side = "SHADOW",
                                !.startRegion = "doom", !.strength = 2, !.detectionRange = 1,
                                !.respawns = TRUE, !.respawnTurns = 1]
         [] u = "sauron" -> [Soldier EXCEPT !.class = "Maia", !.side = "SHADOW",
                                !.startRegion = "doom", !.strength = 2, !.indestructible = TRUE,
                                !.isMaia = TRUE]]

MCRegionConfig ==
    [r \in MCRegions |->
       [terrain |-> IF r = "doom" THEN "VOLCANIC" ELSE "PLAINS",
        specialRole |-> IF r = "doom" THEN "RING_DESTRUCTION_SITE" ELSE "NONE",
        startControl |-> IF r = "doom" THEN "SHADOW" ELSE "NEUTRAL", startThreat |-> 1]]

\* the orders of a hunt
MCOrders ==
    [u \in MCUnits |->
       CASE u = "frodo" -> {Along(<<"south", "east">>), [NoOrder EXCEPT !.type = "DESTROY_RING"],
                            To("REINFORCE_REGION", "bree"), To("ATTACK_REGION", "doom")}
         [] u = "aragorn" -> {To("ATTACK_REGION", "doom"), Along(<<"south">>)}
         [] u = "nazgul" -> {On("BLOCK_PATH", "south"), To("DEPLOY_NAZGUL", "bree"),
                             On("SEARCH_PATH", "south")}
         [] u = "sauron" -> {To("REINFORCE_REGION", "bree")}]
=============================================================================
