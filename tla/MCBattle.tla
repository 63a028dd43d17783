------------------------------ MODULE MCBattle ------------------------------
(***************************************************************************)
(* The battle for a stronghold: leaders, a fortress, a legion that ignores *)
(* it, an army that fortifies, a nazgul that respawns and one that cannot  *)
(* be destroyed.                                                           *)
(***************************************************************************)
EXTENDS Soldiers

MCRegions == {"isengard", "fangorn", "helm"}
MCPaths == {"wood", "wall"}
MCEnds == [p \in MCPaths |-> IF p = "wood" THEN [from |-> "isengard", to |-> "fangorn"]
                             ELSE [from |-> "isengard", to |-> "helm"]]

MCUnits == {"frodo", "aragorn", "gondor", "uruk", "witchking", "saruman"}

MCConfig ==
    [u \in MCUnits |->
       CASE u = "frodo" -> [Soldier EXCEPT !.class = "RingBearer", !.startRegion = "fangorn",
                                           !.strength = 1]
         [] u = "aragorn" -> [Soldier EXCEPT !.startRegion = "fangorn", !.strength = 6,
                                !.leadership = TRUE, !.leadershipBonus = 1]
         [] u = "gondor" -> [Soldier EXCEPT !.class = "GondorArmy", !.startRegion = "helm",
                                !.strength = 6, !.canFortify = TRUE]
         [] u = "uruk" -> [Soldier EXCEPT !.class = "UrukHaiLegion", !.side = "SHADOW",
                                !.startRegion = "isengard", !.strength = 4, !.respawns = TRUE,
                                !.respawnTurns = 1, !.ignoresFortress = TRUE]
         [] u = "witchking" -> [Soldier EXCEPT !.class = "Nazgul", !.side = "SHADOW",
                                !.startRegion = "isengard", !.strength = 2, !.leadership = TRUE,
                                !.leadershipBonus = 1, !.indestructible = TRUE]
         [] u = "saruman" -> [Soldier EXCEPT !.class = "Maia", !.side = "SHADOW",
                                !.startRegion = "isengard", !.strength = 3, !.isMaia = TRUE,
                                !.maiaAbilityPaths = {"wood"}, !.cooldown = 1]]

MCRegionConfig ==
    [r \in MCRegions |->
       [terrain |-> CASE r = "isengard" -> "MOUNTAINS" [] r = "helm" -> "FORTRESS"
                      [] OTHER -> "FOREST",
        specialRole |-> IF r = "isengard" THEN "SHADOW_STRONGHOLD" ELSE "NONE",
        startControl |-> IF r = "isengard" THEN "SHADOW" ELSE "NEUTRAL",
        startThreat |-> 0]]

MCOrders ==
    [u \in MCUnits |->
       CASE u = "frodo" -> {}
         [] u = "aragorn" -> {To("ATTACK_REGION", "isengard"), To("ATTACK_REGION", "helm")}
         [] u = "gondor" -> {To("ATTACK_REGION", "isengard"),
                             [NoOrder EXCEPT !.type = "FORTIFY_REGION"]}
         [] u = "uruk" -> {To("ATTACK_REGION", "helm"), To("REINFORCE_REGION", "helm")}
         [] u = "witchking" -> {To("DEPLOY_NAZGUL", "helm")}
         [] u = "saruman" -> {To("REINFORCE_REGION", "helm")}]
=============================================================================
