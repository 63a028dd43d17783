------------------------------ MODULE MCSiege -------------------------------
(***************************************************************************)
(* The fords: a nazgul and Saruman close or search the path from Isengard  *)
(* to Edoras, Saruman corrupts it, Gandalf opens it, the Riders attack and *)
(* the Ring Bearer wants across.                                           *)
(***************************************************************************)
EXTENDS Soldiers

MCRegions == {"isengard", "edoras", "helm"}
MCPaths == {"ford", "dike"}
MCEnds == [p \in MCPaths |-> IF p = "ford" THEN [from |-> "isengard", to |-> "edoras"]
                             ELSE [from |-> "edoras", to |-> "helm"]]

MCUnits == {"frodo", "gandalf", "riders", "nazgul", "saruman"}

MCConfig ==
    [u \in MCUnits |->
       CASE u = "frodo" -> [Soldier EXCEPT !.class = "RingBearer", !.startRegion = "edoras",
                                           !.strength = 1]
         [] u = "gandalf" -> [Soldier EXCEPT !.class = "Maia", !.startRegion = "edoras",
                                             !.isMaia = TRUE, !.cooldown = 2]
         [] u = "riders" -> [Soldier EXCEPT !.startRegion = "edoras", !.strength = 4]
         [] u = "nazgul" -> [Soldier EXCEPT !.class = "Nazgul", !.side = "SHADOW",
                                !.startRegion = "isengard", !.strength = 1]
         [] u = "saruman" -> [Soldier EXCEPT !.class = "Maia", !.side = "SHADOW",
                                !.startRegion = "isengard", !.strength = 2, !.isMaia = TRUE,
                                !.maiaAbilityPaths = {"ford"}, !.cooldown = 1]]

MCRegionConfig ==
    [r \in MCRegions |->
       [terrain |-> "PLAINS",
        specialRole |-> IF r = "isengard" THEN "SHADOW_STRONGHOLD" ELSE "NONE",
        startControl |-> IF r = "isengard" THEN "SHADOW" ELSE "FREE_PEOPLES",
        startThreat |-> 0]]

MCOrders ==
    [u \in MCUnits |->
       CASE u = "frodo" -> {Along(<<"ford">>)}
         [] u = "gandalf" -> {On("MAIA_ABILITY", "ford")}
         [] u = "riders" -> {To("ATTACK_REGION", "isengard")}
         [] u = "nazgul" -> {On("BLOCK_PATH", "ford"), On("SEARCH_PATH", "ford"), To("DEPLOY_NAZGUL", "helm")}
         [] u = "saruman" -> {On("MAIA_ABILITY", "ford"), On("BLOCK_PATH", "ford"), On("SEARCH_PATH", "ford")}]
=============================================================================
