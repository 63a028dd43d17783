------------------------------ MODULE MCIntake ------------------------------
(***************************************************************************)
(* Two players, the Ring Bearer next to the destruction site and a nazgul  *)
(* in its way, with orders that the validator has to tell apart.           *)
(***************************************************************************)
EXTENDS IntakeProperties, Soldiers

MCRegions == {"ithilien", "doom"}
MCPaths == {"stair"}
MCEnds == [p \in MCPaths |-> [from |-> "ithilien", to |-> "doom"]]

MCUnits == {"frodo", "nazgul"}

MCConfig ==
    [u \in MCUnits |->
       IF u = "frodo"
       THEN [Soldier EXCEPT !.class = "RingBearer", !.startRegion = "ithilien", !.strength = 1]
       ELSE [Soldier EXCEPT !.class = "Nazgul", !.side = "SHADOW", !.startRegion = "ithilien",
                            !.strength = 2, !.detectionRange = 1]]

MCRegionConfig ==
    [r \in MCRegions |->
       [terrain |-> "PLAINS",
        specialRole |-> IF r = "doom" THEN "RING_DESTRUCTION_SITE" ELSE "NONE",
        startControl |-> "NEUTRAL", startThreat |-> 0]]

MCPlayers == {"light-1", "dark-1"}
MCPlayerSide == [p \in MCPlayers |-> IF p = "light-1" THEN "FREE_PEOPLES" ELSE "SHADOW"]

Destroy == [NoOrder EXCEPT !.type = "DESTROY_RING"]

\* what is asked of the system is apart from the units' orders
MCPartitions == {0, 1}
MCPartitionOf == [k \in MCUnits \cup {"system"} |-> IF k = "system" THEN 0 ELSE 1]

Start == SystemOrder("START_GAME")
Broken == Along(<<NotAString>>)

\* what the players send, a start under the name of the nazgul and, for the Ring
\* Bearer, what makes the validator panic included
MCSubmissions ==
    [k \in MCUnits \cup {"system"} |->
       IF k = "frodo" THEN {Along(<<"stair">>), Destroy, Broken}
       ELSE IF k = "nazgul" THEN {On("BLOCK_PATH", "stair"), Destroy, Start} ELSE {}]

\* one order for each unit, and for the nazgul also a start and what makes the
\* validator panic
MCOneOrder ==
    [k \in MCUnits \cup {"system"} |->
       IF k = "frodo" THEN {Along(<<"stair">>)}
       ELSE IF k = "nazgul" THEN {On("BLOCK_PATH", "stair"), Start, Broken} ELSE {}]

\* what the validator should leave of all this
MCOrders ==
    [u \in MCUnits |-> IF u = "frodo" THEN {Along(<<"stair">>), Destroy}
                       ELSE {On("BLOCK_PATH", "stair")}]
=============================================================================
