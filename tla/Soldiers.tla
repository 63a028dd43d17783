------------------------------ MODULE Soldiers ------------------------------
(***************************************************************************)
(* Building blocks for the instances that are model-checked: a plain unit, *)
(* from which the units of a scenario are made, and short orders.          *)
(***************************************************************************)
EXTENDS TurnProperties

Soldier == [class |-> "FellowshipGuard", side |-> "FREE_PEOPLES", startRegion |-> "bree",
            strength |-> 3, leadership |-> FALSE, leadershipBonus |-> 0,
            indestructible |-> FALSE, detectionRange |-> 0, respawns |-> FALSE,
            respawnTurns |-> 0, isMaia |-> FALSE, maiaAbilityPaths |-> {},
            ignoresFortress |-> FALSE, canFortify |-> FALSE, cooldown |-> 0]

On(type, p) == [NoOrder EXCEPT !.type = type, !.path = p]
To(type, r) == [NoOrder EXCEPT !.type = type, !.region = r]
Along(route) == [NoOrder EXCEPT !.type = "ASSIGN_ROUTE", !.route = route]
=============================================================================
