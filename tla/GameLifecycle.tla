--------------------------- MODULE GameLifecycle ---------------------------
(***************************************************************************)
(* What a game promises, whatever is played in it: it waits for its        *)
(* players, goes through its turns one by one, is over at the last turn at *)
(* the latest, and is then left alone until somebody resets it.  The turn  *)
(* engine (TurnProcessor) is shown to implement this.                      *)
(***************************************************************************)
EXTENDS Naturals

CONSTANT MaxTurns    \* at least 1

VARIABLES stage, turn

game == <<stage, turn>>

Begin == stage = "waiting" /\ turn = 1

Start == stage = "waiting" /\ stage' = "playing" /\ UNCHANGED turn

EndTurn == stage = "playing" /\ turn < MaxTurns /\ turn' = turn + 1 /\ UNCHANGED stage

Finish == stage = "playing" /\ stage' = "over" /\ UNCHANGED turn

Reset == stage' = "waiting" /\ turn' = 1

Move == Start \/ EndTurn \/ Finish \/ Reset

GameSpec == Begin /\ [][Move]_game
=============================================================================
