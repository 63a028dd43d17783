------------------------------ MODULE MCEvents ------------------------------
(***************************************************************************)
(* Connections of both sides and a few streams of events.                  *)
(***************************************************************************)
EXTENDS EventProperties

MCTopicOf ==
    [s \in Streams |->
       CASE s = "position" -> "game.ring.position"
         [] s = "detection" -> "game.ring.detection"
         [] s = "snapshots" -> "game.broadcast"
         [] OTHER -> "game.events.unit"]

MCSide == [c \in Connections |-> IF c = "dark1" THEN "SHADOW" ELSE "FREE_PEOPLES"]

\* the Dark Side's request comes under the identifier of one of the Light Side's
MCPlayerID == [c \in Connections |-> IF c = "dark1" THEN "light1" ELSE c]
=============================================================================
