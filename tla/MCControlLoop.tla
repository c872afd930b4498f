--------------------------- MODULE MCControlLoop ---------------------------
(* One robot, whose roller bundle has no networks beside walking.            *)
EXTENDS ControlLoop

WalkSkills == [m \in Modes |-> IF m = "walk" THEN {"sit", "roulade"} ELSE {}]
=============================================================================
