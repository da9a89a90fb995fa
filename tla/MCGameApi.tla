----------------------------- MODULE MCGameApi -----------------------------
(* GameApi on two maps, one with a speed of its own and no types of loot,  *)
(* the other without roads, and one unknown name.                          *)
EXTENDS GameApi, TLC

CONSTANTS m1, m2, t1, t2, t3

MCConfigSpeed == m1 :> 4 @@ m2 :> 0
MCNumLoots == m1 :> 0 @@ m2 :> 2
MCNumRoads == m1 :> 3 @@ m2 :> 0
MCTokenChars == t1 :> {48, 57} @@ t2 :> {97, 102} @@ t3 :> {48, 97}
=============================================================================
