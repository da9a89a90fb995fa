--------------------------- MODULE MCGameSession ---------------------------
(* GameSession on a small instance: two types of loot of different value. *)
EXTENDS GameSession

MCLootTypes == {0, 1}
MCLootScore == [t \in MCLootTypes |-> IF t = 0 THEN 1 ELSE 3]
MCDeltas == {1}
=============================================================================
