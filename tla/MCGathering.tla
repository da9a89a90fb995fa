---------------------------- MODULE MCGathering ----------------------------
(* Gathering on two streets that cross, with one office beside the corner. *)
EXTENDS Gathering

Streets == {<<x, 0>> : x \in 0..24} \cup {<<12, y>> : y \in -8..12}
Moves == UNION {{<<d, 0>>, <<-d, 0>>, <<0, d>>, <<0, -d>>} : d \in {1, 3, 4}}
Places == {<<8, 0>>, <<8, 4>>, <<8, 6>>, <<8, 7>>, <<12, 6>>, <<16, -6>>}
Corner == <<<<18, 10>>>>
=============================================================================
