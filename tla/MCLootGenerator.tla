-------------------------- MODULE MCLootGenerator --------------------------
(* LootGenerator with the parameters of config.json: loot with probability *)
(* 0.5 in a base interval of 5 s.  One unit of time is 100 ms, a tick.     *)
EXTENDS LootGenerator, Sequences

(* 1000 * (1 - 0.5^(t / 50)), rounded, for t = 0 .. 130: from there on up  *)
(* to three free places are all filled by the next call.                   *)
Table ==
  <<0, 14, 27, 41, 54, 67, 80, 92, 105, 117, 129, 141, 153, 165, 176, 188,
  199, 210, 221, 232, 242, 253, 263, 273, 283, 293, 303, 312, 322, 331,
  340, 349, 358, 367, 376, 384, 393, 401, 410, 418, 426, 434, 441, 449,
  457, 464, 471, 479, 486, 493, 500, 507, 514, 520, 527, 533, 540, 546,
  552, 559, 565, 571, 577, 582, 588, 594, 599, 605, 610, 616, 621, 626,
  631, 637, 642, 646, 651, 656, 661, 666, 670, 675, 679, 684, 688, 692,
  696, 701, 705, 709, 713, 717, 721, 725, 728, 732, 736, 739, 743, 747,
  750, 753, 757, 760, 763, 767, 770, 773, 776, 779, 782, 785, 788, 791,
  794, 797, 800, 802, 805, 808, 811, 813, 816, 818, 821, 823, 826, 828,
  830, 833, 835>>
MCProbability == [t \in 0 .. 130 |-> Table[t + 1]]
=============================================================================
