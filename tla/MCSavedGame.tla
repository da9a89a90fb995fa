---------------------------- MODULE MCSavedGame ----------------------------
(* SavedGame on two maps with two tokens and one restart.  Names and     *)
(* tokens are only compared with each other, and no property is about      *)
(* liveness, so states that differ by a renaming count once.               *)
EXTENDS SavedGame, TLC

Renamings == Permutations(Maps) \cup Permutations(Names) \cup Permutations(Tokens)
=============================================================================
