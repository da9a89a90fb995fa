----------------------------- MODULE LootLedger -----------------------------
(***************************************************************************)
(* What a game session promises about lost things, without dogs, roads,    *)
(* ticks or loops.  A loot appears on the map with a fresh identifier, is  *)
(* picked up by one player, and is finally handed to an office, once, for  *)
(* the number of points its type is worth.  Nothing else may ever happen   *)
(* to it, and nothing else changes a score.                                *)
(***************************************************************************)
EXTENDS Naturals

CONSTANTS Names,      \* the players
          LootTypes,  \* indices into the map's array of loot types
          LootScore   \* LootScore[t]: points for a loot of type t

VARIABLES spawned,    \* how many loots have appeared so far
          onMap,      \* the loots lying on the map
          carried,    \* carried[p]: the loots of p not yet paid for
          delivered,  \* the identifiers of the loots that were paid for
          points      \* points[p]: what p earned

ledgerVars == <<spawned, onMap, carried, delivered, points>>

Ids(loots) == {l.id : l \in loots}

LedgerInit ==
  /\ spawned = 0
  /\ onMap = {}
  /\ carried = [p \in Names |-> {}]
  /\ delivered = {}
  /\ points = [p \in Names |-> 0]

(* A new loot appears under the next identifier. *)
Appear(t) ==
  /\ spawned' = spawned + 1
  /\ onMap' = onMap \union {[id |-> spawned, type |-> t]}
  /\ UNCHANGED <<carried, delivered, points>>

(* Player p takes loot l off the map. *)
PickUp(p, l) ==
  /\ onMap' = onMap \ {l}
  /\ carried' = [carried EXCEPT ![p] = @ \union {l}]
  /\ UNCHANGED <<spawned, delivered, points>>

(* Player p is paid for the carried loot l, which leaves the game. *)
HandIn(p, l) ==
  /\ carried' = [carried EXCEPT ![p] = @ \ {l}]
  /\ delivered' = delivered \union {l.id}
  /\ points' = [points EXCEPT ![p] = @ + LootScore[l.type]]
  /\ UNCHANGED <<spawned, onMap>>

LedgerNext ==
  \/ \E t \in LootTypes : Appear(t)
  \/ \E p \in Names : \E l \in onMap : PickUp(p, l)
  \/ \E p \in Names : \E l \in carried[p] : HandIn(p, l)

LedgerSpec == LedgerInit /\ [][LedgerNext]_ledgerVars
=============================================================================
