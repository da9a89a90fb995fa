------------------------ MODULE LootGeneratorProofs ------------------------
(***************************************************************************)
(* Theorems about the loot generator, for any table of probabilities and   *)
(* any number of looters.                                                  *)
(***************************************************************************)
EXTENDS LootGenerator, TLAPS

(* A rounded share of n that is at most the whole is at most n. *)
LEMMA RoundedShare ==
  ASSUME NEW n \in Nat, NEW b \in Nat \ {0}, NEW p \in 0 .. b
  PROVE  Rounded(n * p, b) \in 0 .. n
<1> DEFINE a == n * p
           q == (2 * a + b) \div (2 * b)
<1>1. a \in Nat /\ a <= n * b
  OBVIOUS
<1> HIDE DEF a
<1>2. /\ 2 * a + b \in Nat
      /\ 2 * b \in Nat \ {0}
  BY <1>1
<1>3. /\ q \in Nat
      /\ (2 * b) * q <= 2 * a + b
  BY <1>2
<1> HIDE DEF q
<1>4. ASSUME q >= n + 1
      PROVE  FALSE
  <2>1. (2 * b) * q >= (2 * b) * (n + 1)
    BY <1>2, <1>3, <1>4
  <2>2. (2 * b) * (n + 1) = 2 * (n * b) + 2 * b
    OBVIOUS
  <2>3. n * b \in Nat
    OBVIOUS
  <2> QED BY <1>1, <1>3, <2>1, <2>2, <2>3
<1>5. q <= n
  BY <1>3, <1>4
<1> QED BY <1>3, <1>5 DEF Rounded, q, a

LEMMA GeneratedWithinShortage ==
  ASSUME GeneratorAssumption, TypeOK, NEW d \in Deltas
  PROVE  /\ loot_shortage \in Nat
         /\ generated_loot(d) \in 0 .. loot_shortage
<1>1. loot_shortage \in Nat
  BY DEF TypeOK, loot_shortage, GeneratorAssumption
<1>2. Elapsed(d) \in 0 .. Horizon
  BY DEF TypeOK, Elapsed, GeneratorAssumption
<1>3. Probability[Elapsed(d)] \in 0 .. Scale /\ Scale \in Nat \ {0}
  BY <1>2 DEF GeneratorAssumption
<1> QED BY <1>1, <1>3, RoundedShare DEF generated_loot

LootInv == TypeOK /\ LootWithinLooters

LEMMA LootStep ==
  ASSUME GeneratorAssumption, LootInv, [Next]_vars
  PROVE  LootInv'
<1>1. ASSUME NEW d \in Deltas, Generate(d)
      PROVE  LootInv'
  <2>1. PICK g \in 0 .. loot_shortage : g = generated_loot(d)
    BY GeneratedWithinShortage DEF LootInv
  <2>2. loot_shortage = looter_count - loot_count
    BY DEF LootInv, TypeOK, LootWithinLooters, loot_shortage, GeneratorAssumption
  <2>3. Elapsed(d) \in 0 .. Horizon
    BY DEF LootInv, TypeOK, Elapsed, GeneratorAssumption
  <2>4. time_without_loot' \in 0 .. Horizon
    BY <1>1, <2>3 DEF Generate, GeneratorAssumption
  <2>5. loot_count' = loot_count + g /\ looter_count' = looter_count
    BY <1>1, <2>1 DEF Generate
  <2>6. loot_count' \in Nat /\ loot_count' <= looter_count'
    BY <2>1, <2>2, <2>5 DEF LootInv, TypeOK, GeneratorAssumption
  <2> QED BY <2>4, <2>5, <2>6 DEF LootInv, TypeOK, LootWithinLooters
<1>2. CASE Join
  BY <1>2 DEF Join, LootInv, TypeOK, LootWithinLooters, GeneratorAssumption
<1>3. CASE PickUp
  BY <1>3 DEF PickUp, LootInv, TypeOK, LootWithinLooters, GeneratorAssumption
<1>4. CASE UNCHANGED vars
  BY <1>4 DEF vars, LootInv, TypeOK, LootWithinLooters
<1> QED BY <1>1, <1>2, <1>3, <1>4 DEF Next, Tick

LEMMA LootInit ==
  ASSUME GeneratorAssumption, Init
  PROVE  LootInv
BY DEF Init, LootInv, TypeOK, LootWithinLooters, GeneratorAssumption

LEMMA LootInvariant == Spec => []LootInv
<1>1. Init => LootInv
  BY GeneratorAssumption, LootInit
<1>2. LootInv /\ [Next]_vars => LootInv'
  BY GeneratorAssumption, LootStep
<1> QED BY <1>1, <1>2, PTL DEF Spec

(* Whatever the probabilities, however many join and however loot is       *)
(* picked up, there is never more loot than looters.                       *)
THEOREM LootNeverBeyondLooters == Spec => []LootWithinLooters
<1>1. LootInv => LootWithinLooters  BY DEF LootInv
<1> QED BY <1>1, LootInvariant, PTL

(* TypeOK: the time without loot is never negative nor beyond the table of *)
(* probabilities, and the count of loots, which a call adds to, not less   *)
(* than zero.                                                              *)
THEOREM LootTypes == Spec => []TypeOK
<1>1. LootInv => TypeOK  BY DEF LootInv
<1> QED BY <1>1, LootInvariant, PTL

(* In the base interval loot is at least as likely to appear as not.       *)
LikelyInBase ==
  \A t \in 0 .. Horizon : t >= BaseInterval => 2 * Probability[t] >= Scale

(* At least half of a share of at least one is rounded to at least one. *)
LEMMA RoundedHalf ==
  ASSUME NEW n \in Nat \ {0}, NEW b \in Nat \ {0}, NEW p \in 0 .. b, 2 * p >= b
  PROVE  Rounded(n * p, b) >= 1
<1> DEFINE a == n * p
           q == (2 * a + b) \div (2 * b)
<1>1. a \in Nat /\ a >= p
  OBVIOUS
<1> HIDE DEF a
<1>2. 2 * a + b \in Nat /\ 2 * a + b >= 2 * b
  BY <1>1
<1>3. q \in Int /\ 2 * a + b < (2 * b) * (q + 1)
  BY <1>2
<1> HIDE DEF q
<1>4. ASSUME q <= 0
      PROVE  FALSE
  <2>1. (2 * b) * (q + 1) <= 2 * b
    BY <1>3, <1>4
  <2>2. (2 * b) * (q + 1) \in Int
    BY <1>3
  <2> QED BY <1>2, <1>3, <2>1, <2>2
<1>5. q >= 1
  BY <1>3, <1>4
<1> QED BY <1>5 DEF Rounded, q, a

(* A free place waits less than the base interval, whenever loot is at     *)
(* least as likely as not to appear in it.                                 *)
THEOREM FreePlaceWaitsLessThanBase ==
  ASSUME LikelyInBase
  PROVE  Spec => WaitShorterThanBase
<1>1. ASSUME LootInv, NEW d \in Deltas, Generate(d), loot_count < looter_count,
             loot_count' = loot_count
      PROVE  time_without_loot' < BaseInterval
  <2>1. /\ loot_shortage \in Nat \ {0}
        /\ loot_count \in Nat
    BY <1>1, GeneratorAssumption
       DEF LootInv, TypeOK, loot_shortage, GeneratorAssumption
  <2>2. generated_loot(d) = 0
    <3>1. PICK g \in 0 .. loot_shortage : g = generated_loot(d)
      BY <1>1, GeneratorAssumption, GeneratedWithinShortage DEF LootInv
    <3>2. loot_count = loot_count + g
      BY <1>1, <3>1 DEF Generate
    <3> QED BY <2>1, <3>1, <3>2
  <2>3. Elapsed(d) \in 0 .. Horizon
    BY <1>1, GeneratorAssumption DEF LootInv, TypeOK, Elapsed, GeneratorAssumption
  <2>4. time_without_loot' = Elapsed(d)
    BY <1>1, <2>2 DEF Generate
  <2>5. Probability[Elapsed(d)] \in 0 .. Scale /\ Scale \in Nat \ {0}
    BY <2>3, GeneratorAssumption DEF GeneratorAssumption
  <2>6. ASSUME Elapsed(d) >= BaseInterval
        PROVE  FALSE
    <3>1. 2 * Probability[Elapsed(d)] >= Scale
      BY <2>3, <2>6 DEF LikelyInBase
    <3>2. generated_loot(d) >= 1
      BY <2>1, <2>5, <3>1, RoundedHalf DEF generated_loot
    <3> QED BY <2>2, <3>2
  <2> QED BY <2>3, <2>4, <2>6, GeneratorAssumption DEF GeneratorAssumption
<1>2. LootInv =>
        [Tick /\ loot_count < looter_count /\ loot_count' = loot_count
           => time_without_loot' < BaseInterval]_vars
  BY <1>1 DEF Tick
<1>3. Init => LootInv
  BY GeneratorAssumption, LootInit
<1>4. LootInv /\ [Next]_vars => LootInv'
  BY GeneratorAssumption, LootStep
<1> QED BY <1>2, <1>3, <1>4, PTL DEF Spec, WaitShorterThanBase
=============================================================================
