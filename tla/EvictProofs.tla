---------------------------- MODULE EvictProofs ----------------------------
(***************************************************************************)
(* What one eviction pass guarantees, for every map, cap and stamp.        *)
(***************************************************************************)
EXTENDS Evict, FiniteSetTheorems, TLAPS

(* A pass takes entries of the map, and never the kept one: oldest_keys    *)
(* filters the keys through `keep` before it selects.                      *)
LEMMA VictimsSpareKeep ==
    ASSUME NEW S, NEW cap, NEW stamp, NEW rank, NEW keep,
           NEW V \in Victims(S, cap, stamp, rank, keep)
    PROVE  V \subseteq S \ keep
  BY DEF Victims, OldestKeys

(* The target covers the excess. *)
LEMMA EvictTargetCovers ==
    ASSUME NEW len \in Nat, NEW cap \in Nat, len > cap
    PROVE  /\ EvictTarget(len, cap) \in Nat
           /\ EvictTarget(len, cap) >= len - cap
<1>1. cap \div EVICT_BATCH_DIVISOR \in Nat
  BY DEF EVICT_BATCH_DIVISOR
<1>2. SatSub(len, cap) = len - cap
  BY DEF SatSub
<1> QED
  BY <1>1, <1>2 DEF EvictTarget, MaxOf

(* After a pass the map is within its cap again, however far over it was   *)
(* and even though one entry may not be taken: the cap is at least one.    *)
THEOREM VictimsRestoreCap ==
    ASSUME NEW S, IsFiniteSet(S), NEW cap \in Nat \ {0}, NEW stamp, NEW rank,
           NEW k, NEW V \in Victims(S, cap, stamp, rank, {k})
    PROVE  Cardinality(S \ V) <= cap
<1>1. V \subseteq S \ {k}
  BY VictimsSpareKeep
<1>2. /\ IsFiniteSet(V) /\ Cardinality(V) \in Nat
      /\ IsFiniteSet(S \ {k}) /\ Cardinality(S \ {k}) \in Nat
      /\ Cardinality(S) \in Nat
  BY <1>1, FS_Subset, FS_CardinalityType
<1>3. Cardinality(S \ {k}) >= Cardinality(S) - 1
  BY <1>2, FS_RemoveElement, FS_Subset
<1>4. Cardinality(S \ V) = Cardinality(S) - Cardinality(V)
  <2>1. S \cap V = V
    BY <1>1
  <2> QED
    BY <2>1, <1>2, FS_Difference
<1>5. CASE Cardinality(S) > cap
  <2>1. Cardinality(V) = MinOf(EvictTarget(Cardinality(S), cap), Cardinality(S \ {k}))
    BY <1>5 DEF Victims, OldestKeys
  <2>2. Cardinality(V) >= Cardinality(S) - cap
    BY <2>1, <1>2, <1>3, <1>5, EvictTargetCovers DEF MinOf
  <2> QED
    BY <2>2, <1>2, <1>4
<1>6. CASE ~(Cardinality(S) > cap)
  <2>1. V = {}
    BY <1>6 DEF Victims
  <2> QED
    BY <2>1, <1>2, <1>6
<1> QED
  BY <1>5, <1>6
=============================================================================
