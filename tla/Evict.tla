------------------------------- MODULE Evict -------------------------------
(***************************************************************************)
(* The bounded-map discipline every map of the correlator follows: a map   *)
(* that an insertion pushed over its cap loses, in one pass, a batch of    *)
(* its oldest entries, and never the entry just inserted.                  *)
(*                                                                         *)
(* A map is represented by the set S of its keys, stamp[k] is the          *)
(* timestamp the caller's extractor reads from the value of k, and rank[k] *)
(* is k's place in the order of keys that breaks timestamp ties.           *)
(***************************************************************************)
EXTENDS Integers, FiniteSets

EVICT_BATCH_DIVISOR == 10

MaxOf(a, b) == IF a >= b THEN a ELSE b
MinOf(a, b) == IF a <= b THEN a ELSE b
SatSub(a, b) == IF a >= b THEN a - b ELSE 0

(* How many entries one pass reclaims: the excess, or the batch if larger. *)
BatchOnly(len, cap) == cap \div EVICT_BATCH_DIVISOR    \* a fault: 0 for a small cap
EvictTarget(len, cap) ==
    MaxOf(MaxOf(SatSub(len, cap), cap \div EVICT_BATCH_DIVISOR), 1)

(* The composite order (timestamp, key) of the selection. *)
Older(stamp, rank, a, b) ==
    \/ stamp[a] < stamp[b]
    \/ stamp[a] = stamp[b] /\ rank[a] < rank[b]

(* The sets of n oldest members of S outside keep: one set when rank is    *)
(* injective, all of S \ keep when n exceeds its size.                     *)
OldestKeys(S, n, stamp, rank, keep) ==
    LET pool == S \ keep
    IN  { V \in SUBSET pool :
            /\ Cardinality(V) = MinOf(n, Cardinality(pool))
            /\ \A v \in V, w \in pool \ V : Older(stamp, rank, v, w) }

(* What an insertion evicts from a map whose keys are now S. *)
Victims(S, cap, stamp, rank, keep) ==
    IF Cardinality(S) > cap
    THEN OldestKeys(S, EvictTarget(Cardinality(S), cap), stamp, rank, keep)
    ELSE {{}}
=============================================================================
