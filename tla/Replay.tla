-------------------------------- MODULE Replay --------------------------------
(***************************************************************************)
(* The replays of s3tap-replay whose caches fold over what they hold: the  *)
(* LRU simulator in its three uses, S3-FIFO and the self-tuned pool. One   *)
(* policy and its cache over an endless trace of GETs and writes (PUT and  *)
(* DELETE invalidate alike; HEAD and the rest are no-ops of every replay). *)
(* A predictor is free to name any object.                                 *)
(***************************************************************************)
EXTENDS ReplayTrace, Sequences, FiniteSets, SequencesExt

CONSTANTS
    ObjectsOf, CapOf,     \* policy -> the objects of its trace, its capacity
    Sizes,                \* what a GET may move, in bytes mode
    K_DIVISOR, K_MAX,     \* k_for_cap: the breadth of a prefetch
    UNIT, WASTE_RATE, BURST,  \* the token bucket, in fractions of a token
    S_DIVISOR, FREQ_MAX, S_PROMOTE_MIN_FREQ, SLACK

Policies == {"bytes", "driver", "admission", "s3fifo", "tuned"}

ASSUME ReplayAssumption ==
    /\ ObjectsOf \in [Policies -> SUBSET Objects]
    /\ CapOf \in [Policies -> Nat] /\ CapOf["s3fifo"] # 0
    /\ Sizes \subseteq Nat
    /\ {K_DIVISOR, K_MAX, UNIT, S_DIVISOR, S_PROMOTE_MIN_FREQ} \subseteq Nat \ {0}
    /\ {WASTE_RATE, BURST, FREQ_MAX, SLACK} \subseteq Nat

VARIABLES
    policy,
    cache,
    tokens,               \* run_self_tuned
    due,                  \* prefetches issued, and neither used nor reported dropped
    debt                  \* the most tokens wasted over any stretch of the trace

ledger == <<policy, tokens, due, debt>>
vars == <<cache, ledger>>

Sims == INSTANCE Sim
Pool == INSTANCE AdaptivePool
Queues == INSTANCE S3Fifo WITH FifoCap <- CapOf["s3fifo"]

Slots == CapOf[policy]
Keys == ObjectsOf[policy]

Least(x, y) == IF x < y THEN x ELSE y
Most(x, y) == IF x > y THEN x ELSE y

k_for_cap == Least(Most(Slots \div K_DIVISOR, 1), K_MAX)

Init ==
    /\ policy \in Policies
    /\ cache = CASE policy \in {"bytes", "driver", "admission"} -> Sims!SimNew(Slots)
                 [] policy = "s3fifo" -> Queues!FifoNew
                 [] policy = "tuned" -> Pool!PoolNew(Slots, Most(Slots \div 2, 1))
    /\ tokens = BURST /\ due = 0 /\ debt = 0

-----------------------------------------------------------------------------
(* The demand policies.                                                    *)
DemandSim(c, k, size) ==
    IF Sims!SimHas(c, k) THEN Sims!SimTouch(c, k, size) ELSE Sims!SimInsert(c, k, size, FALSE)

(* replay_bytes: whole objects at the size each GET moved.                 *)
GetBytes(k, size) ==
    /\ policy = "bytes"
    /\ cache' = DemandSim(cache, k, size)
    /\ UNCHANGED ledger

(* eval_admission_caps: a full cache admits what is hotter than its tail.  *)
GetAdmitted(k, hotter) ==
    /\ policy = "admission"
    /\ cache' = IF Sims!SimHas(cache, k) \/ Len(cache.order) < Slots \/ cache.order = <<>> \/ hotter
                THEN DemandSim(cache, k, 1) ELSE cache
    /\ UNCHANGED ledger

GetFifo(k) ==
    /\ policy = "s3fifo"
    /\ cache' = Queues!FifoAccess(cache, k)
    /\ UNCHANGED ledger

(* driver::run and eval_all_caps: query, then prefetch what the predictor  *)
(* ranked first and the cache does not hold.                               *)
Speculated(c, ranked) ==
    LET after[i \in 0 .. Len(ranked)] ==
            IF i = 0 THEN c
            ELSE LET d == after[i - 1]
                 IN  IF Sims!SimHas(d, ranked[i]) THEN d ELSE Sims!SimInsert(d, ranked[i], 1, TRUE)
    IN  after[Len(ranked)]
GetDriven(k, ranked) ==
    /\ policy = "driver"
    /\ cache' = Speculated(DemandSim(cache, k, 1), ranked)
    /\ UNCHANGED ledger

-----------------------------------------------------------------------------
(* run_self_tuned: refill, refund and reward, charge, and last the drops   *)
(* since the GET before.                                                   *)
Refilled(used) == Least(Least(tokens + WASTE_RATE, BURST) + used * UNIT, BURST)
MayIssue(used) == Refilled(used) >= UNIT

GetTuned(k, pid) ==
    /\ policy = "tuned"
    /\ LET used == IF Pool!PFirstUse(cache, k) THEN 1 ELSE 0
           seen == Pool!PAccess(cache, k)
           paid == IF used = 1 THEN Pool!Reward(seen) ELSE seen
           fetched == IF Pool!PHas(cache, k) THEN paid ELSE Pool!PInsert(paid, k, FALSE)
           issued == IF MayIssue(used) /\ pid \notin {None, k} /\ ~Pool!PHas(fetched, pid) THEN 1 ELSE 0
           after == IF issued = 1 THEN Pool!PInsert(fetched, pid, TRUE) ELSE fetched
       IN  /\ tokens' = Refilled(used) - issued * UNIT
           /\ debt' = Most(debt - WASTE_RATE - used * UNIT, 0) + issued * UNIT
           /\ cache' = Pool!Drained(Pool!PenalizeBy(after, after.drops))
           /\ due' = due + issued - used - after.drops
    /\ UNCHANGED policy

-----------------------------------------------------------------------------
Written(k) ==
    CASE policy \in {"bytes", "driver", "admission"} -> Sims!SimInvalidate(cache, k)
      [] policy = "s3fifo" -> Queues!FifoInvalidate(cache, k)
      [] policy = "tuned" -> Pool!PInvalidate(cache, k)

(* The pool of run_self_tuned drains a write's drop at the next GET.       *)
Invalidate(k) ==
    /\ cache' = Written(k)
    /\ UNCHANGED ledger

Predictions == UNION { [1 .. n -> Keys] : n \in 0 .. k_for_cap }

Next == \E k \in Keys :
    \/ \E size \in Sizes : GetBytes(k, size)
    \/ \E hotter \in BOOLEAN : GetAdmitted(k, hotter)
    \/ GetFifo(k)
    \/ \E ranked \in Predictions : GetDriven(k, ranked)
    \/ \E pid \in Keys \cup {None} : GetTuned(k, pid)
    \/ Invalidate(k)

Spec == Init /\ [][Next]_vars

-----------------------------------------------------------------------------
(* PROPERTIES                                                              *)

(* The pool of run_self_tuned: its counter agrees with its segment, every  *)
(* prefetch is used, dropped unused or still held, whichever of a write, a *)
(* trim, an eviction or a hit gets to it first, and over any stretch of    *)
(* the trace no more than the burst and the rate is wasted.                *)
PoolCounted(p) ==
    /\ Len(p.seg) <= p.cap /\ Cardinality(Pool!Ids(p.seg)) = Len(p.seg)
    /\ p.pf_budget \in 1 .. p.budget_max
    /\ p.pf_unused = Pool!Unused(p.seg)
    /\ due = Pool!Unused(p.seg) + p.drops
    /\ debt <= BURST

(* What a cache counts is what it holds, and no more than its capacity:    *)
(* bytes when an entry grows, live slots of queues with stale ones in      *)
(* them, unused prefetches.                                                *)
HeldIsCounted ==
    CASE policy \in {"bytes", "driver", "admission"} -> Sims!SimBounded(cache)
      [] policy = "s3fifo" -> Queues!FifoBounded(cache)
      [] policy = "tuned" -> PoolCounted(cache)

(* s3fifo.rs deletes lazily, and is S3-FIFO as published all the same: the *)
(* live slots of its queues are the queues of S3FifoEager, which forgets a *)
(* written object at once, so a hole costs no eviction and a key that is   *)
(* written and read again takes its place at the tail.                     *)
KeysOf(q) == [i \in DOMAIN q |-> q[i].key]
Fifo == IF policy = "s3fifo" THEN cache ELSE Queues!FifoNew
Eager == INSTANCE S3FifoEager WITH
    Keys <- ObjectsOf["s3fifo"], cap <- CapOf["s3fifo"], s_target <- Queues!s_target,
    s <- KeysOf(Queues!LiveS(Fifo)), m <- KeysOf(Queues!LiveM(Fifo)), g <- KeysOf(Queues!LiveG(Fifo)),
    freq <- [k \in DOMAIN Fifo.entries |-> Fifo.entries[k].freq]
EagerSpec == Eager!Spec
=============================================================================
