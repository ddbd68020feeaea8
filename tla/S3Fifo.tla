-------------------------------- MODULE S3Fifo --------------------------------
(***************************************************************************)
(* s3fifo.rs: S3-FIFO with lazy deletion. A slot of a queue is a key and   *)
(* the epoch of its push; the slot is live when the entry of the key names *)
(* this queue and this epoch. Stale slots are skipped and compacted later. *)
(***************************************************************************)
EXTENDS Subsequence, SequencesExt, FiniteSetsExt

CONSTANTS
    FifoCap,              \* capacity, at least 1
    S_DIVISOR,            \* 1 / S_FRACTION
    FREQ_MAX,
    S_PROMOTE_MIN_FREQ,
    SLACK                 \* stale slots tolerated before a queue is compacted

s_target == Max({FifoCap \div S_DIVISOR, 1})

FifoNew == [entries |-> <<>>, s |-> <<>>, m |-> <<>>, s_len |-> 0, m_len |-> 0,
            ghost |-> <<>>, ghost_q |-> <<>>]

Slot(k, n) == [key |-> k, seq |-> n]
Without(f, k) == [x \in DOMAIN f \ {k} |-> f[x]]
With(f, k, v) == [x \in DOMAIN f \cup {k} |-> IF x = k THEN v ELSE f[x]]

(* bump_seq: an epoch is only compared with those of the same key, so the *)
(* least that no slot of the key carries will do.                          *)
BumpSeq(f, k) ==
    LET used == { x.seq : x \in { y \in Range(f.s \o f.m \o f.ghost_q) : y.key = k } }
    IN  Min(0 .. Cardinality(used) \ used)

SlotLiveByKey(f, slot, in_m) ==               \* a fault: the epoch is not looked at
    slot.key \in DOMAIN f.entries /\ f.entries[slot.key].in_m = in_m
SlotLive(f, slot, in_m) ==
    slot.key \in DOMAIN f.entries
    /\ f.entries[slot.key].in_m = in_m /\ f.entries[slot.key].seq = slot.seq
GhostLive(f, slot) == slot.key \in DOMAIN f.ghost /\ f.ghost[slot.key] = slot.seq

LiveS(f) == Kept(f.s, { i \in DOMAIN f.s : SlotLive(f, f.s[i], FALSE) })
LiveM(f) == Kept(f.m, { i \in DOMAIN f.m : SlotLive(f, f.m[i], TRUE) })
LiveG(f) == Kept(f.ghost_q, { i \in DOMAIN f.ghost_q : GhostLive(f, f.ghost_q[i]) })

(* pop_live: what is behind the first live slot.                           *)
After(q, live(_)) ==
    LET i == SelectInSeq(q, live) IN IF i = 0 THEN <<>> ELSE SubSeq(q, i + 1, Len(q))
AfterLiveS(f) == After(f.s, LAMBDA x : SlotLive(f, x, FALSE))
AfterLiveM(f) == After(f.m, LAMBDA x : SlotLive(f, x, TRUE))

Stale(q, live) == Len(q) > 2 * live + SLACK
CompactGhostQ(f) ==
    IF Stale(f.ghost_q, Cardinality(DOMAIN f.ghost)) THEN [f EXCEPT !.ghost_q = LiveG(f)] ELSE f
MaybeCompact(f) ==
    CompactGhostQ([f EXCEPT !.s = IF Stale(@, f.s_len) THEN LiveS(f) ELSE @,
                            !.m = IF Stale(@, f.m_len) THEN LiveM(f) ELSE @])

(* ghost_add: a fresh epoch, then the oldest live ghost over the bound.    *)
TrimGhosts(f) ==
    IF Cardinality(DOMAIN f.ghost) <= FifoCap THEN f
    ELSE [f EXCEPT !.ghost = Without(@, Head(LiveG(f)).key),
                   !.ghost_q = After(@, LAMBDA x : GhostLive(f, x))]
GhostAdd(f, k) ==
    LET n == BumpSeq(f, k)
    IN  CompactGhostQ(TrimGhosts([f EXCEPT !.ghost = With(@, k, n), !.ghost_q = Append(@, Slot(k, n))]))

Moved(f, k, freq) ==
    LET n == BumpSeq(f, k)
    IN  [f EXCEPT !.entries[k] = [freq |-> freq, in_m |-> TRUE, seq |-> n], !.m = Append(@, Slot(k, n))]

(* evict_s and evict_m: TRUE when a key has left the cache.                *)
EvictS(f) ==
    LET k == Head(LiveS(f)).key
        popped == [f EXCEPT !.s = AfterLiveS(f), !.s_len = @ - 1]
    IN  IF f.entries[k].freq >= S_PROMOTE_MIN_FREQ
        THEN <<FALSE, [Moved(popped, k, 0) EXCEPT !.m_len = @ + 1]>>
        ELSE <<TRUE, GhostAdd([popped EXCEPT !.entries = Without(@, k)], k)>>
EvictM(f) ==
    LET k == Head(LiveM(f)).key
        popped == [f EXCEPT !.m = AfterLiveM(f)]
    IN  IF f.entries[k].freq > 0
        THEN <<FALSE, Moved(popped, k, f.entries[k].freq - 1)>>
        ELSE <<TRUE, [popped EXCEPT !.entries = Without(@, k), !.m_len = @ - 1]>>

FromS(f) == f.s_len > 0 /\ (f.s_len >= s_target \/ f.m_len = 0)

(* evict_one; a counter that promises a slot its queue does not hold ends  *)
(* it without a victim, and insert would try for ever.                     *)
EvictStep(f) ==
    CASE (IF FromS(f) THEN LiveS(f) ELSE LiveM(f)) = <<>> -> <<TRUE, [f EXCEPT !.s_len = 0, !.m_len = 0]>>
      [] FromS(f) /\ LiveS(f) # <<>> -> EvictS(f)
      [] OTHER -> EvictM(f)
Rounds == FifoCap * FREQ_MAX + 1              \* a promotion and a second chance cost a counted hit
EvictOne(f) ==
    LET after[i \in 0 .. Rounds] ==
            IF i = 0 THEN <<FALSE, f>>
            ELSE LET c == after[i - 1] IN IF c[1] THEN c ELSE EvictStep(c[2])
    IN  after[Rounds][2]

Insert(f, k) ==
    LET room == IF f.s_len + f.m_len >= FifoCap THEN EvictOne(f) ELSE f
        n == BumpSeq(room, k)
        seen == k \in DOMAIN room.ghost
        entered == [room EXCEPT !.ghost = Without(@, k),
                                !.entries = With(@, k, [freq |-> 0, in_m |-> seen, seq |-> n])]
    IN  IF seen THEN [entered EXCEPT !.m = Append(@, Slot(k, n)), !.m_len = @ + 1]
                ELSE [entered EXCEPT !.s = Append(@, Slot(k, n)), !.s_len = @ + 1]

FifoHit(f, k) == k \in DOMAIN f.entries

FifoAccess(f, k) ==
    IF FifoHit(f, k) THEN [f EXCEPT !.entries[k].freq = Min({@ + 1, FREQ_MAX})] ELSE Insert(f, k)

FifoInvalidate(f, k) ==
    LET gone == IF k \notin DOMAIN f.entries THEN f
                ELSE IF f.entries[k].in_m THEN [f EXCEPT !.m_len = @ - 1] ELSE [f EXCEPT !.s_len = @ - 1]
    IN  MaybeCompact([gone EXCEPT !.entries = Without(@, k), !.ghost = Without(@, k)])

(* Each resident key has one live slot, in the queue its entry names, and  *)
(* the counters count them.                                                *)
FifoBounded(f) ==
    /\ f.s_len = Len(LiveS(f)) /\ f.m_len = Len(LiveM(f))
    /\ f.s_len + f.m_len = Cardinality(DOMAIN f.entries) /\ f.s_len + f.m_len <= FifoCap
    /\ IsInjective(LiveS(f)) /\ IsInjective(LiveM(f))
    /\ Len(LiveG(f)) = Cardinality(DOMAIN f.ghost) /\ Len(LiveG(f)) <= FifoCap
    /\ DOMAIN f.ghost \cap DOMAIN f.entries = {}
=============================================================================
