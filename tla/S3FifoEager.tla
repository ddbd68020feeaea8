---------------------------- MODULE S3FifoEager ----------------------------
(***************************************************************************)
(* S3-FIFO as published: three queues of keys, from which a written object *)
(* disappears at once. What S3Fifo, with its lazy deletion, promises.      *)
(***************************************************************************)
EXTENDS Subsequence, SequencesExt

CONSTANTS Keys, cap, s_target, FREQ_MAX, S_PROMOTE_MIN_FREQ

VARIABLES
    s, m,      \* the small and the main queue
    g,         \* the ghosts, oldest first
    freq       \* resident key -> its counter

Init == s = <<>> /\ m = <<>> /\ g = <<>> /\ freq = <<>>

Without(q, k) == Kept(q, { i \in DOMAIN q : q[i] # k })
Drop(f, k) == [x \in DOMAIN f \ {k} |-> f[x]]
Set(f, k, n) == [x \in DOMAIN f \cup {k} |-> IF x = k THEN n ELSE f[x]]
Ghosted(q, k) ==
    LET aged == Append(Without(q, k), k)
    IN  IF Len(aged) > cap THEN Tail(aged) ELSE aged

(* One eviction: promotions and second chances until a key has gone.       *)
Moved(c) ==
    IF c.s # <<>> /\ (Len(c.s) >= s_target \/ c.m = <<>>)
    THEN LET k == Head(c.s) IN
         IF c.freq[k] >= S_PROMOTE_MIN_FREQ
         THEN <<FALSE, [c EXCEPT !.s = Tail(@), !.m = Append(@, k), !.freq[k] = 0]>>
         ELSE <<TRUE, [c EXCEPT !.s = Tail(@), !.freq = Drop(@, k), !.g = Ghosted(@, k)]>>
    ELSE LET k == Head(c.m) IN
         IF c.freq[k] > 0
         THEN <<FALSE, [c EXCEPT !.m = Append(Tail(@), k), !.freq[k] = @ - 1]>>
         ELSE <<TRUE, [c EXCEPT !.m = Tail(@), !.freq = Drop(@, k)]>>
Evicted(c) ==
    LET after[i \in 0 .. cap * FREQ_MAX + 1] ==
            IF i = 0 THEN <<FALSE, c>>
            ELSE LET d == after[i - 1] IN IF d[1] THEN d ELSE Moved(d[2])
    IN  after[cap * FREQ_MAX + 1][2]

Room == LET now == [s |-> s, m |-> m, g |-> g, freq |-> freq]
        IN  IF Len(s) + Len(m) >= cap THEN Evicted(now) ELSE now

Hit(k) ==
    /\ k \in DOMAIN freq
    /\ freq' = [freq EXCEPT ![k] = IF @ < FREQ_MAX THEN @ + 1 ELSE @]
    /\ UNCHANGED <<s, m, g>>

Miss(k) ==
    /\ k \notin DOMAIN freq
    /\ LET c == Room IN
       /\ g' = Without(c.g, k)
       /\ freq' = Set(c.freq, k, 0)
       /\ IF k \in Range(c.g) THEN s' = c.s /\ m' = Append(c.m, k)
                              ELSE s' = Append(c.s, k) /\ m' = c.m

Invalidate(k) ==
    /\ s' = Without(s, k) /\ m' = Without(m, k) /\ g' = Without(g, k)
    /\ freq' = Drop(freq, k)

Next == \E k \in Keys : Hit(k) \/ Miss(k) \/ Invalidate(k)

Spec == Init /\ [][Next]_<<s, m, g, freq>>
=============================================================================
