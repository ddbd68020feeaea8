---------------------------- MODULE SampleSeries ----------------------------
(* What the doctor reads from the in-flight samples of the connections:     *)
(* loss, throughput, aggregate rate, queueing.                              *)
EXTENDS Records

CONSTANTS
    MIN_DIRECTIONAL_BYTES,   \* less says nothing about a direction
    MIN_TS_INTERVALS,        \* fewer rates cannot be localised
    AGG_BUCKET,              \* the length of an aggregation bucket
    AGG_MIN_COVER,           \* a bucket covered for less has no rate
    AGG_MAX_SPAN             \* an interval over more buckets is dropped

Monus(a, b) == IF a >= b THEN a - b ELSE 0

Series(samples, cookie) ==           \* a stable sort by time stamp
    LET own   == SelectSeq(samples, LAMBDA s : s.cookie = cookie)
        order == SortSeq([i \in DOMAIN own |-> i], LAMBDA i, j :
                     \/ own[i].ts < own[j].ts
                     \/ own[i].ts = own[j].ts /\ i < j)
    IN  [i \in DOMAIN order |-> own[order[i]]]

(* The counters of a reused cookie start again: a segment is one socket.    *)
Restarted(a, b) == b.recv < a.recv \/ b.sent < a.sent
ts_segments(series) ==
    LET starts == SetToSortSeq({i \in DOMAIN series :
                      i = 1 \/ Restarted(series[i - 1], series[i])}, <)
        End(k) == IF k = Len(starts) THEN Len(series) ELSE starts[k + 1] - 1
    IN  [k \in DOMAIN starts |-> SubSeq(series, starts[k], End(k))]
Segments(samples) ==
    LET cookies == SetToSortSeq({samples[i].cookie : i \in DOMAIN samples}, <)
    IN  FlattenSeq([k \in DOMAIN cookies |->
            ts_segments(Series(samples, cookies[k]))])

Growth(seg, F(_)) == Monus(F(seg[Len(seg)]), F(seg[1]))
Sent(s)    == s.sent
Recv(s)    == s.recv
Retrans(s) == s.rtx

sample_send_deltas(samples) ==
    LET segs  == Segments(samples)
        moved == SelectSeq(segs, LAMBDA g :
                     Growth(g, Sent) > 0 \/ Growth(g, Retrans) > 0)
    IN  [sent    |-> Total([k \in DOMAIN segs |-> Growth(segs[k], Sent)]),
         rtx     |-> Total([k \in DOMAIN segs |-> Growth(segs[k], Retrans)]),
         streams |-> Cardinality({moved[k][1].cookie : k \in DOMAIN moved})]

seg_direction(seg) ==
    LET last == seg[Len(seg)]
    IN  CASE last.sent > last.recv /\ last.sent >= MIN_DIRECTIONAL_BYTES
               -> "up"
          [] last.recv > last.sent /\ last.recv >= MIN_DIRECTIONAL_BYTES
               -> "down"
          [] OTHER -> None

-----------------------------------------------------------------------------
(* The rate of one segment: a download's from its bytes, an upload's as the *)
(* kernel reports it. Times are doubled, so that midpoints are whole.       *)
Steps(seg)   == {i \in 1 .. Len(seg) - 1 : seg[i + 1].ts > seg[i].ts}
Midpoint(seg, i) == seg[i].ts + seg[i + 1].ts - 2 * seg[1].ts
Rates(seg) ==
    IF seg_direction(seg) = "down"
    THEN LET steps == SetToSortSeq(Steps(seg), <)
         IN  [k \in DOMAIN steps |->
                LET i == steps[k]
                IN  [t |-> Midpoint(seg, i),
                     r |-> (seg[i + 1].recv - seg[i].recv)
                               \div (seg[i + 1].ts - seg[i].ts)]]
    ELSE FilterMap(LAMBDA s : IF s.rate = None THEN None
                              ELSE [t |-> 2 * (s.ts - seg[1].ts),
                                    r |-> s.rate], seg)

robust_peak(rs) ==
    IF Len(rs) < 3 THEN Largest(rs)
    ELSE Max({(rs[i] + rs[i + 1] + rs[i + 2]) \div 3 : i \in 1 .. Len(rs) - 2})

NotIdle(r, peak) == 20 * r >= peak

LossOf(seg, i) ==
    IF seg_direction(seg) = "down" THEN Monus(seg[i + 1].ooo, seg[i].ooo)
    ELSE Monus(seg[i + 1].rtx, seg[i].rtx)

(* The events of the active window; its thirds are only worded.             *)
LossWithin(seg, rates, peak) ==
    LET active == SelectSeq(rates, LAMBDA x : NotIdle(x.r, peak))
        s == active[1].t
        e == active[Len(active)].t
        inside == {i \in 1 .. Len(seg) - 1 :
                      Midpoint(seg, i) >= s /\ Midpoint(seg, i) <= e}
    IN  IF Len(rates) < MIN_TS_INTERVALS \/ active = <<>> \/ peak = 0
           \/ (active # <<>> /\ e <= s)
        THEN 0
        ELSE FoldSet(LAMBDA i, n : n + LossOf(seg, i), 0, inside)

Throughput(seg, rates, rs, peak) ==
    LET active == SelectSeq(rs, LAMBDA r : NotIdle(r, peak))
    IN  [dir       |-> seg_direction(seg),
         sustained |-> IF active = <<>> THEN peak ELSE median(active),
         loss      |-> LossWithin(seg, rates, peak)]
throughput_of_rates(seg, rates) ==
    LET rs == [k \in DOMAIN rates |-> rates[k].r]
    IN  IF seg_direction(seg) = None \/ rates = <<>> THEN None
        ELSE Throughput(seg, rates, rs, robust_peak(rs))
throughput_of_segment(seg) == throughput_of_rates(seg, Rates(seg))

bufferbloat_of_segment(seg) ==
    LET floors == FilterMap(LAMBDA s : Rtt(s.minrtt), seg)
        srtts  == FilterMap(LAMBDA s : Rtt(s.srtt), seg)
    IN  IF floors = <<>> \/ srtts = <<>> THEN None
        ELSE Ratio(Largest(srtts), Smallest(floors))

-----------------------------------------------------------------------------
(* The aggregate: every interval is split over the buckets it touches.      *)
BucketOf(t) == t \div AGG_BUCKET
Overrun(hi, tb) == hi            \* a fault: the last bucket is not clipped
Clipped(hi, tb) == Min({hi, tb})

add_interval(cookie, bytes, ta, tb) ==
    LET touched == BucketOf(ta) .. BucketOf(tb - 1)
    IN  IF BucketOf(tb - 1) - BucketOf(ta) >= AGG_MAX_SPAN THEN {}
        ELSE {LET lo == Max({ta, bk * AGG_BUCKET})
                  hi == Clipped((bk + 1) * AGG_BUCKET, tb)
              IN  [bucket |-> bk, cookie |-> cookie, lo |-> lo, hi |-> hi,
                   bytes  |-> (bytes * (hi - lo)) \div (tb - ta)]
              : bk \in touched}

Flow(dir, s) == IF dir = "down" THEN s.recv ELSE s.sent
Shares(samples, dir) ==              \* each is of one interval and bucket
    LET segs == SelectSeq(Segments(samples),
                          LAMBDA g : seg_direction(g) = dir)
    IN  UNION {UNION {add_interval(g[i].cookie,
                          Flow(dir, g[i + 1]) - Flow(dir, g[i]),
                          g[i].ts, g[i + 1].ts) : i \in Steps(g)}
               : g \in Range(segs)}
Bytes(shares) == FoldSet(LAMBDA x, n : n + x.bytes, 0, shares)

agg_from_buckets(shares) ==
    LET Of(bk)    == {x \in shares : x.bucket = bk}
        Cover(bk) == Max({x.hi : x \in Of(bk)}) - Min({x.lo : x \in Of(bk)})
        covered   == {bk \in {x.bucket : x \in shares} :
                         Cover(bk) >= AGG_MIN_COVER}
    IN  IF covered = {} THEN None
        ELSE [peak |-> Max({Bytes(Of(bk)) \div Cover(bk) : bk \in covered}),
              cookies |-> Max({Cardinality({x.cookie : x \in Of(bk)})
                               : bk \in covered})]
=============================================================================
