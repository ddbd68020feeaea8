------------------------------- MODULE Doctor -------------------------------
(* s3tap doctor: the report over a capture file. A row is judged against    *)
(* the round-trip floor of the path it was measured on, or not at all.      *)
EXTENDS SampleSeries

CONSTANTS
    MIN_TAIL_SAMPLE,      \* fewer latencies have no 95th percentile
    MIN_P99_SAMPLE,       \* nor a 99th
    MIN_REUSE_SAMPLE,     \* fewer operations have no reuse rate
    MIN_JUDGE_SAMPLE,     \* fewer latencies of a class are not called good
    MIN_RATE_SEGMENTS,    \* fewer segments have no loss rate
    TCP_MSS_BYTES

FAR         == 100        \* tenths of a millisecond
SPREAD      == 5          \* the fastest path to the slowest

Row(id, mark, value, unit) ==
    [id |-> id, op |-> None, mark |-> mark, value |-> value, unit |-> unit,
     rel |-> FALSE, ratio |-> None, baseline |-> None, perop |-> FALSE,
     pop |-> None]
OptRow(value, row) == IF value = None THEN {} ELSE {row}
NaRow(id, v) == [Row(id, "Na", v, "Ms") EXCEPT !.rel = TRUE]

-----------------------------------------------------------------------------
(* The floor of an operation: its own connection's, its region's, else the  *)
(* pooled one, unless the capture spans two paths.                          *)
conn_floor(c) == IF Live(c.srtt) THEN c.srtt ELSE Rtt(c.minrtt)

Owner(conns, cookie) ==        \* a cookie used twice names no connection
    LET own == SelectSeq(conns, LAMBDA c : c.cookie = cookie)
    IN  IF Len(own) = 1 THEN own[1] ELSE None
LastOwner(conns, cookie) ==    \* a fault: the last record wins
    LET own == SelectSeq(conns, LAMBDA c : c.cookie = cookie)
    IN  IF own # <<>> THEN own[Len(own)] ELSE None
conn_by_cookie(conns, cookie) == Owner(conns, cookie)

region_floor(conns, region) ==
    median(FilterMap(conn_floor, SelectSeq(conns,
               LAMBDA c : c.region = region)))

floor_for(o, conns, mixed, pooled) ==
    LET c      == conn_by_cookie(conns, o.cookie)
        joined == CASE c = None              -> None
                    [] conn_floor(c) # None  -> conn_floor(c)
                    [] c.region = None       -> None
                    [] OTHER                 -> region_floor(conns, c.region)
    IN  CASE joined # None -> joined
          [] mixed         -> None
          [] OTHER         -> pooled

Srtts(conns) == FilterMap(LAMBDA c : Rtt(c.srtt), conns)
bimodal(conns) ==
    LET srtts == Srtts(conns)
    IN  /\ srtts # <<>>
        /\ Largest(srtts) >= SPREAD * Smallest(srtts)
        /\ Largest(srtts) >= FAR

(* Spellings of one region are one path; a blank one is none.               *)
multi_path(conns) ==
    LET named == {c \in Range(conns) : c.region # None /\ c.region[1] # ""}
    IN  \/ Cardinality({c.region[1] : c \in named}) > 1
        \/ bimodal(conns)

Floor(us, judged, excluded) ==
    [us |-> us, judged |-> judged, excluded |-> excluded]
pooled_floor(conns, samples) ==
    LET close == Srtts(conns)
        mins  == FilterMap(LAMBDA s : Rtt(s.minrtt), samples)
        srtts == FilterMap(LAMBDA s : Rtt(s.srtt), samples)
        all   == Len(conns) + Len(samples)
    IN  CASE close # <<>> ->
               Floor(median(close), Len(close), Len(conns) - Len(close))
          [] close = <<>> /\ mins # <<>> ->
               Floor(median(mins), Len(mins), Len(samples) - Len(mins))
          [] close = <<>> /\ mins = <<>> /\ srtts # <<>> ->
               Floor(median(srtts), Len(srtts), all - Len(srtts))
          [] OTHER -> Floor(None, 0, all)

(* The environment reads the regions as they are spelt.                     *)
estimate_environment(floor, conns) ==
    LET several == Cardinality({c.region : c \in Range(conns)} \ {None}) > 1
        cross   == {c \in Range(conns) : c.cross}
        all     == cross # {} /\ cross = Range(conns)
    IN  CASE several \/ (bimodal(conns) /\ ~all) -> "Mixed"
          [] ~several /\ cross # {} /\ (all \/ ~bimodal(conns))
               -> "CrossRegion"
          [] OTHER -> CASE floor = None -> None
                        [] floor # None /\ floor < FAR -> "SameRegion"
                        [] OTHER -> "FarPath"

-----------------------------------------------------------------------------
(* The headline spans: medians over the pooled floor.                       *)
ratio_row(id, v, floor, mult) ==
    IF floor = None THEN NaRow(id, v)
    ELSE [NaRow(id, v) EXCEPT
             !.mark = IF Ratio(v, floor) <= mult THEN "Ok" ELSE "Warn",
             !.ratio = Ratio(v, floor)]

Ttfb(o) == o.ttfb
TcpConnect(o) == o.tcp
ColdDns(o) == o.dns
Spans ==
    {[id |-> "tcp_connect", mult |-> 300], [id |-> "ttfb_new", mult |-> 400],
     [id |-> "ttfb_reused", mult |-> 400], [id |-> "dns_cold", mult |-> None]}
SpanOf(id, o) ==
    CASE id = "tcp_connect" -> TcpConnect(o)
      [] id = "dns_cold"    -> ColdDns(o)
      [] id = "ttfb_new"    -> IF o.reused THEN None ELSE Ttfb(o)
      [] id = "ttfb_reused" -> IF o.reused THEN Ttfb(o) ELSE None
SpanValues(id, ops) == FilterMap(LAMBDA o : SpanOf(id, o), ops)

SpanRows(good, floor) ==
    UNION {LET v == median(SpanValues(s.id, good))
           IN  OptRow(v, IF s.id = "dns_cold" THEN Row(s.id, "Fyi", v, "Ms")
                         ELSE ratio_row(s.id, v, floor, s.mult))
           : s \in Spans}
SpanPops(good, ops) ==
    {[id |-> s.id, judged |-> Len(SpanValues(s.id, good)),
      excluded |-> Monus(Len(SpanValues(s.id, ops)),
                         Len(SpanValues(s.id, good)))]
     : s \in {s \in Spans : SpanValues(s.id, good) # <<>>}}

baseline_row(floor) ==
    OptRow(floor, [Row("baseline_rtt", "Na", floor, "Ms") EXCEPT !.rel = TRUE])

(* Loss over the closed connections, else over the in-flight samples.       *)
send_side(conns, samples) ==
    LET closed == Total([i \in DOMAIN conns |-> conns[i].sent])
    IN  IF closed > 0
        THEN [sent |-> closed, streams |-> None,
              rtx |-> Total([i \in DOMAIN conns |-> conns[i].rtx])]
        ELSE sample_send_deltas(samples)
retransmit_row(s) ==
    LET segs == s.sent \div TCP_MSS_BYTES
    IN  IF segs < MIN_RATE_SEGMENTS
        THEN Row("retransmit_rate", "Na", None, "Ratio")
        ELSE Row("retransmit_rate",
                 IF 1000 * s.rtx <= segs THEN "Ok" ELSE "Warn",
                 (10000 * s.rtx) \div segs, "Ratio")

Answered(ops) == Count(ops, LAMBDA o : o.status # None)
Errors(ops)   == Count(ops, Failed)
http_row(ops) ==
    IF Answered(ops) = 0 THEN Row("http_errors", "Na", None, "Count")
    ELSE Row("http_errors", IF Errors(ops) = 0 THEN "Ok" ELSE "Warn",
             Errors(ops), "Count")

reuse_rows(ops) ==
    LET counted == SelectSeq(ops, LAMBDA o : ~o.partial)
        reused  == Count(counted, LAMBDA o : o.reused)
    IN  IF Len(counted) < MIN_REUSE_SAMPLE THEN {}
        ELSE {Row("reuse_rate",
                  IF 5 * reused >= 4 * Len(counted) THEN "Ok" ELSE "Warn",
                  Ratio(reused, Len(counted)), "Ratio")}

-----------------------------------------------------------------------------
(* The tails: each latency over its own floor.                              *)
uniform_floor(floors) ==
    IF \A i \in DOMAIN floors : floors[i] = floors[1] THEN floors[1] ELSE None
first_floor(floors) == floors[1]     \* a fault: any floor speaks for all
SharedFloor(floors) == uniform_floor(floors)

Judged(row, floors, ratio, mult) ==
    [row EXCEPT !.mark = IF ratio <= mult THEN "Ok" ELSE "Warn",
                !.ratio = ratio,
                !.baseline = SharedFloor(floors),
                !.perop = SharedFloor(floors) = None]

Tails ==
    {[id |-> "ttfb_new_p95", reused |-> FALSE, p |-> 95,
      n |-> MIN_TAIL_SAMPLE, mult |-> 800],
     [id |-> "ttfb_new_p99", reused |-> FALSE, p |-> 99,
      n |-> MIN_P99_SAMPLE, mult |-> 1200],
     [id |-> "ttfb_reused_p95", reused |-> TRUE, p |-> 95,
      n |-> MIN_TAIL_SAMPLE, mult |-> 800],
     [id |-> "ttfb_reused_p99", reused |-> TRUE, p |-> 99,
      n |-> MIN_P99_SAMPLE, mult |-> 1200]}

(* A percentile is called good only if what could not be judged is smaller  *)
(* than the tail it stands for.                                             *)
TooManyDropped(p, judged, all) == 100 * (all - judged) > (100 - p) * all
(* FloorOf: the floor of each timeable operation.                           *)
tail_row(t, good, FloorOf) ==
    LET all    == SelectSeq(good, LAMBDA o : o.reused = t.reused
                                             /\ o.ttfb # None)
        judged == SelectSeq(all, LAMBDA o : FloorOf[o] # None)
        floors == [i \in DOMAIN judged |-> FloorOf[judged[i]]]
        ratio  == pctl([i \in DOMAIN judged |->
                           Ratio(judged[i].ttfb, floors[i])], t.p)
        v(s)   == pctl(FilterMap(Ttfb, s), t.p)
        Pop(j) == [id |-> t.id, judged |-> j, excluded |-> Len(all) - j]
    IN  CASE Len(all) < t.n -> {}
          [] Len(all) >= t.n /\ Len(judged) < t.n ->
               {[row |-> NaRow(t.id, v(all)), pop |-> Pop(0)]}
          [] OTHER ->
               IF ratio <= t.mult
                  /\ TooManyDropped(t.p, Len(judged), Len(all))
               THEN {[row |-> NaRow(t.id, v(all)), pop |-> Pop(Len(judged))]}
               ELSE {[row |-> Judged(NaRow(t.id, v(judged)), floors, ratio,
                                     t.mult),
                      pop |-> Pop(Len(judged))]}

-----------------------------------------------------------------------------
(* The S3 rows: latency by class, the status mix, GET throughput.           *)
s3_ttfb_row(class, ops, good, FloorOf) ==
    LET Of(s)  == SelectSeq(s, LAMBDA o : o.cls # None /\ o.ttfb # None
                                          /\ sanitize_term(o.cls) = class)
        judged == SelectSeq(Of(good), LAMBDA o : FloorOf[o] # None)
        floors == [i \in DOMAIN judged |-> FloorOf[judged[i]]]
        ratio  == median([i \in DOMAIN judged |->
                             Ratio(judged[i].ttfb, floors[i])])
        shown  == IF judged = <<>> THEN Of(good) ELSE judged
        row    == [NaRow("s3_ttfb", median(FilterMap(Ttfb, shown))) EXCEPT
                      !.op = class,
                      !.pop = [judged |-> Len(judged),
                               excluded |-> Len(Of(ops)) - Len(judged)]]
    IN  CASE shown = <<>> -> {}
          [] judged = <<>> /\ shown # <<>> -> {row}
          [] OTHER -> IF ratio <= 400 /\ Len(judged) < MIN_JUDGE_SAMPLE
                      THEN {row} ELSE {Judged(row, floors, ratio, 400)}

ClientClasses == {"Forbidden", "NotFound", "BadRequest", "ClientError"}
StatusRow(id, classes, ops) ==
    LET n == Count(ops, LAMBDA o : o.status # None
                                   /\ classify_status(o.status) \in classes)
    IN  IF n = 0 THEN {} ELSE {Row(id, "Warn", n, "Count")}

GetRate(o) ==
    IF o.cls = GetObject /\ o.len # None /\ o.dl # None /\ o.dl > 0
    THEN o.len \div o.dl ELSE None
throughput_row(ops, good) ==
    LET rates == FilterMap(GetRate, good)
    IN  OptRow(median(rates),
               [Row("s3_throughput", "Advisory", median(rates), "Rate")
                   EXCEPT !.op = "GetObject",
                          !.pop = [judged |-> Len(rates),
                                   excluded |-> Len(FilterMap(GetRate, ops))
                                                    - Len(rates)]])

s3_domain(ops, good, FloorOf) ==
    LET classes == {sanitize_term(o.cls) :
                       o \in {o \in Range(good) : o.cls # None}}
    IN  UNION {s3_ttfb_row(c, ops, good, FloorOf) : c \in classes}
            \cup StatusRow("s3_throttle", {"Throttle"}, ops)
            \cup StatusRow("s3_server_errors", {"ServerError"}, ops)
            \cup StatusRow("s3_client_errors", ClientClasses, ops)
            \cup throughput_row(ops, good)

-----------------------------------------------------------------------------
(* The network path: telemetry, never judged.                               *)
Fyi(id, v, unit) == OptRow(v, Row(id, "Fyi", v, unit))
Positive(v) == v # None /\ v > 0
send_heavy(c) == c.sent > c.recv /\ c.sent >= MIN_DIRECTIONAL_BYTES
recv_heavy(c) == c.recv > c.sent /\ c.recv >= MIN_DIRECTIONAL_BYTES

handshake_row(conns) ==
    LET hs    == median(FilterMap(LAMBDA c : c.handshake, conns))
        floor == median(FilterMap(LAMBDA c : Rtt(c.minrtt), conns))
    IN  OptRow(hs, [Row("tls_handshake", "Fyi", hs, "Ms") EXCEPT
            !.rel = TRUE, !.baseline = floor,
            !.ratio = IF floor = None THEN None ELSE Ratio(hs, floor)])

bdp(c) ==
    IF send_heavy(c) /\ Positive(c.cwnd) /\ Positive(c.mss) /\ Live(c.minrtt)
    THEN (c.cwnd * c.mss) \div c.minrtt ELSE None
recv_window(c) ==
    IF recv_heavy(c) /\ Positive(c.clamp) /\ Live(c.minrtt) /\ Positive(c.life)
    THEN c.clamp \div c.minrtt ELSE None

busy_share(conns) ==
    LET sum(F(_)) == Total(FilterMap(F, SelectSeq(conns, send_heavy)))
        busy == sum(LAMBDA c : c.busy)
        all  == busy + sum(LAMBDA c : c.rwnd) + sum(LAMBDA c : c.sndbuf)
    IN  IF all = 0 THEN None ELSE Ratio(busy, all)

loss_shape(conns) ==
    LET reord == FilterMap(LAMBDA c : c.reordering, conns)
        recov == Count(conns, LAMBDA c : c.castate # None /\ c.castate >= 3)
        ooo   == Total(FilterMap(LAMBDA c : c.ooo, conns))
        dsack == Total(FilterMap(LAMBDA c : c.dsack,
                                 SelectSeq(conns, send_heavy)))
        high  == reord # <<>> /\ Largest(reord) > 3
    IN  CASE high -> Largest(reord)
          [] ~high /\ recov > 0 -> recov
          [] ~high /\ recov = 0 /\ ooo > 0 -> ooo
          [] ~high /\ recov = 0 /\ ooo = 0 /\ dsack > 0 -> dsack
          [] OTHER -> None

path_domain(conns) ==
    Fyi("path_min_rtt",
        median(FilterMap(LAMBDA c : Rtt(c.minrtt), conns)), "Ms")
        \cup handshake_row(conns)
        \cup Fyi("send_bottleneck", busy_share(conns), "None")
        \cup Fyi("bdp_ceiling", median(FilterMap(bdp, conns)), "Rate")
        \cup Fyi("recv_ceiling", median(FilterMap(recv_window, conns)), "Rate")
        \cup Fyi("loss_shape", loss_shape(conns), "Count")

(* Without a closed connection the ceilings come from the samples; the      *)
(* segments whose throughput could be measured are preferred.               *)
Ceiling(dir, seg) ==
    LET mr == FilterMap(LAMBDA s : Rtt(s.minrtt), seg)
        windows == SelectSeq([i \in DOMAIN seg |->
                       IF dir = "down" THEN seg[i].rcvwnd ELSE seg[i].cwnd],
                       LAMBDA w : w > 0)
    IN  IF mr = <<>> \/ seg_direction(seg) # dir \/ windows = <<>> THEN None
        ELSE IF dir = "down" THEN Largest(windows) \div Smallest(mr)
        ELSE (median(windows) * TCP_MSS_BYTES) \div Smallest(mr)
SampledCeiling(id, dir, segs) ==
    LET timed == SelectSeq(segs, LAMBDA g : throughput_of_segment(g) # None)
        Ceilings(s) == FilterMap(LAMBDA g : Ceiling(dir, g), s)
    IN  Fyi(id, median(IF Ceilings(timed) # <<>> THEN Ceilings(timed)
                       ELSE Ceilings(segs)), "Rate")
SampledStreams(dir, segs) ==
    Cardinality({g[1].cookie :
        g \in {g \in Range(segs) : Ceiling(dir, g) # None}})

-----------------------------------------------------------------------------
(* The time series: telemetry over the samples.                             *)
Timed(segs, dir) ==
    SelectSeq(FilterMap(throughput_of_segment, segs), LAMBDA t : t.dir = dir)
aggregate_row(id, samples, dir) ==
    LET agg == agg_from_buckets(Shares(samples, dir))
    IN  IF agg = None THEN {}
        ELSE IF agg.cookies < 2 THEN {}
        ELSE {Row(id, "Fyi", agg.peak, "Rate")}
loss_row(id, timed) ==
    LET n == Total([i \in DOMAIN timed |-> timed[i].loss])
    IN  IF n = 0 THEN {} ELSE {Row(id, "Fyi", n, "Count")}

queueing_row(bloat) ==
    IF bloat = <<>> THEN {}
    ELSE {Row("bufferbloat_onset", "Fyi", Largest(bloat), "Ratio")}
ramp_row(timed) ==
    Fyi("throughput_ramp",
        median([i \in DOMAIN timed |-> timed[i].sustained]), "Rate")

timeline_rows(up, down) ==
    ramp_row(up \o down) \cup loss_row("loss_timeline_reorder", down)
        \cup loss_row("loss_timeline_retrans", up)
timeseries_domain(samples, segs) ==
    timeline_rows(Timed(segs, "up"), Timed(segs, "down"))
        \cup aggregate_row("throughput_aggregate_down", samples, "down")
        \cup aggregate_row("throughput_aggregate_up", samples, "up")
        \cup queueing_row(FilterMap(bufferbloat_of_segment, segs))

-----------------------------------------------------------------------------
(* The report.                                                              *)
BaseVerdict(rows, floor, good) ==
    CASE \E r \in rows : r.mark = "Warn" -> "Attention"
      [] (\A r \in rows : r.mark # "Warn") /\ floor = None -> "NoBaseline"
      [] OTHER -> IF \E s \in Spans : /\ s.id # "dns_cold"
                                      /\ SpanValues(s.id, good) # <<>>
                  THEN "Healthy" ELSE "ChecksPassed"

sampled_ceilings(segs) ==
    SampledCeiling("recv_ceiling", "down", segs)
        \cup SampledCeiling("bdp_ceiling", "up", segs)

Report(ops, conns, samples, good, segs, floor, mixed) ==
    LET FloorOf == [o \in Range(good) |-> floor_for(o, conns, mixed, floor.us)]
        loss    == send_side(conns, samples)
        tails   == UNION {tail_row(t, good, FloorOf) : t \in Tails}
        rows    == baseline_row(floor.us)
                       \cup SpanRows(good, IF mixed THEN None ELSE floor.us)
                       \cup {retransmit_row(loss), http_row(ops)}
    IN  [rows          |-> rows,
         tail          |-> {t.row : t \in tails},
         s3            |-> s3_domain(ops, good, FloorOf),
         reuse         |-> reuse_rows(ops),
         path          |-> path_domain(conns)
             \cup (IF conns # <<>> THEN {} ELSE sampled_ceilings(segs)),
         timeseries    |-> timeseries_domain(samples, segs),
         verdict       |-> BaseVerdict(rows, floor.us, good),
         floor         |-> floor,
         mixed         |-> mixed,
         environment   |-> estimate_environment(floor.us, conns),
         row_pop       |-> {t.pop : t \in tails} \cup SpanPops(good, ops),
         op_judged     |-> Len(good),
         op_total      |-> Len(ops),
         op_statused   |-> Answered(ops),
         op_nonpartial |-> Count(ops, LAMBDA o : ~o.partial),
         conn_count    |-> Len(conns),
         rtx_streams   |-> loss.streams,
         up_streams    |-> Len(Timed(segs, "up")),
         down_streams  |-> Len(Timed(segs, "down")),
         sampled_recv  |-> SampledStreams("down", segs),
         sampled_send  |-> SampledStreams("up", segs)]

analyze(file) ==
    LET ops     == Operations(file)
        conns   == Connections(file)
        samples == Samples(file)
    IN  Report(ops, conns, samples, SelectSeq(ops, is_timeable), Segments(samples),
               pooled_floor(conns, samples), multi_path(conns))

-----------------------------------------------------------------------------
(* The verdict of a run: nothing judged is never a health claim.            *)
anything_judged(R) ==
    \E r \in R.rows \cup R.tail \cup R.s3 : r.ratio # None

overall_verdict(R) ==
    LET warn == \E r \in R.s3 \cup R.tail \cup R.reuse : r.mark = "Warn"
        attention == R.verdict = "Attention" \/ warn
    IN  CASE attention -> "Attention"
          [] ~attention /\ R.op_total = 0 -> "NoOperations"
          [] ~attention /\ R.op_total > 0 /\ R.op_statused = 0
               -> "NoResponses"
          [] OTHER -> IF R.mixed /\ ~anything_judged(R) THEN "MixedPaths"
                      ELSE R.verdict

has_advisory(R) ==
    \E r \in R.rows \cup R.tail \cup R.reuse \cup R.path \cup R.s3 :
        r.mark = "Advisory"

NothingJudgeable == {"NoBaseline", "NoOperations", "NoResponses", "MixedPaths"}
verdict_exit_code(R, strict) ==
    LET v == overall_verdict(R)
    IN  CASE v = "Attention"         -> 1
          [] v \in NothingJudgeable  -> 2
          [] v \in {"Healthy", "ChecksPassed"} ->
               IF strict /\ has_advisory(R) THEN 1 ELSE 0

-----------------------------------------------------------------------------
(* The findings: a row with the population its number was taken over.       *)
severity(mark) ==
    CASE mark = "Ok" -> "Healthy"
      [] mark \in {"Warn", "Advisory"} -> mark
      [] mark \in {"Na", "Fyi"} -> "Unjudged"

ConnectionRows ==
    {"path_min_rtt", "tls_handshake", "send_bottleneck", "bdp_ceiling",
     "recv_ceiling", "loss_shape"}
TimeSeries ==
    {"throughput_ramp", "throughput_aggregate_down", "throughput_aggregate_up",
     "bufferbloat_onset", "loss_timeline_reorder", "loss_timeline_retrans"}
is_status_mix(id) ==
    id \in {"http_errors", "s3_throttle", "s3_server_errors",
            "s3_client_errors"}
is_row_populationed(id) == id \in {t.id : t \in Tails} \cup {s.id : s \in Spans}

PopOf(R, id) ==
    LET own == {p \in R.row_pop : p.id = id}
    IN  IF own = {} THEN None ELSE CHOOSE p \in own : TRUE

Sample(judged, excluded) == [judged |-> judged, excluded |-> excluded]
sample_of(R, r) ==
    LET id == r.id
        pop == PopOf(R, id)
    IN  CASE r.pop # None -> r.pop
          [] id \in TimeSeries -> Sample(
               CASE id \in {"throughput_aggregate_down",
                            "loss_timeline_reorder"} -> R.down_streams
                 [] id \in {"throughput_aggregate_up",
                            "loss_timeline_retrans"} -> R.up_streams
                 [] OTHER -> R.down_streams + R.up_streams, 0)
          [] is_status_mix(id) ->
               Sample(R.op_statused, R.op_total - R.op_statused)
          [] pop # None -> Sample(pop.judged, pop.excluded)
          [] id = "reuse_rate" ->
               Sample(R.op_nonpartial, R.op_total - R.op_nonpartial)
          [] id = "baseline_rtt" -> Sample(R.floor.judged, R.floor.excluded)
          [] id = "retransmit_rate" -> Sample(
               IF R.rtx_streams = None THEN R.conn_count ELSE R.rtx_streams, 0)
          [] id = "recv_ceiling" /\ R.conn_count = 0 ->
               Sample(R.sampled_recv, 0)
          [] id = "bdp_ceiling" /\ R.conn_count = 0 ->
               Sample(R.sampled_send, 0)
          [] id \in ConnectionRows /\ R.conn_count > 0 ->
               Sample(R.conn_count, 0)
          [] OTHER -> Sample(R.op_judged, R.op_total - R.op_judged)

(* A baseline is published only when every op was judged against it.        *)
baseline_of(R, r) ==
    CASE r.baseline # None -> r.baseline
      [] r.baseline = None /\ r.rel /\ ~r.perop
         /\ (r.ratio # None \/ r.id = "baseline_rtt") -> R.floor.us
      [] OTHER -> None

finding(R, r) ==
    [id |-> r.id, op |-> r.op, severity |-> severity(r.mark),
     value |-> r.value, unit |-> r.unit, ratio |-> r.ratio,
     baseline |-> baseline_of(R, r),
     judged |-> sample_of(R, r).judged, excluded |-> sample_of(R, r).excluded]

findings(R) ==
    {finding(R, r) : r \in R.rows \cup R.tail \cup R.reuse \cup R.path
                               \cup R.timeseries \cup R.s3}
=============================================================================
