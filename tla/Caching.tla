------------------------------- MODULE Caching -------------------------------
(* Is a cache worth it? The caching check of s3tap advise and the report of *)
(* s3tap analyze replay the reads and the writes of a capture, in the order *)
(* of the file, through caches of several sizes. What a replay saves is a   *)
(* number of GETs, and the floors are percents of all of them.              *)
EXTENDS Advisor, TraceAdapter

CONSTANTS
    NameOrder,                   \* the objects in the order of their names
    Hides(_, _),                 \* whether the self-tuned overlay, run over
                                 \* a trace at a size, hides LAT_FLOOR of it
    SAMPLED_OPS,                 \* operations the check reads
    MIN_GETS, NOGO_MIN_GETS, GO_FLOOR, STRUCTURE_FLOOR, RANGED_FRAC_MAX,
    SIZE_COVERAGE_FLOOR, KNEE_EPS_FRAC,
    BYTE_FLOOR, MIN_RUNGS, MIN_BYTE_RUNGS,    \* the ladders of sizes
    ANCHOR_CAP, MAX_CAP, DOUBLINGS,
    K_DIVISOR, K_MAX, MAX_CONTEXTS, MAX_SUCCESSORS    \* the predictors

Lru   == INSTANCE Sim
Model == INSTANCE Predict WITH
    Rank <- NameOrder, TopK <- K_MAX, Window <- 1,
    MaxContexts <- MAX_CONTEXTS, MaxSuccessors <- MAX_SUCCESSORS

Reaches(n, all, floor) == all > 0 /\ 100 * n >= floor * all
Highest(f) == Max({0} \cup Range(f))
Gets(t)  == SelectSeq(t, LAMBDA e : e.op = "Get")
Keys(t)  == {e.object : e \in Range(Gets(t))}

-----------------------------------------------------------------------------
(* What advise replays: the reads that are whole, and every write.          *)
is_write_op(o)   == o.cls \in WRITE_OPS
to_op_records(c) == SelectSeq(Operations(c),
                              LAMBDA o : ~o.partial \/ is_write_op(o))

is_ranged_read(e)      == e.status = 206
is_whole_object_get(e) == e.op = "Get" /\ ~is_ranged_read(e)
is_unplaceable_ranged_read(e) == is_ranged_read(e) /\ e.extent = None
body_reads(t)   == Count(t, LAMBDA e : e.op = "Get" \/ is_ranged_read(e))
ranged_heavy(t) == 100 * Count(t, is_unplaceable_ranged_read)
                       > RANGED_FRAC_MAX * body_reads(t)

-----------------------------------------------------------------------------
(* One replay at one size. The null predictor prefetches nothing.           *)
k_for_cap(cap) == Min({Max({cap \div K_DIVISOR, 1}), K_MAX})
First(q, n)    == SubSeq(q, 1, Min({n, Len(q)}))

Demanded(c, o, size) ==
    IF Lru!SimHas(c, o) THEN Lru!SimTouch(c, o, size)
    ELSE Lru!SimInsert(c, o, size, FALSE)
Prefetched(c, o) ==
    IF Lru!SimHas(c, o) THEN c ELSE Lru!SimInsert(c, o, 1, TRUE)

Replayed(st, e, k) ==
    LET learnt == Model!MarkovObserve(st.model, e.object)
    IN  CASE e.op = "Get" ->
               [hits  |-> st.hits + IF Lru!SimHas(st.cache, e.object)
                                    THEN 1 ELSE 0,
                model |-> learnt,
                cache |-> FoldLeft(Prefetched, Demanded(st.cache, e.object, 1),
                                   First(Model!MarkovPredict(learnt), k))]
          [] e.op \in {"Put", "Delete"} ->
               [st EXCEPT !.cache = Lru!SimInvalidate(@, e.object)]
          [] OTHER -> st
eval_all_caps(t, order, cap, k) ==
    FoldLeft(LAMBDA st, e : Replayed(st, e, k),
             [hits |-> 0, model |-> Model!MarkovNew(order),
              cache |-> Lru!SimNew(cap)], t).hits

sweep_demand(t, caps) ==
    [cap \in caps |->
        [null   |-> eval_all_caps(t, 1, cap, 0),
         markov |-> Max({eval_all_caps(t, order, cap, k_for_cap(cap))
                         : order \in {1, 2}})]]
Nulls(rows) == [cap \in DOMAIN rows |-> rows[cap].null]
Gains(rows) == [cap \in DOMAIN rows |-> rows[cap].markov - rows[cap].null]
lru_max(rows)   == Highest(Nulls(rows))
structure(rows) == Highest(Gains(rows))
structure_cap(rows) ==           \* the smallest size where it peaks
    Min({cap \in DOMAIN rows : structure(rows) \in {0, Gains(rows)[cap]}})
Knee(saved) ==                   \* the smallest size within 5% of the ceiling
    Min({cap \in DOMAIN saved :
            100 * saved[cap] >= (100 - KNEE_EPS_FRAC) * Highest(saved)})

(* Ladders of sizes; DOUBLINGS bounds their rungs. Advise climbs to every   *)
(* object there is, analyze at least to its anchor and at most to its top.  *)
PowersBelow(top, base, floor) ==
    {cap \in {floor * base ^ i : i \in 0 .. DOUBLINGS} : cap < top}
object_caps(n) == PowersBelow(Max({n, 2}), 2, 2) \cup {Max({n, 2})}
cap_ladder(n) ==
    LET top == Min({Max({n, Min({ANCHOR_CAP, MAX_CAP})}), MAX_CAP})
    IN  PowersBelow(top, 2, 2) \cup {top}

-----------------------------------------------------------------------------
(* Sizing in bytes: the object's latest size is the working set's, its own  *)
(* size is what a read moved, and the median stands for an unknown one.     *)
byte_cap_ladder(total) ==
    LET Rungs(floor) == PowersBelow(total, 4, floor) \cup {total}
        floors == {Max({Min({BYTE_FLOOR, total}) \div 4 ^ i, 1})
                   : i \in 0 .. DOUBLINGS}
        tall   == {f \in floors : Cardinality(Rungs(f)) >= MIN_RUNGS}
    IN  Rungs(Max({1} \cup tall))

Latest(t, o) ==
    LET sized == SelectSeq(t, LAMBDA e : /\ is_whole_object_get(e)
                                         /\ e.object = o /\ e.size # None)
        last  == Largest([i \in DOMAIN sized |-> sized[i].ts])
        final == SelectSeq(sized, LAMBDA e : e.ts = last)
    IN  IF sized = <<>> THEN None ELSE final[Len(final)].size
Objects(t) ==
    {e.object : e \in Range(SelectSeq(t, is_whole_object_get))}
Known(t)   == FilterMap(LAMBDA o : Latest(t, o), SetToSeq(Objects(t)))
size_of(t, o) ==
    IF Latest(t, o) # None THEN Latest(t, o) ELSE Max({UpperMedian(Known(t)), 1})
credit_size(t, e) == IF e.size # None THEN e.size ELSE size_of(t, e.object)

btrace(t) ==
    LET kept == SelectSeq(t, LAMBDA e : \/ is_whole_object_get(e)
                                        \/ e.op \in {"Put", "Delete"})
    IN  [i \in DOMAIN kept |->
            IF kept[i].op = "Get"
            THEN [kept[i] EXCEPT !.size = credit_size(t, kept[i])]
            ELSE kept[i]]
replay_bytes(t, cap) ==
    LET Step(st, e) ==
            IF e.op # "Get"
            THEN [st EXCEPT !.cache = Lru!SimInvalidate(@, e.object)]
            ELSE LET hit == IF Lru!SimHas(st.cache, e.object) THEN 1 ELSE 0
                 IN  [hits  |-> st.hits + hit,
                      saved |-> st.saved + hit * e.size,
                      moved |-> st.moved + e.size,
                      cache |-> Demanded(st.cache, e.object, e.size)]
    IN  FoldLeft(Step, [hits |-> 0, saved |-> 0, moved |-> 0,
                        cache |-> Lru!SimNew(cap)], t)

Sizing(total, runs) ==           \* the replays at each size of the ladder
    LET hits == [cap \in DOMAIN runs |-> runs[cap].hits]
        knee == Knee(hits)
    IN  [total |-> total, knee |-> knee, saves |-> hits[knee],
         req_max    |-> Highest(hits),
         egress_max |-> Max({runs[cap].saved : cap \in DOMAIN runs}),
         moved      |-> runs[knee].moved]
SizedBy(t, total, caps) ==
    IF Known(t) = <<>> \/ total = 0 \/ Cardinality(caps) < MIN_BYTE_RUNGS THEN None
    ELSE LET moves == btrace(t)
         IN  Sizing(total, [cap \in caps |-> replay_bytes(moves, cap)])
byte_sizing(t) ==
    LET total == MapThenSumSet(LAMBDA o : size_of(t, o), Objects(t))
    IN  SizedBy(t, total, byte_cap_ladder(total))
byte_verdict(t) ==
    LET whole == SelectSeq(t, is_whole_object_get)
        sized == Count(whole, LAMBDA e : e.size # None)
    IN  IF Reaches(sized, Len(whole), SIZE_COVERAGE_FLOOR) /\ ~ranged_heavy(t)
        THEN byte_sizing(t) ELSE None

-----------------------------------------------------------------------------
(* The findings of the check. "saves" is what a cache of the size named     *)
(* would.                                                                   *)
Finding(check, severity, value, saves) ==
    [check |-> check, scope |-> None, severity |-> severity,
     value |-> value, saves |-> saves]
Advisable(check, value, saves) == {Finding(check, "Advisory", value, saves)}
Unjudgeable(why) == {Finding("cache-unjudged", "Unjudged", why, None)}

go_findings(rows, byte) ==
    Advisable("cache-go", lru_max(rows), None) \cup
    IF byte = None
    THEN LET knee == Knee(Nulls(rows))
         IN  Advisable("cache-size", knee, Nulls(rows)[knee])
    ELSE Advisable("cache-size", byte.knee, byte.saves) \cup
         IF Reaches(byte.egress_max, byte.moved, GO_FLOOR) THEN {}
         ELSE Advisable("cache-requests-not-dollars", byte.egress_max, None)

low_reuse_findings(gets, rows, hides) ==
    IF hides THEN Advisable("cache-go-latency", structure(rows), None)
    ELSE IF gets >= NOGO_MIN_GETS
    THEN Advisable("cache-nogo", lru_max(rows), None)
    ELSE Unjudgeable("too short")

policy_findings(rows) == Advisable("cache-policy", structure_cap(rows), None)

caching_findings(trace, gets, rows) ==
    LET overlay == Reaches(structure(rows), gets, STRUCTURE_FLOOR)
        hides   == overlay /\ Hides(trace, structure_cap(rows))
    IN  IF gets < MIN_GETS THEN {}
        ELSE IF ranged_heavy(trace) THEN Unjudgeable("ranged")
        ELSE (IF Reaches(lru_max(rows), gets, GO_FLOOR)
              THEN go_findings(rows, byte_verdict(trace))
              ELSE low_reuse_findings(gets, rows, hides))
             \cup IF overlay THEN policy_findings(rows) ELSE {}
judge(trace) ==
    caching_findings(trace, Len(Gets(trace)),
        sweep_demand(trace, object_caps(Cardinality(Keys(trace)))))
advise_caching(ops) == judge(from_records(First(ops, SAMPLED_OPS)))

advise(file) == record_checks(file) \cup advise_caching(to_op_records(file))

(* A judgment that was made outranks a population that is missing.          *)
nothing_judgeable(file) ==
    \A o \in Range(Operations(file)) : o.status = None
Gating(advice) == \E a \in advice : a.severity \in {"Warn", "Advisory"}
exit_of(advice, file, strict) ==
    CASE strict /\ Gating(advice) -> 1
      [] ~(strict /\ Gating(advice)) /\ nothing_judgeable(file) -> 2
      [] OTHER -> 0
advisory_exit(file, strict) == exit_of(advise(file), file, strict)

-----------------------------------------------------------------------------
(* The report of analyze in object mode, the whole trace read.              *)
prefetch_verdict(trace, gets, rows) ==
    LET has == Reaches(structure(rows), gets, STRUCTURE_FLOOR)
        cap == structure_cap(rows)
    IN  [has_structure |-> has, structure |-> structure(rows), cap |-> cap,
         hides_latency |-> has /\ Hides(trace, cap)]

report_of(trace, gets, rows) ==
    LET ranged   == ranged_heavy(trace)
        cache_go == ~ranged /\ Reaches(lru_max(rows), gets, GO_FLOOR)
        prefetch == prefetch_verdict(trace, gets, rows)
        hides    == ~ranged /\ prefetch.hides_latency
        knee     == Knee(Nulls(rows))
    IN  [verdict |-> CASE ranged                        -> "unjudged"
                       [] cache_go                      -> "go"
                       [] ~ranged /\ ~cache_go /\ hides -> "go-latency"
                       [] ~ranged /\ ~cache_go /\ ~hides ->
                            IF gets >= NOGO_MIN_GETS THEN "nogo"
                            ELSE "unjudged",
         gets |-> gets, ranged_unjudged |-> ranged, cache_go |-> cache_go,
         lru_max |-> lru_max(rows), knee_cap |-> knee,
         recommended_cap |-> IF cache_go THEN knee ELSE None,
         prefetch |-> prefetch, byte |-> byte_verdict(trace)]
analyze_trace(trace) ==
    report_of(trace, Len(Gets(trace)),
              sweep_demand(trace, cap_ladder(Cardinality(Keys(trace)))))
=============================================================================
