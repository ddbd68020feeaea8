------------------------------- MODULE Advisor -------------------------------
(* s3tap advise: advice per process, drawn from the operations, and on the  *)
(* network path, drawn from the connections. A finding is raised by a rate  *)
(* and an impact over enough operations; without the inputs it is Unjudged. *)
EXTENDS Records

CONSTANTS
    ADV_MIN_OPS,        \* operations of a scope, in four of the checks
    WASTED_FLOOR,       \* time in connects worth naming
    AGG_MIN_PIDS,       \* processes of a process-per-request capture
    AGG_MIN_FRESH,
    BUSY_FLOOR,         \* transfer time worth naming
    RUN_REPEAT_FLOOR,   \* repeats that mark an object
    WASTED_BYTES_FLOOR,
    REDUNDANT_COUNT_FLOOR,
    PAIR_WINDOW,        \* a GET this soon after a HEAD is paired with it
    MIN_PAIRS,
    MIN_TINY_GETS,
    TINY_MEDIAN_CEIL,
    OVERHEAD_FLOOR,
    MIN_503S,
    RECOVERY_WINDOW,
    MIN_CONNS,
    RTT_REPORT_FLOOR

WRITE_OPS == {<<n, 0>> : n \in {"PutObject", "UploadPart",
                                "CompleteMultipartUpload", "DeleteObject"}}

Advice(check, scope, severity, judged, excluded) ==
    [check |-> check, scope |-> scope, severity |-> severity,
     judged |-> judged, excluded |-> excluded]
Pids(ops)    == {ops[i].pid : i \in DOMAIN ops}
OfPid(ops, p) == SelectSeq(ops, LAMBDA o : o.pid = p)
ByTs(s)      == SortSeq(s, LAMBDA a, b : a.ts < b.ts)
UpperMedian(xs) == SortSeq(xs, <)[Len(xs) \div 2 + 1]
MostlyDropped(dropped, all) == 5 * dropped > all

-----------------------------------------------------------------------------
(* Connection churn. A partial operation counts as a request, never as one  *)
(* on a fresh connection.                                                   *)
Fresh(own) == SelectSeq(own, LAMBDA o : ~o.reused /\ ~o.partial)
Cost(o)    == IF o.tcp = None THEN 0 ELSE o.tcp
EarliestCost(fresh) ==
    LET timed == SelectSeq(fresh, LAMBDA o : o.ts # None)
    IN  IF timed = <<>> THEN Cost(fresh[1]) ELSE Cost(ByTs(timed)[1])

churn_of_pid(p, own) ==
    LET fresh    == Fresh(own)
        untimed  == Count(fresh, LAMBDA o : o.tcp = None)
        excluded == untimed + Count(own, LAMBDA o : o.partial)
        Found(severity) ==
            {Advice("connection-churn", p, severity, Len(own), excluded)}
    IN  IF 2 * Len(fresh) <= Len(own) THEN {}
        ELSE IF MostlyDropped(untimed, Len(fresh)) THEN Found("Unjudged")
        ELSE LET total == Total([i \in DOMAIN fresh |-> Cost(fresh[i])])
             IN  IF total - EarliestCost(fresh) < WASTED_FLOOR THEN {}
                 ELSE Found("Advisory")

check_connection_churn(ops) ==
    LET all   == SelectSeq(ops, LAMBDA o : o.cls \in {GetObject, PutObject})
        large == {p \in Pids(all) : Len(OfPid(all, p)) >= ADV_MIN_OPS}
        fresh == Len(Fresh(all))
        fleet == /\ large = {} /\ Cardinality(Pids(all)) >= AGG_MIN_PIDS
                 /\ fresh >= AGG_MIN_FRESH /\ 5 * fresh > 4 * Len(all)
    IN  UNION {churn_of_pid(p, OfPid(all, p)) : p \in large}
            \cup (IF ~fleet THEN {}
                  ELSE {Advice("connection-churn", None, "Advisory", Len(all),
                               Count(all, LAMBDA o : o.partial))})

-----------------------------------------------------------------------------
(* Serial requests: the time during which two connections carry a request.  *)
Covers(o, t) == o.ts <= t /\ t < o.ts + o.total
check_serial_of_pid(p, own) ==
    LET ops     == SelectSeq(own, LAMBDA o : /\ ~o.partial /\ o.clean
                                             /\ o.ts # None /\ o.total # None)
        dropped == Len(own) - Len(ops)
        ends    == [i \in DOMAIN ops |-> ops[i].ts + ops[i].total]
        first   == Smallest([i \in DOMAIN ops |-> ops[i].ts])
        span    == first .. Largest(ends) - 1
        flight  == [t \in span |-> Cardinality({o.cookie :
                       o \in {o \in Range(ops) : Covers(o, t)}})]
        busy    == Cardinality({t \in span : flight[t] >= 1})
        overlap == Cardinality({t \in span : flight[t] >= 2})
    IN  CASE Len(own) < ADV_MIN_OPS -> {}
          [] /\ Len(own) >= ADV_MIN_OPS /\ MostlyDropped(dropped, Len(own)) ->
               {Advice("serial-requests", p, "Unjudged", Len(ops), dropped)}
          [] OTHER ->
               IF Len(ops) < ADV_MIN_OPS THEN {}
               ELSE IF \/ busy = 0 \/ busy < BUSY_FLOOR
                       \/ 5 * busy < Largest(ends) - first
                       \/ 20 * overlap >= busy
               THEN {}
               ELSE {Advice("serial-requests", p, "Advisory", Len(ops),
                            dropped)}

check_serial_requests(ops) ==
    LET gets == SelectSeq(ops, LAMBDA o : o.cls = GetObject)
    IN  UNION {check_serial_of_pid(p, OfPid(gets, p)) : p \in Pids(gets)}

-----------------------------------------------------------------------------
(* Redundant re-fetch: whole reads of one object with no write, by any      *)
(* process, between them.                                                   *)
ObjId(o)  == <<o.bucket, o.key>>
Written(ops) == {<<ObjId(o), o.ts>> : o \in {o \in Range(ops) :
                    o.key # None /\ o.cls \in WRITE_OPS /\ o.ts # None}}
WhollyWritten(ops) ==            \* a fault: a truncated write is no write
    Written(SelectSeq(ops, LAMBDA o : ~o.partial))
Writes(ops) == Written(ops)

Repeats(gets, writes) ==         \* those with no write since the one before
    {i \in 2 .. Len(gets) : ~\E w \in writes :
        /\ w[1] = ObjId(gets[i])
        /\ w[2] >= gets[i - 1].ts /\ w[2] < gets[i].ts}
Marked(repeats) ==
    \E i \in repeats : i - RUN_REPEAT_FLOOR + 1 .. i \subseteq repeats

refetch_of_pid(p, gets, writes, undated, partials) ==
    LET Of(x)   == ByTs(SelectSeq(gets, LAMBDA o : ObjId(o) = x))
        flagged == {x \in {ObjId(gets[i]) : i \in DOMAIN gets} :
                       Marked(Repeats(Of(x), writes))}
        again   == UNION {{Of(x)[i] : i \in Repeats(Of(x), writes)}
                          : x \in flagged}
        bytes   == FoldSet(LAMBDA o, n : n + IF o.len = None THEN 0
                                             ELSE o.len, 0, again)
        sizeless == Cardinality({o \in again : o.len = None})
    IN  IF \/ Len(gets) < ADV_MIN_OPS \/ flagged = {}
           \/ /\ bytes < WASTED_BYTES_FLOOR
              /\ Cardinality(again) < REDUNDANT_COUNT_FLOOR
        THEN {}
        ELSE {Advice("redundant-refetch", p, "Advisory", Len(gets),
                     undated + sizeless + partials)}

check_redundant_refetch(ops) ==
    LET keyed == SelectSeq(ops, LAMBDA o : o.key # None)
        read  == SelectSeq(keyed, LAMBDA o : o.cls = GetObject
                                             /\ o.status = 200)
        gets  == SelectSeq(read, LAMBDA o : ~o.partial /\ o.ts # None)
        Undated(o) ==
            /\ o.ts = None
            /\ \/ o.cls \in WRITE_OPS
               \/ ~o.partial /\ o.cls = GetObject /\ o.status = 200
    IN  UNION {refetch_of_pid(p, OfPid(gets, p), Writes(ops),
                   Count(OfPid(keyed, p), Undated),
                   Count(OfPid(read, p), LAMBDA o : o.partial))
               : p \in Pids(gets)}

-----------------------------------------------------------------------------
(* HEAD then GET. A HEAD claims every GET of its object that follows within *)
(* the window and that no earlier HEAD claimed: one is a pair, several are  *)
(* a fan-out.                                                               *)
Claims(heads, gets, i) ==
    {j \in DOMAIN gets :
        /\ gets[j].ts > heads[i].ts
        /\ gets[j].ts <= heads[i].ts + PAIR_WINDOW
        /\ \A k \in 1 .. i - 1 : gets[j].ts > heads[k].ts + PAIR_WINDOW}
PairedHeads(own, x) ==
    LET Of(class) == ByTs(SelectSeq(own, LAMBDA o : o.cls = class
                                                    /\ ObjId(o) = x))
        heads == Of(HeadObject)
    IN  {heads[i] : i \in {i \in DOMAIN heads :
            Cardinality(Claims(heads, Of(GetObject), i)) = 1}}

head_then_get_of_pid(p, own) ==
    LET gets    == Count(own, LAMBDA o : o.cls = GetObject)
        pairs   == UNION {PairedHeads(own, ObjId(o)) : o \in Range(own)}
        untimed == Cardinality({o \in pairs : \/ o.partial \/ ~o.clean
                                              \/ o.total = None})
    IN  IF \/ Cardinality(pairs) < MIN_PAIRS \/ gets = 0
           \/ 5 * Cardinality(pairs) < gets
        THEN {}
        ELSE {Advice("head-then-get", p,
                     IF MostlyDropped(untimed, Cardinality(pairs))
                     THEN "Unjudged" ELSE "Advisory", Len(own), untimed)}

check_head_then_get(ops) ==
    LET seen == SelectSeq(ops, LAMBDA o : /\ o.key # None /\ o.ts # None
                                          /\ o.cls \in {HeadObject, GetObject})
    IN  UNION {head_then_get_of_pid(p, OfPid(seen, p)) : p \in Pids(seen)}

-----------------------------------------------------------------------------
(* Small objects: more time to first bytes than in bodies.                  *)
TimedGet(o) == o.clean /\ ~o.partial /\ o.ttfb # None /\ o.dl # None
small_objects_of_pid(p, own) ==
    LET judged   == SelectSeq(own, TimedGet)
        dropped  == Len(own) - Len(judged)
        sizes    == FilterMap(LAMBDA o : o.len, judged)
        sizeless == Len(judged) - Len(sizes)
        waited   == Total([i \in DOMAIN judged |-> judged[i].ttfb])
        moved    == Total([i \in DOMAIN judged |-> judged[i].dl])
        Found(severity, excluded) ==
            {Advice("small-objects", p, severity, Len(judged), excluded)}
    IN  IF Len(own) < MIN_TINY_GETS THEN {}
        ELSE IF MostlyDropped(dropped, Len(own))
             THEN Found("Unjudged", dropped)
        ELSE IF Len(judged) < MIN_TINY_GETS THEN {}
        ELSE IF MostlyDropped(sizeless, Len(judged))
             THEN Found("Unjudged", sizeless)
        ELSE IF \/ UpperMedian(sizes) > TINY_MEDIAN_CEIL
                \/ waited < moved \/ waited < OVERHEAD_FLOOR
             THEN {}
        ELSE Found("Advisory", dropped + sizeless)

check_small_objects(ops) ==
    LET read == SelectSeq(ops, LAMBDA o : o.cls = GetObject /\ o.status = 200)
    IN  UNION {small_objects_of_pid(p, OfPid(read, p)) : p \in Pids(read)}

-----------------------------------------------------------------------------
(* Throttling: a 503 is recovered by a later success of the same process on *)
(* the same object, or on the bucket when it has no key. The rate and the   *)
(* recoveries are over every answered operation, partial ones too.          *)
Dated(ops) == SelectSeq(ops, LAMBDA o : o.ts # None /\ o.status # None)
Recovers(s, o) ==
    /\ classify_status(s.status) = "Success"
    /\ s.pid = o.pid /\ s.bucket = o.bucket
    /\ o.key # None => s.key = o.key
    /\ s.ts > o.ts /\ s.ts <= o.ts + RECOVERY_WINDOW

check_throttling(ops) ==
    LET answered  == Dated(ops)
        throttled == SelectSeq(answered, LAMBDA o : o.status = 503)
        end       == Largest([i \in DOMAIN answered |-> answered[i].ts])
        full      == SelectSeq(throttled,
                               LAMBDA o : o.ts + RECOVERY_WINDOW <= end)
        lost      == {o \in Range(full) :
                         ~\E s \in Range(answered) : Recovers(s, o)}
    IN  IF \/ Len(answered) < ADV_MIN_OPS \/ Len(throttled) < MIN_503S
           \/ 100 * Len(throttled) <= Len(answered)
        THEN {}
        ELSE {Advice("throttling", None,
                     CASE lost # {} -> "Warn"
                       [] lost = {} /\ full # <<>> -> "Advisory"
                       [] OTHER -> "Unjudged",
                     Len(answered), Len(ops) - Len(answered))}

-----------------------------------------------------------------------------
(* The network path, by address: reported, never gated, except across a     *)
(* region.                                                                  *)
latency_of_group(group) ==
    LET rtts  == FilterMap(LAMBDA c : Rtt(c.minrtt), group)
        pids  == Pids(group)
        scope == IF Cardinality(pids) = 1 THEN group[1].pid ELSE None
        Found(id, severity, judged) ==
            {Advice(id, scope, severity, judged, Len(group) - judged)}
    IN  IF \E c \in Range(group) : c.cross
        THEN Found("latency-cross-region", "Advisory", Len(group))
        ELSE IF Len(rtts) < MIN_CONNS
        THEN IF Len(group) < MIN_CONNS THEN {}
             ELSE Found("latency-unjudged", "Unjudged", Len(rtts))
        ELSE IF UpperMedian(rtts) < RTT_REPORT_FLOOR THEN {}
        ELSE Found(IF \E c \in Range(group) : c.vpce THEN "latency-unjudged"
                   ELSE "latency-high-rtt", "Unjudged", Len(rtts))

check_latency_path(conns) ==
    UNION {latency_of_group(SelectSeq(conns, LAMBDA c : c.ip = ip))
           : ip \in {conns[i].ip : i \in DOMAIN conns}}

-----------------------------------------------------------------------------
(* The checks of the records, which is all of them but that of the cache.   *)
record_checks(file) ==
    LET ops == Operations(file)
    IN  check_connection_churn(ops) \cup check_serial_requests(ops)
            \cup check_redundant_refetch(ops) \cup check_head_then_get(ops)
            \cup check_small_objects(ops) \cup check_throttling(ops)
            \cup check_latency_path(Connections(file))
=============================================================================
