----------------------------- MODULE Scorecard -----------------------------
(* s3tap scorecard: one row per bucket and operation, and the findings over *)
(* them. The population of a row is its answered operations.                *)
EXTENDS Records

CONSTANTS
    SC_MIN_TAIL,     \* MIN_TAIL_SAMPLE and MIN_P99_SAMPLE of the doctor
    SC_MIN_P99,
    MIN_OPS,         \* a smaller group has no reliability finding
    MIN_ERRORS       \* fewer errors are noise

ErrorClasses ==
    {"Forbidden", "NotFound", "BadRequest", "Throttle", "ServerError",
     "ClientError"}
SanitizedOr(name) == IF name = None THEN None ELSE sanitize_term(name)
GroupKey(o) == <<SanitizedOr(o.bucket), SanitizedOr(o.cls)>>

GroupRate(o) ==
    IF o.len = None \/ o.dl = None \/ o.dl = 0 THEN None ELSE o.len \div o.dl

Answering(own) == SelectSeq(own, LAMBDA o : o.status # None)
Population(own) == Answering(own)

Scored(key, ops) ==
    LET own    == SelectSeq(ops, LAMBDA o : GroupKey(o) = key)
        scored == Population(own)
        timed  == SelectSeq(own, is_timeable)
        ttfb   == FilterMap(LAMBDA o : o.ttfb, timed)
    IN  [bucket  |-> key[1], op |-> key[2],
         seen    |-> Len(own),
         ops     |-> Len(scored),
         errors  |-> Count(scored, Failed),
         classes |-> [c \in ErrorClasses |->
             Count(scored, LAMBDA o : classify_status(o.status) = c)],
         p50     |-> median(ttfb),
         p95     |-> IF Len(ttfb) >= SC_MIN_TAIL THEN pctl(ttfb, 95) ELSE None,
         p99     |-> IF Len(ttfb) >= SC_MIN_P99 THEN pctl(ttfb, 99) ELSE None,
         latency_sample |-> Len(ttfb),
         throughput     |-> IF key[2] # "GetObject" THEN None
                            ELSE median(FilterMap(GroupRate, timed))]

rows(file) ==
    LET ops == Operations(file)
        all == {Scored(GroupKey(o), ops) : o \in Range(ops)}
    IN  {r \in all : r.ops > 0}

(* A finding without a scope would speak for the whole capture.             *)
Scoped(r) == r.bucket # None \/ r.op # None
ErrorFindings(r) ==
    {[group |-> <<r.bucket, r.op>>, id |-> c, severity |-> "Warn",
      judged |-> r.ops, excluded |-> r.seen - r.ops]
     : c \in {c \in ErrorClasses : /\ r.ops >= MIN_OPS
                                   /\ r.classes[c] >= MIN_ERRORS
                                   /\ 100 * r.classes[c] > r.ops}}
TailFindings(r) ==
    IF r.p50 = None \/ r.p99 = None THEN {}
    ELSE IF r.p50 = 0 \/ r.p99 < 10 * r.p50 THEN {}
    ELSE {[group |-> <<r.bucket, r.op>>, id |-> "latency-tail",
           severity |-> "Advisory", judged |-> r.latency_sample,
           excluded |-> r.seen - r.latency_sample]}

scorecard(file) ==
    [rows     |-> rows(file),
     findings |-> UNION {ErrorFindings(r) \cup TailFindings(r)
                         : r \in {r \in rows(file) : Scoped(r)}},
     ops_seen |-> Len(Operations(file))]

(* Without a row the run says why it judged nothing.                        *)
unjudged_run_finding(sc) == sc.rows = {}
scorecard_exit(sc, strict) ==
    CASE strict /\ sc.findings # {} -> 1
      [] ~(strict /\ sc.findings # {}) /\ unjudged_run_finding(sc) -> 2
      [] OTHER -> 0
=============================================================================
