----------------------------- MODULE DoctorDiff -----------------------------
(* s3tap doctor --baseline: what changed between two captures, and --cost.  *)
EXTENDS Doctor

DIFF_NOISE == 50            \* tenths of a millisecond
RTX_NOISE  == 10            \* a loss rate of 0.001

Key(f) == <<f.id, f.op>>
cmp_value(f) == IF f.ratio # None THEN f.ratio ELSE f.value

(* Counts of errors are compared as rates over the answered operations.     *)
gate_value(f) ==
    CASE cmp_value(f) = None -> None
      [] cmp_value(f) # None /\ ~is_status_mix(f.id) -> cmp_value(f)
      [] OTHER -> IF f.judged = 0 THEN None
                  ELSE (10000 * cmp_value(f)) \div f.judged
min_delta(f) ==
    CASE is_status_mix(f.id) -> 10000 \div Max({f.judged, 1})
      [] ~is_status_mix(f.id) /\ f.ratio # None -> 50
      [] OTHER -> CASE f.unit = "Count" -> 1
                    [] f.unit = "Ratio" -> RTX_NOISE
                    [] f.unit = "Ms"    -> DIFF_NOISE
                    [] OTHER            -> 0

HigherIsBetter(f) == f.unit = "Rate" \/ f.id = "reuse_rate"
(* A change is beyond a quarter of the baseline and beyond the noise.       *)
Change(f, b, c) ==
    LET above == 4 * c > 5 * b
        below == 4 * c < 3 * b
        far   == Max({c - b, b - c}) >= min_delta(f)
    IN  CASE HigherIsBetter(f) /\ below -> "Regressed"
          [] HigherIsBetter(f) /\ above -> "Improved"
          [] ~HigherIsBetter(f) /\ above /\ far -> "Regressed"
          [] ~HigherIsBetter(f) /\ below /\ far -> "Improved"
          [] OTHER -> "Unchanged"

Delta(f, kind) ==
    [id |-> f.id, op |-> f.op, severity |-> f.severity, kind |-> kind]

(* A check present on both sides.                                           *)
Compared(f, b) ==
    CASE f.severity = "Unjudged" ->
           Delta(b, IF b.severity = "Warn" THEN "Unjudgeable" ELSE "Unchanged")
      [] f.severity # "Unjudged" /\ gate_value(b) = None ->
           Delta(f, "Unchanged")
      [] OTHER -> Delta(f, IF gate_value(f) = None THEN "Unjudgeable"
                           ELSE Change(f, gate_value(b), gate_value(f)))

(* A warning whose row is gone is resolved only if the current capture had  *)
(* the population the baseline judged it on.                                *)
ClassPop(R, op) ==
    LET own == {r \in R.s3 : r.id = "s3_ttfb" /\ r.op = op}
    IN  IF own = {} THEN 0 ELSE (CHOOSE r \in own : TRUE).pop.judged
cur_pop(R, b) ==
    CASE is_status_mix(b.id)       -> R.op_statused
      [] b.id = "reuse_rate"       -> R.op_nonpartial
      [] is_row_populationed(b.id) ->
           IF PopOf(R, b.id) = None THEN 0 ELSE PopOf(R, b.id).judged
      [] b.id = "s3_ttfb"          -> ClassPop(R, b.op)
      [] OTHER                     -> R.op_judged
TimeablePop(R, b) == R.op_judged       \* a fault: one population for all
CurrentPop(R, b)  == cur_pop(R, b)
Gone(R, b) ==
    Delta(b, IF CurrentPop(R, b) >= b.judged THEN "Resolved"
             ELSE "Unjudgeable")

verdict_rank(v) ==
    CASE v \in {"Healthy", "ChecksPassed"} -> 0
      [] v \in NothingJudgeable            -> 1
      [] v = "Attention"                   -> 2

(* The order of the deltas is only that of the table.                       *)
deltas(current, baseline) ==
    LET cur  == findings(current)
        base == {f \in findings(baseline) : f.severity # "Unjudged"}
        In(f, fs) == \E g \in fs : Key(g) = Key(f)
        Of(f, fs) == CHOOSE g \in fs : Key(g) = Key(f)
    IN  {Compared(f, Of(f, base)) : f \in {f \in cur : In(f, base)}}
            \cup {Delta(f, "NewIssue") : f \in
                    {f \in cur : f.severity = "Warn" /\ ~In(f, base)}}
            \cup {Gone(current, b) : b \in
                    {b \in base : b.severity = "Warn" /\ ~In(b, cur)}}

diff(current, baseline) ==
    [deltas  |-> deltas(current, baseline),
     worse   |-> verdict_rank(overall_verdict(current))
                     > verdict_rank(overall_verdict(baseline)),
     caveat  |-> LET n == {current.op_total, baseline.op_total}
                 IN  Min(n) > 0 /\ Max(n) >= 5 * Min(n)]

regressed_with(d, strict) ==
    \/ d.worse
    \/ \E x \in d.deltas :
          \/ x.kind \in {"NewIssue", "Unjudgeable"}
          \/ x.kind = "Regressed" /\ (strict \/ x.severity # "Advisory")

-----------------------------------------------------------------------------
(* The cost of a capture: requests by tier, bytes that really came back.    *)
request_tier(op) ==
    CASE op \in {"DeleteObject", "AbortMultipartUpload"} -> "free"
      [] op \in {"PutObject", "CopyObject", "ListObjectsV2", "UploadPart"}
           -> "tier-1"
      [] OTHER -> "tier-2"
is_2xx(s) == s # None /\ s \in 200 .. 299
DownloadedGet(o) ==
    /\ o.verb = "GET" \/ (o.cls # None /\ o.cls[1] = GetObject[1])
    /\ is_2xx(o.status)
cost(file) ==
    LET ops    == Operations(file)
        priced == SelectSeq(ops, LAMBDA o : o.cls # None)
        gets   == SelectSeq(ops, DownloadedGet)
    IN  [operations |-> Len(ops),
         tiers      |-> [t \in {"free", "tier-1", "tier-2"} |->
             Count(priced, LAMBDA o : request_tier(sanitize_term(o.cls)) = t)],
         errors     |-> Count(priced, Failed),
         returned   |-> Total(FilterMap(LAMBDA o :
             IF o.dl = None THEN None ELSE IF o.len = None THEN 0 ELSE o.len,
             gets)),
         unmeasured |-> Count(gets, LAMBDA o : o.dl = None /\ o.len # None)]
=============================================================================
