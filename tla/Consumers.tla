------------------------------ MODULE Consumers ------------------------------
(* The commands that read a capture: doctor, doctor --cost and --baseline,   *)
(* advise, scorecard, analyze. The input is read a line at a time, parsed a  *)
(* batch at a time, judged once, and answered with an exit code.             *)
EXTENDS DoctorDiff, Scorecard, Caching

CONSTANTS
    Inputs,      \* pairs: the lines a file and its baseline are drawn from
    BATCH,       \* lines parsed at a time (PARSE_BATCH_BYTES)
    MAX_EVENTS   \* events analyze keeps; it reads one more

VARIABLES
    cmd,         \* the command
    strict,      \* its --strict flag
    input,       \* which of the Inputs it reads
    at,          \* the last line read
    taken,       \* the lines read of the primary input, by number
    batch,       \* lines read and not parsed
    parsed,      \* what the parser made of the lines before them
    capture,     \* the primary input, while a baseline is read
    phase,       \* "read", "baseline" or "done"
    told,        \* the answer was written before the reader went away
    code         \* the exit code
vars == <<cmd, strict, input, at, taken, batch, parsed, capture, phase, told,
          code>>

Commands == {"doctor", "cost", "baseline", "advise", "scorecard", "analyze"}
EXIT_NOTHING_JUDGEABLE == 2
EXIT_TOOL_FAILURE      == 4

Traced == cmd = "analyze"
Parse(line) == IF Traced THEN classify_trace_line(line)
               ELSE parse_records(line)
Empty    == IF Traced THEN NoEvent ELSE Nothing
Unread   == IF Traced THEN Skipped ELSE [Nothing EXCEPT !.bad = 1]
Flushed(ls) == FoldLeft(LAMBDA acc, l : Merge(acc, Parse(l)), parsed, ls)

Init ==
    /\ cmd \in Commands /\ strict \in BOOLEAN /\ input \in DOMAIN Inputs
    /\ at = 0 /\ taken = <<>> /\ batch = <<>> /\ phase = "read"
    /\ parsed = Empty /\ capture = Nothing.records
    /\ told = FALSE /\ code = None

-----------------------------------------------------------------------------
(* stream_records and stream_bounded: the first parses a batch when it is   *)
(* full, the second no later than when it might hold the last event wanted. *)
hard == MAX_EVENTS + 1
Budget == IF Traced THEN Min({BATCH, hard - Len(parsed.events)}) ELSE BATCH
FullBatch == BATCH               \* a fault: the last batch may overshoot
FlushAt == Budget
Wanted == Traced => Len(parsed.events) < hard

Lines == Inputs[input][IF phase = "baseline" THEN 2 ELSE 1]
Take(line) ==
    IF line.form \in {"long", "binary"}
    THEN parsed' = Merge(parsed, Unread) /\ UNCHANGED batch
    ELSE IF Len(batch) + 1 >= FlushAt
    THEN parsed' = Flushed(Append(batch, line)) /\ batch' = <<>>
    ELSE batch' = Append(batch, line) /\ UNCHANGED parsed

ReadLine ==
    /\ phase \in {"read", "baseline"} /\ Wanted
    /\ \E i \in at + 1 .. Len(Lines) :
          /\ at' = i
          /\ Take(Lines[i])
          /\ taken' = IF phase = "read" THEN Append(taken, i) ELSE taken
    /\ UNCHANGED <<cmd, strict, input, capture, phase, told, code>>

-----------------------------------------------------------------------------
(* The exit codes.                                                          *)
DiffCode(d) == IF regressed_with(d, strict) THEN 1 ELSE 0
DiffAlone(current, base) ==                  \* a fault: the diff answers alone
    DiffCode(diff(current, base))
BaselineCode(current, base) ==
    IF verdict_exit_code(current, strict) = EXIT_NOTHING_JUDGEABLE
    THEN EXIT_NOTHING_JUDGEABLE ELSE DiffCode(diff(current, base))
report_and_code(current, base) == BaselineCode(analyze(current), analyze(base))

ConsumerCode(c) ==
    CASE cmd = "doctor"    -> verdict_exit_code(analyze(c), strict)
      [] cmd = "cost"      -> 0
      [] cmd = "advise"    -> advisory_exit(c, strict)
      [] cmd = "scorecard" -> scorecard_exit(scorecard(c), strict)

Answer(c) ==                     \* a closed reader is a clean stop
    /\ told' \in BOOLEAN /\ code' = IF told' THEN c ELSE 0
    /\ phase' = "done"
Refuse(c) == code' = c /\ phase' = "done" /\ UNCHANGED told
Fail      == Refuse(EXIT_TOOL_FAILURE)

Consume ==
    LET all == Flushed(batch)
    IN  /\ phase = "read" /\ ~Traced /\ cmd # "baseline"
        /\ parsed' = all /\ batch' = <<>>
        /\ IF all.records = <<>> THEN Fail ELSE Answer(ConsumerCode(all.records))
        /\ UNCHANGED <<cmd, strict, input, at, taken, capture>>

OpenBaseline ==
    LET all == Flushed(batch)
    IN  /\ phase = "read" /\ cmd = "baseline"
        /\ batch' = <<>>
        /\ IF all.records = <<>>
           THEN Fail /\ parsed' = all /\ UNCHANGED <<at, capture>>
           ELSE /\ phase' = "baseline" /\ capture' = all.records
                /\ parsed' = Nothing /\ at' = 0
                /\ UNCHANGED <<told, code>>
        /\ UNCHANGED <<cmd, strict, input, taken>>

Compare ==
    LET all == Flushed(batch)
    IN  /\ phase = "baseline"
        /\ parsed' = all /\ batch' = <<>>
        /\ IF all.records = <<>> THEN Fail
           ELSE Answer(report_and_code(capture, all.records))
        /\ UNCHANGED <<cmd, strict, input, at, taken, capture>>

(* A capture with no demand read was read and could not be judged; without  *)
(* any record it was no trace.                                              *)
Analyze ==
    LET all == Flushed(batch)
    IN  /\ phase = "read" /\ Traced
        /\ parsed' = all /\ batch' = <<>>
        /\ IF all.events # <<>> THEN Answer(0)
           ELSE IF all.dropped > 0 \/ all.other > 0
           THEN Refuse(EXIT_NOTHING_JUDGEABLE)
           ELSE Fail
        /\ UNCHANGED <<cmd, strict, input, at, taken, capture>>

Next == ReadLine \/ Consume \/ OpenBaseline \/ Compare \/ Analyze
Spec == Init /\ [][Next]_vars

-----------------------------------------------------------------------------
(* Properties. Those of a report are checked once per capture.              *)
Reported == phase = "done" /\ cmd = "doctor" /\ ~strict /\ told

(* Reading line by line in batches is reading the whole input at once: no   *)
(* record is lost or parsed twice at a batch's end, every unusable line is  *)
(* counted, and analyze stops exactly at its bound.                         *)
Whole ==
    LET What(l) == IF l.form \in {"long", "binary"} THEN Unread ELSE Parse(l)
    IN  FoldLeft(LAMBDA acc, i : Merge(acc, What(Inputs[input][1][i])),
                 Empty, taken)
StreamIsWhole ==
    phase = "done" /\ cmd # "baseline" =>
        /\ parsed = Whole
        /\ Traced => Len(parsed.events) <= hard

(* No command that judges answers 0 over a capture in which S3 answered     *)
(* nothing, with --baseline no more than without.                           *)
GreenWasAnswered ==
    LET c == IF cmd = "baseline" THEN capture ELSE parsed.records
    IN  /\ phase = "done" /\ told /\ cmd \notin {"cost", "analyze"}
        /\ code = 0
        => Answered(Operations(c)) > 0

(* The order of a capture's records is that of closes and drains: no report *)
(* depends on it, nor on which of two connections of one cookie came last.  *)
(* The caching check does: it replays the file in its order.                *)
OrderIsNoise ==
    LET c == parsed.records IN Reported =>
        /\ analyze(Reverse(c)) = analyze(c)
        /\ scorecard(Reverse(c)) = scorecard(c)
        /\ record_checks(Reverse(c)) = record_checks(c)

(* A capture that lost a record never resolves a warning of the whole one.  *)
LossNeverResolves ==
    LET c == parsed.records IN Reported =>
        \A i \in DOMAIN c :
            \A d \in deltas(analyze(RemoveAt(c, i)), analyze(c)) :
                d.kind # "Resolved"

(* A published baseline is what the ratio was taken over: no finding quotes *)
(* one path's round trip for a number measured on another.                  *)
RatioIsOfBaseline ==
    LET c == parsed.records IN Reported =>
        \A f \in findings(analyze(c)) :
            f.ratio # None /\ f.baseline # None =>
                Ratio(f.value, f.baseline) = f.ratio

(* Doctor, scorecard and --cost count the same errors, and the first two    *)
(* divide them by the same operations.                                      *)
RatesAgree ==
    LET c == parsed.records IN Reported =>
        LET table == rows(c)
            over(F(_)) == FoldSet(LAMBDA r, n : n + F(r), 0, table)
        IN  /\ cost(c).errors =
                   over(LAMBDA r : IF r.op = None THEN 0 ELSE r.errors)
            /\ \A f \in {f \in findings(analyze(c)) : f.id = "http_errors"} :
                /\ f.judged = over(LAMBDA r : r.ops)
                /\ f.value # None => f.value = over(LAMBDA r : r.errors)
                /\ f.value = None => table = {}

(* Advise and analyze judge one capture by one matrix, though each climbs a *)
(* ladder of its own and each drops what is partial for itself: they agree  *)
(* on what cannot be judged and on whether reuse pays, analyze finds no     *)
(* less than advise, and more only where a write was truncated. Without a   *)
(* write every verdict is the same, and none is for the latency alone: what *)
(* a prefetch could serve, a cache of every object would have served.       *)
Verdict(advice) ==
    LET checks == {a.check : a \in advice}
    IN  CASE "cache-go" \in checks         -> "go"
          [] "cache-go-latency" \in checks -> "go-latency"
          [] "cache-nogo" \in checks       -> "nogo"
          [] "cache-unjudged" \in checks   -> "unjudged"
Alike(ops, trace, advice, report) ==
    LET whole    == \A o \in Range(ops) : ~o.partial
        writes   == {e \in Range(trace) : e.op \in {"Put", "Delete"}}
        ceilings == {a.value : a \in {a \in advice : a.check = "cache-go"}}
    IN  advice # {} /\ Len(ops) <= SAMPLED_OPS
                    /\ Cardinality(Keys(trace)) <= MAX_CAP =>
            /\ report.ranged_unjudged =
                   \E a \in advice : /\ a.check = "cache-unjudged"
                                     /\ a.value = "ranged"
            /\ \A n \in ceilings : /\ report.verdict = "go"
                                    /\ report.lru_max >= n
                                    /\ whole => report.lru_max = n
            /\ whole /\ report.verdict = "go" => ceilings # {}
            /\ writes = {} => /\ Verdict(advice) = report.verdict
                              /\ report.verdict # "go-latency"
AsLines(c) == [i \in DOMAIN c |-> [form |-> "record", rec |-> c[i]]]
VerdictsAgree ==
    LET c   == parsed.records
        ops == to_op_records(c)
    IN  Reported => Alike(ops, from_records(ops), advise_caching(ops),
                          analyze_trace(load_trace(AsLines(c)).events))

(* The figures a reader can hold against one another: a ratio and the two   *)
(* values it is printed with, one count in three reports, one verdict in    *)
(* two.                                                                     *)
FiguresAgree == RatioIsOfBaseline /\ RatesAgree /\ VerdictsAgree

(* Splitting the intervals over buckets neither makes nor loses a byte.     *)
BytesConserved ==
    LET c == parsed.records IN Reported =>
        \A dir \in {"up", "down"} :
            LET segs == SelectSeq(Segments(Samples(c)),
                                  LAMBDA g : seg_direction(g) = dir)
            IN  Bytes(Shares(Samples(c), dir)) =
                Total([k \in DOMAIN segs |->
                          Flow(dir, segs[k][Len(segs[k])])
                              - Flow(dir, segs[k][1])])

(* What the capture lost of an operation never makes the advice harsher,    *)
(* in the checks that do not time the operations.                           *)
Untimed == {"redundant-refetch", "head-then-get", "throttling"}
Harshness(advice, check, scope) ==
    LET own == {a \in advice : a.check = check /\ a.scope = scope}
    IN  IF \E a \in own : a.severity = "Warn" THEN 2
        ELSE IF \E a \in own : a.severity = "Advisory" THEN 1 ELSE 0
PartialNeverEscalates ==
    LET c == parsed.records IN Reported =>
        \A i \in {i \in DOMAIN c : c[i].kind = "op"} :
            LET less == record_checks([c EXCEPT ![i].partial = TRUE])
            IN  \A a \in {a \in less : a.check \in Untimed} :
                    Harshness(less, a.check, a.scope)
                        <= Harshness(record_checks(c), a.check, a.scope)

(* A size is published only where there is reuse to size for ("callers must *)
(* also refuse to publish a knee when there is no reuse to size for").      *)
NoKneeWithoutReuse ==
    Reported => \A a \in advise_caching(to_op_records(parsed.records)) :
                    a.check = "cache-size" => a.saves > 0
=============================================================================
