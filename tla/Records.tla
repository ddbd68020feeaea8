------------------------------- MODULE Records -------------------------------
(* The records of a capture file and the statistics its readers take.       *)
(* Times are in tenths of a millisecond and ratios in hundredths: whole     *)
(* numbers for every value the models use. A file is a sequence of records, *)
(* whose kinds are "op", "conn" and "sample"; absent fields are None.       *)
EXTENDS Integers, SequencesExt

CONSTANTS
    None,                \* an absent field
    MAX_PLAUSIBLE_RTT    \* a longer round trip is a kernel sentinel

Operations(file)  == SelectSeq(file, LAMBDA r : r.kind = "op")
Connections(file) == SelectSeq(file, LAMBDA r : r.kind = "conn")
Samples(file)     == SelectSeq(file, LAMBDA r : r.kind = "sample")

FilterMap(F(_), s) ==
    SelectSeq([i \in DOMAIN s |-> F(s[i])], LAMBDA x : x # None)
Count(s, P(_)) == Len(SelectSeq(s, P))
Total(s)       == FoldLeft(LAMBDA a, b : a + b, 0, s)
Largest(s)     == Max({s[i] : i \in DOMAIN s})
Smallest(s)    == Min({s[i] : i \in DOMAIN s})

median(xs) ==
    LET n == Len(xs)
        s == SortSeq(xs, <)
    IN  CASE n = 0     -> None
          [] n % 2 = 1 -> s[n \div 2 + 1]
          [] OTHER     -> (s[n \div 2] + s[n \div 2 + 1]) \div 2

pctl(xs, p) ==                    \* the nearest rank, from the ceiling
    LET n    == Len(xs)
        rank == (p * n + 99) \div 100
    IN  IF n = 0 THEN None
        ELSE SortSeq(xs, <)[Max({1, Min({rank, n})})]

Live(v)  == v # None /\ v # 0 /\ v < MAX_PLAUSIBLE_RTT
Rtt(v)   == IF Live(v) THEN v ELSE None
Ratio(a, b) == (100 * a) \div b

(* The operations a reader may draw a conclusion from.                      *)
is_eligible(o) == (o.status = None \/ o.status < 400) /\ ~o.partial /\ o.clean
is_timeable(o) == is_eligible(o) /\ o.status # None
Failed(o)      == o.status # None /\ o.status >= 400

classify_status(s) ==
    CASE s \in {429, 503} -> "Throttle"
      [] s = 403          -> "Forbidden"
      [] s = 404          -> "NotFound"
      [] s = 400          -> "BadRequest"
      [] s \in (401 .. 499) \ {403, 404, 429} -> "ClientError"
      [] s >= 500 /\ s # 503 -> "ServerError"
      [] OTHER            -> "Success"

(* Names reach a terminal: their control bytes are replaced, so two names   *)
(* may become one. A name is a pair: what is left, and what is replaced.    *)
sanitize_term(name) == name[1]
GetObject  == <<"GetObject", 0>>
PutObject  == <<"PutObject", 0>>
HeadObject == <<"HeadObject", 0>>
=============================================================================
