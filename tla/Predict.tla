------------------------------- MODULE Predict -------------------------------
(***************************************************************************)
(* predict.rs: the predictors that learn from the GETs of a trace. A       *)
(* prediction is ranked by count and then by name; Rank is that order of   *)
(* the names, a function from the objects to the numbers.                  *)
(***************************************************************************)
EXTENDS Integers, Sequences, SequencesExt, FiniteSetsExt, Functions

CONSTANTS
    Rank,
    TopK,                 \* breadth k of the frequency predictor
    MaxContexts, MaxSuccessors,
    Window

Count(f, k) == IF k \in DOMAIN f THEN f[k] ELSE 0
Row(f, k) == IF k \in DOMAIN f THEN f[k] ELSE <<>>
With(f, k, v) == [x \in DOMAIN f \cup {k} |-> IF x = k THEN v ELSE f[x]]
Before(f, a, b) == f[a] > f[b] \/ (f[a] = f[b] /\ Rank[a] < Rank[b])
Ranked(f, S) == SetToSortSeq(S, LAMBDA a, b : Before(f, a, b))

(* ----- FrequencyPredictor: the top set is kept as the counts change ----- *)
FreqNew == [counts |-> <<>>, top |-> <<>>]

FirstSlot(f) == 1                             \* a fault: the first member goes, not the weakest
Weakest(f) ==
    Min({ i \in DOMAIN f.top : \A j \in DOMAIN f.top : f.counts[f.top[i]] <= f.counts[f.top[j]] })

FreqObserve(f, k) ==
    LET g == [f EXCEPT !.counts = With(@, k, Count(@, k) + 1)]
    IN  CASE k \in Range(g.top) -> g
          [] k \notin Range(g.top) /\ Len(g.top) < TopK -> [g EXCEPT !.top = Append(@, k)]
          [] OTHER -> IF g.counts[k] > g.counts[g.top[Weakest(g)]]
                      THEN [g EXCEPT !.top[Weakest(g)] = k] ELSE g

FreqPredict(f, k) == Ranked(f.counts, Range(f.top) \ {k})

(* A bounded table of rows of counts, its rows in order of their arrival.  *)
TableNew == [rows |-> <<>>, order |-> <<>>]
Learn(t, ctx, k) ==
    LET row == Row(t.rows, ctx)
        learnt == IF k \in DOMAIN row \/ Cardinality(DOMAIN row) < MaxSuccessors
                  THEN With(row, k, Count(row, k) + 1) ELSE row
        full == [rows |-> With(t.rows, ctx, learnt), order |-> Append(t.order, ctx)]
    IN  CASE ctx \in DOMAIN t.rows -> [t EXCEPT !.rows[ctx] = learnt]
          [] ctx \notin DOMAIN t.rows /\ Cardinality(DOMAIN full.rows) <= MaxContexts -> full
          [] OTHER -> [rows |-> Restrict(full.rows, DOMAIN full.rows \ {Head(full.order)}),
                       order |-> Tail(full.order)]

(* ----- MarkovPredictor: from the last `order` objects to the next ----- *)
MarkovNew(order) == [order |-> order, history |-> <<>>, trans |-> TableNew]

HasContext(m) == Len(m.history) = m.order
MarkovObserve(m, k) ==
    [m EXCEPT !.trans = IF HasContext(m) THEN Learn(@, m.history, k) ELSE @,
              !.history = IF Len(@) = m.order THEN Append(Tail(@), k) ELSE Append(@, k)]
MarkovPredict(m) ==
    IF HasContext(m) THEN LET row == Row(m.trans.rows, m.history) IN Ranked(row, DOMAIN row) ELSE <<>>

(* chain_ahead: the likeliest successor of the likeliest successor, while  *)
(* each step has support and the joint confidence is num in den or more.   *)
MIN_SUPPORT == 2
Further(m, c, conf) ==
    LET row == Row(m.trans.rows, <<c.at>>)
        total == FoldFunction(+, 0, row)
        best == Head(Ranked(row, DOMAIN row))
    IN  IF \/ ~c.sure \/ total < MIN_SUPPORT
           \/ c.hits * row[best] * conf.den < conf.num * c.seen * total THEN [c EXCEPT !.sure = FALSE]
        ELSE [c EXCEPT !.at = best, !.hits = @ * row[best], !.seen = @ * total]
ChainAhead(m, start, depth, conf) ==
    LET link[n \in 0 .. depth] ==
            IF n = 0 THEN [at |-> start, hits |-> 1, seen |-> 1, sure |-> TRUE]
            ELSE Further(m, link[n - 1], conf)
    IN  IF m.order = 1 /\ link[depth].sure THEN <<link[depth].at>> ELSE <<>>

(* ----- CoOccurrencePredictor: partners within a sliding window ----- *)
CoocNew == [recent |-> <<>>, co |-> TableNew]

Pair(t, a, b) == Learn(Learn(t, a, b), b, a)
CoocObserve(c, k) ==
    LET partners == SetToSortSeq(Range(c.recent) \ {k}, LAMBDA a, b : Rank[a] < Rank[b])
        recent == Append(c.recent, k)
    IN  [co |-> FoldLeft(LAMBDA t, o : Pair(t, k, o), c.co, partners),
         recent |-> IF Len(recent) > Window THEN Tail(recent) ELSE recent]
CoocPredict(c, k) == LET row == Row(c.co.rows, k) IN Ranked(row, DOMAIN row)

(* The bounds the tables keep, and the order that evicts from them.        *)
TableBounded(t) ==
    /\ Range(t.order) = DOMAIN t.rows /\ IsInjective(t.order)
    /\ Len(t.order) <= MaxContexts
    /\ \A c \in DOMAIN t.rows : Cardinality(DOMAIN t.rows[c]) \in 1 .. MaxSuccessors

(* No object outside the top set has been seen more often than one inside. *)
TopExact(f) ==
    /\ IsInjective(f.top) /\ Len(f.top) = Min({TopK, Cardinality(DOMAIN f.counts)})
    /\ \A k \in DOMAIN f.counts \ Range(f.top), t \in Range(f.top) : f.counts[k] <= f.counts[t]
=============================================================================
