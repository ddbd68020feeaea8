---------------------------- MODULE AdaptivePool ----------------------------
(***************************************************************************)
(* AdaptivePool of hybrid.rs: one LRU segment in which unused prefetches   *)
(* hold at most pf_budget slots.                                           *)
(***************************************************************************)
EXTENDS WLfu, Subsequence

PoolNew(cap, most) ==
    [seg |-> <<>>, cap |-> Floor2(cap), pf_unused |-> 0, pf_budget |-> 1, budget_max |-> Max({most, 1}), drops |-> 0]

Reward(p) == [p EXCEPT !.pf_budget = Min({@ + 1, p.budget_max})]
(* penalize, once for each of n drops: the budget halved, but never gone.  *)
PenalizeBy(p, n) == [p EXCEPT !.pf_budget = Max({1} \cup { b \in 1 .. @ : b * 2 ^ n <= @ })]

PHas(p, k) == k \in Ids(p.seg)
PFirstUse(p, k) == PHas(p, k) /\ EntryOf(p.seg, k).pf

PAccess(p, k) ==
    [p EXCEPT !.seg = Touch(@, k), !.pf_unused = @ - IF PFirstUse(p, k) THEN 1 ELSE 0]

(* evict_to_fit: unused prefetches over the budget, oldest first, and then *)
(* whatever is oldest.                                                     *)
Shed(p, I) ==
    LET n == Unused(p.seg) - Unused(Kept(p.seg, I))
    IN  [p EXCEPT !.seg = Kept(@, I), !.pf_unused = @ - n, !.drops = @ + n]
TrimSpeculation(p) ==
    LET over == Max({p.pf_unused - p.pf_budget, 0})
        older(i) == { h \in 1 .. i : p.seg[h].pf }
    IN  Shed(p, { i \in DOMAIN p.seg : ~p.seg[i].pf \/ Cardinality(older(i)) > over })
TrimTail(p) == Shed(p, Max({Len(p.seg) - p.cap, 0}) + 1 .. Len(p.seg))
PoolFit(p) == TrimTail(TrimSpeculation(p))

PInsert(p, k, pf) ==
    IF PHas(p, k) THEN [p EXCEPT !.seg = Bump(@, k)]
    ELSE PoolFit([p EXCEPT !.seg = Append(@, Entry(k, pf)), !.pf_unused = @ + IF pf THEN 1 ELSE 0])

ForgetSilently(p, k) ==                       \* a fault: a written prefetch is not counted out
    [p EXCEPT !.seg = Others(@, k)]
PInvalidate(p, k) ==
    LET n == IF PFirstUse(p, k) THEN 1 ELSE 0
    IN  [p EXCEPT !.seg = Others(@, k), !.pf_unused = @ - n, !.drops = @ + n]
=============================================================================
