-------------------------------- MODULE WLfu --------------------------------
(***************************************************************************)
(* Seg and WLfu of hybrid.rs: a recency window before a main segment with  *)
(* frequency admission or, with no main, a plain LRU.                      *)
(***************************************************************************)
EXTENDS Integers, Sequences, SequencesExt, FiniteSetsExt

(* Seg: a segment whose entries say whether they were prefetched and not   *)
(* yet used, from the least to the most recent one.                        *)
Entry(k, pf) == [id |-> k, pf |-> pf]
Ids(q) == { q[i].id : i \in DOMAIN q }
EntryOf(q, k) == CHOOSE e \in Range(q) : e.id = k
Others(q, k) == RemoveFirstMatch(q, LAMBDA e : e.id = k)

(* touch takes the prefetch credit, bump leaves it.                        *)
Touch(q, k) == IF k \in Ids(q) THEN Append(Others(q, k), Entry(k, FALSE)) ELSE q
Bump(q, k) == IF k \in Ids(q) THEN Append(Others(q, k), EntryOf(q, k)) ELSE q
Unused(q) == Cardinality({ e \in Range(q) : e.pf })
Credit(e) == IF e.pf THEN 1 ELSE 0

Floor2(cap) == Max({cap, 2})
Drained(c) == [c EXCEPT !.drops = 0]

-----------------------------------------------------------------------------
WLfuNew(cap) ==
    LET wcap == Max({Floor2(cap) \div 10, 1})
    IN  [window |-> <<>>, main |-> <<>>, wcap |-> wcap, mcap |-> Max({Floor2(cap) - wcap, 1}), drops |-> 0]
LruNew(cap) == [window |-> <<>>, main |-> <<>>, wcap |-> Floor2(cap), mcap |-> 0, drops |-> 0]

WHas(w, k) == k \in Ids(w.window) \cup Ids(w.main)
WFirstUse(w, k) == WHas(w, k) /\ EntryOf(w.window \o w.main, k).pf
WAccess(w, k) == [w EXCEPT !.window = Touch(@, k), !.main = Touch(@, k)]

(* What falls out of the window enters a main with room, or in the place   *)
(* of main's oldest entry when the sketch calls it hotter.                 *)
Demoted(w, e, hotter) ==
    CASE Len(w.main) < w.mcap -> [w EXCEPT !.main = Append(@, e)]
      [] Len(w.main) >= w.mcap /\ w.main # <<>> /\ hotter ->
            [w EXCEPT !.main = Append(Tail(@), e), !.drops = @ + Credit(Head(w.main))]
      [] OTHER -> [w EXCEPT !.drops = @ + Credit(e)]

WInsert(w, k, pf, hotter) ==
    IF WHas(w, k) THEN [w EXCEPT !.window = Bump(@, k), !.main = Bump(@, k)]
    ELSE LET q == Append(w.window, Entry(k, pf))
         IN  IF Len(q) <= w.wcap THEN [w EXCEPT !.window = q]
             ELSE Demoted([w EXCEPT !.window = Tail(q)], Head(q), hotter)

WForget(w, k) ==                              \* a fault: a written prefetch is not reported
    [w EXCEPT !.window = Others(@, k), !.main = Others(@, k)]
WInvalidate(w, k) ==
    [w EXCEPT !.window = Others(@, k), !.main = Others(@, k),
              !.drops = @ + IF WFirstUse(w, k) THEN 1 ELSE 0]
=============================================================================
