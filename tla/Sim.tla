--------------------------------- MODULE Sim ---------------------------------
(***************************************************************************)
(* sim.rs: the LRU simulator of residency. A cache is its capacity, the    *)
(* bytes its counter says it holds, and its entries from the least to the  *)
(* most recently used. In count mode every size is 1.                      *)
(***************************************************************************)
EXTENDS Subsequence, SequencesExt, FiniteSetsExt

Entry(k, size, pf) == [id |-> k, size |-> size, pf |-> pf]
SimNew(cap) == [cap |-> cap, used |-> 0, order |-> <<>>]

Ids(c) == { c.order[i].id : i \in DOMAIN c.order }
SimHas(c, k) == k \in Ids(c)
EntryOf(c, k) == CHOOSE e \in Range(c.order) : e.id = k
Others(c, k) == Kept(c.order, { i \in DOMAIN c.order : c.order[i].id # k })
Held(order) == UNION { {e.id} \X (1 .. e.size) : e \in Range(order) }
Bytes(order) == Cardinality(Held(order))

(* evict_to_fit: as many of the oldest entries as it takes.                *)
EvictToFit(c) ==
    LET fits(n) == c.used - Bytes(SubSeq(c.order, 1, n)) <= c.cap
        n == Min({ i \in 0 .. Len(c.order) : fits(i) \/ i = Len(c.order) })
    IN  [c EXCEPT !.order = SubSeq(@, n + 1, Len(@)), !.used = @ - Bytes(SubSeq(c.order, 1, n))]

(* A hit takes the size this access moved, and becomes the most recent     *)
(* before anything is evicted.                                             *)
SimTouch(c, k, size) ==
    EvictToFit([c EXCEPT !.used = @ - EntryOf(c, k).size + size,
                         !.order = Append(Others(c, k), Entry(k, size, FALSE))])

(* The first real use of a prefetched entry, which happens once.           *)
FirstUse(c, k) == SimHas(c, k) /\ EntryOf(c, k).pf

SimInsert(c, k, size, pf) ==
    IF SimHas(c, k) THEN [c EXCEPT !.order = Append(Others(c, k), EntryOf(c, k))]
    ELSE EvictToFit([c EXCEPT !.used = @ + size, !.order = Append(@, Entry(k, size, pf))])

SimInvalidate(c, k) ==
    IF SimHas(c, k) THEN [c EXCEPT !.used = @ - EntryOf(c, k).size, !.order = Others(c, k)] ELSE c

SimBounded(c) == c.used = Bytes(c.order) /\ c.used <= c.cap /\ Cardinality(Ids(c)) = Len(c.order)
=============================================================================
