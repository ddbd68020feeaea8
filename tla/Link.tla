--------------------------------- MODULE Link ---------------------------------
(***************************************************************************)
(* link.rs: one access link that every fetch crosses, and an LRU cache     *)
(* whose entries know when their fetch lands. Times count from now, so an  *)
(* idle cursor or a landed entry is at 0 or before. flights remembers      *)
(* every fetch still under way, the ones the cache has lost included.      *)
(***************************************************************************)
EXTENDS ReplayTrace, Sequences, SequencesExt, FiniteSetsExt

CONSTANTS
    Rtt, Transfer,        \* LinkCfg: the request delay, the time one chunk takes
    Gaps,                 \* between two GETs
    MaxBacklog            \* bound: the replay is open-loop and its queue would grow

ASSUME LinkAssumption == Rtt \in Nat /\ Transfer \in Nat \ {0}
ASSUME GapAssumption == Gaps \subseteq Nat /\ MaxBacklog \in Nat

Fetch(k, ready, pf) == [id |-> k, ready |-> ready, pf |-> pf]
LinkNew(disc) == [disc |-> disc, demand_free |-> 0, any_free |-> 0, order |-> <<>>, flights |-> {}]

LinkHas(l, k) == \E i \in DOMAIN l.order : l.order[i].id = k
FetchOf(l, k) == CHOOSE e \in Range(l.order) : e.id = k
Rest(l, k) == RemoveFirstMatch(l.order, LAMBDA e : e.id = k)

Elapsed(x, d) == Max({x - d, 0})
Nearer(e, d) == [e EXCEPT !.ready = Elapsed(@, d)]
Advance(l, d) ==
    [l EXCEPT !.demand_free = Elapsed(@, d), !.any_free = Elapsed(@, d),
              !.order = [i \in DOMAIN @ |-> Nearer(@[i], d)],
              !.flights = { Nearer(f, d) : f \in { g \in @ : g.ready > d } }]

Enter(l, e) ==
    LET q == Append(l.order, e) IN [l EXCEPT !.order = IF Len(q) > Cap THEN Tail(q) ELSE q]

(* Preemption reorders the work: the link is charged for it all the same,  *)
(* and every prefetch it cut in front of lands one transfer later.         *)
PushedBack(e, cutoff) == IF e.pf /\ e.ready > cutoff THEN [e EXCEPT !.ready = @ + Transfer] ELSE e
QueueFrom(l) == IF l.disc = "fifo" THEN l.any_free ELSE l.demand_free
Start(l) == Max({Rtt, QueueFrom(l)})
CutsIn(l) == l.any_free > Start(l)

ChargeDone(l) == Max({l.any_free, Start(l) + Transfer})     \* a fault: free bandwidth
Charge(l) == Max({Max({l.any_free, Rtt}) + Transfer, Start(l) + Transfer})

DemandFetch(l, k) ==
    LET cut(e) == IF CutsIn(l) THEN PushedBack(e, Start(l)) ELSE e
        fetched == Fetch(k, Start(l) + Transfer, FALSE)
    IN  Enter([l EXCEPT !.demand_free = Max({@, fetched.ready}), !.any_free = Charge(l),
                        !.order = [i \in DOMAIN @ |-> cut(@[i])],
                        !.flights = { cut(f) : f \in @ } \cup {fetched}], fetched)

PrefetchFetch(l, k) ==
    LET fetched == Fetch(k, Max({Rtt, l.any_free}) + Transfer, TRUE)
    IN  Enter([l EXCEPT !.any_free = Max({@, fetched.ready}), !.flights = @ \cup {fetched}], fetched)

LinkTouch(l, k) == [l EXCEPT !.order = Append(Rest(l, k), FetchOf(l, k))]
LinkInvalidate(l, k) == [l EXCEPT !.order = Rest(l, k)]

-----------------------------------------------------------------------------
(* run_contended: a GET waits for the rest of a flight, or for a fetch of  *)
(* its own, and then prefetches the predicted object. A replay without a   *)
(* cache is, for the link, one that writes each object before its GET.     *)
VARIABLE link

LinkStart == \E disc \in {"fifo", "priority"} : link = LinkNew(disc)

LinkGet(k, gap, pid) ==
    /\ link.any_free - gap <= MaxBacklog
    /\ LET now == Advance(link, gap)
           got == IF LinkHas(now, k) THEN LinkTouch(now, k) ELSE DemandFetch(now, k)
       IN  link' = IF pid \in {None, k} \/ LinkHas(got, pid) THEN got ELSE PrefetchFetch(got, pid)

LinkWrite(k) == link' = LinkInvalidate(link, k)

LinkNext == \E k \in Objects :
    \/ \E gap \in Gaps, pid \in Objects \cup {None} : LinkGet(k, gap, pid)
    \/ LinkWrite(k)

LinkSpec == LinkStart /\ [][LinkNext]_link

-----------------------------------------------------------------------------
(* PROPERTIES                                                              *)

(* The contended link creates no bandwidth: whichever of demand and        *)
(* prefetch goes first, transfers land one at a time, and no more of them  *)
(* than the link could carry (two at most are part-way: a demand and the   *)
(* prefetch it cut in front of); its cursor is where the last one lands,   *)
(* and a cached entry in flight lands when its transfer does.              *)
LinkConserves ==
    /\ \A f, g \in link.flights : f.ready = g.ready => f = g
    /\ \A f \in link.flights :
          Transfer * (Cardinality({ g \in link.flights : g.ready <= f.ready }) - 2) < f.ready
    /\ link.flights # {} => link.any_free = Max({ f.ready : f \in link.flights })
    /\ \A i \in DOMAIN link.order : link.order[i].ready > 0 => link.order[i] \in link.flights
    /\ Len(link.order) <= Cap /\ link.demand_free <= link.any_free
=============================================================================
