--------------------------------- MODULE Arc ---------------------------------
(***************************************************************************)
(* The adaptive replacement cache of arc.rs. A cache `a` holds the four    *)
(* lists and the target p of t1; c is its capacity.                        *)
(***************************************************************************)
EXTENDS Integers, Sequences, SequencesExt, FiniteSetsExt

(* LruList: keys from the least to the most recently used. The code keeps  *)
(* a stamp per key and a map from stamps to keys; here the sequence is     *)
(* both.                                                                   *)
Has(q, k) == k \in Range(q)
Without(q, k) == RemoveFirst(q, k)
Touched(q, k) == Append(Without(q, k), k)
PopLru(q) == IF q = <<>> THEN q ELSE Tail(q)

ArcNew == [p |-> 0, t1 |-> <<>>, t2 |-> <<>>, b1 |-> <<>>, b2 |-> <<>>]

Resident(a) == Len(a.t1) + Len(a.t2)
Recency(a) == Len(a.t1) + Len(a.b1)
Directory(a) == Resident(a) + Len(a.b1) + Len(a.b2)

RatioAtLeastOne(x, y) == IF y = 0 THEN 1 ELSE Max({1, x \div y})

(* REPLACE(x, p): the requested key in b2 tips the boundary case.          *)
FromT1(a, k) ==
    /\ a.t1 # <<>>
    /\ Len(a.t1) > a.p \/ (Len(a.t1) = a.p /\ Has(a.b2, k))

Replace(a, k) ==
    CASE FromT1(a, k) -> [a EXCEPT !.t1 = Tail(@), !.b1 = Touched(@, Head(a.t1))]
      [] ~FromT1(a, k) /\ a.t2 # <<>> -> [a EXCEPT !.t2 = Tail(@), !.b2 = Touched(@, Head(a.t2))]
      [] OTHER -> a

EvictAlways(c, a, k) == Replace(a, k)         \* a fault: a hole costs an eviction
(* A hole that a write left is filled without an eviction.                 *)
EvictIfFull(c, a, k) == IF Resident(a) >= c THEN Replace(a, k) ELSE a

Promote(a, k) ==
    [a EXCEPT !.t1 = Without(@, k), !.b1 = Without(@, k), !.b2 = Without(@, k), !.t2 = Touched(@, k)]

GrowRecency(c, a) == [a EXCEPT !.p = Min({@ + RatioAtLeastOne(Len(a.b2), Len(a.b1)), c})]
GrowFrequency(a) == [a EXCEPT !.p = Max({@ - RatioAtLeastOne(Len(a.b1), Len(a.b2)), 0})]

(* Room for a key in no list: of a full cache a resident goes, of one with *)
(* a hole a ghost at most.                                                 *)
RoomInFull(c, a, k) ==
    CASE Recency(a) = c /\ Len(a.t1) < c -> Replace([a EXCEPT !.b1 = PopLru(@)], k)
      [] Recency(a) = c /\ Len(a.t1) >= c -> [a EXCEPT !.t1 = PopLru(@)]
      [] Recency(a) # c /\ Directory(a) >= c ->
            Replace(IF Directory(a) = 2 * c THEN [a EXCEPT !.b2 = PopLru(@)] ELSE a, k)
      [] OTHER -> a

TrimGhost(c, a) ==
    CASE Recency(a) = c -> [a EXCEPT !.b1 = PopLru(@)]
      [] Recency(a) # c /\ Directory(a) = 2 * c -> [a EXCEPT !.b2 = PopLru(@)]
      [] OTHER -> a

ArcHit(a, k) == Has(a.t1, k) \/ Has(a.t2, k)

ArcAccess(c, a, k) ==
    CASE ArcHit(a, k) -> Promote(a, k)
      [] Has(a.b1, k) -> Promote(EvictIfFull(c, GrowRecency(c, a), k), k)
      [] Has(a.b2, k) -> Promote(EvictIfFull(c, GrowFrequency(a), k), k)
      [] OTHER -> LET room == IF Resident(a) >= c THEN RoomInFull(c, a, k) ELSE TrimGhost(c, a)
                  IN  [room EXCEPT !.t1 = Touched(@, k)]

ArcInvalidate(a, k) ==
    [a EXCEPT !.t1 = Without(@, k), !.t2 = Without(@, k), !.b1 = Without(@, k), !.b2 = Without(@, k)]
=============================================================================
