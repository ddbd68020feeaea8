------------------------------ MODULE LfuReplay ------------------------------
(***************************************************************************)
(* run_hybrid and run_lead_gated: a cache of two segments, or one, with a  *)
(* prefetch of the predicted object after each GET. The predictor may name *)
(* any object, the sketch find either of two hotter.                       *)
(***************************************************************************)
EXTENDS ReplayTrace, WLfu

VARIABLES
    gated,                \* run_lead_gated
    lfu,
    owed                  \* prefetches issued, and neither used nor reported dropped

lfuVars == <<gated, lfu, owed>>

LfuStart ==
    /\ gated \in BOOLEAN
    /\ lfu = IF gated THEN LruNew(Cap) ELSE WLfuNew(Cap)
    /\ owed = 0

(* drops counts since the last event.                                      *)
Tally(used, issued, drops) == owed' = owed + issued - used - drops

Fetched(k, hot) == LET seen == WAccess(lfu, k) IN IF WHas(lfu, k) THEN seen ELSE WInsert(seen, k, FALSE, hot)
LfuIssues(k, pid, c) == pid # None /\ ~WHas(c, pid) /\ (gated => pid # k)

LfuGet(k, pid, hot1, hot2) ==
    /\ LET fetched == Fetched(k, hot1)
           issues == LfuIssues(k, pid, fetched)
           after == IF issues THEN WInsert(fetched, pid, TRUE, hot2) ELSE fetched
       IN  /\ lfu' = Drained(after)
           /\ Tally(IF WFirstUse(lfu, k) THEN 1 ELSE 0, IF issues THEN 1 ELSE 0, after.drops)
    /\ UNCHANGED gated

LfuWrite(k) ==
    /\ lfu' = Drained(WInvalidate(lfu, k))
    /\ Tally(0, 0, WInvalidate(lfu, k).drops)
    /\ UNCHANGED gated

LfuNext == \E k \in Objects :
    \/ \E pid \in Objects \cup {None}, hot1, hot2 \in BOOLEAN : LfuGet(k, pid, hot1, hot2)
    \/ LfuWrite(k)

LfuSpec == LfuStart /\ [][LfuNext]_lfuVars

-----------------------------------------------------------------------------
(* PROPERTIES                                                              *)

Entries == lfu.window \o lfu.main

(* What fell out of the window and was admitted to main, or not, is held   *)
(* once: neither segment exceeds its share, nor do both the capacity, and  *)
(* no object is in both or twice in one.                                   *)
LfuWithinBounds ==
    /\ Len(lfu.window) <= lfu.wcap /\ Len(lfu.main) <= lfu.mcap
    /\ Len(Entries) <= Floor2(Cap)
    /\ \A i, j \in DOMAIN Entries : Entries[i].id = Entries[j].id => i = j

(* Every prefetch is accounted for once: used, dropped unused or still in  *)
(* the cache, whichever of a write, an eviction from either segment, a     *)
(* lost admission or a hit gets to it first.                               *)
LfuAccounted == owed = Unused(Entries)

(* Both: every prefetch, and every object, is somewhere once.              *)
LfuCounted == LfuWithinBounds /\ LfuAccounted
=============================================================================
