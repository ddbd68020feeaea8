------------------------------ MODULE ArcReplay ------------------------------
(***************************************************************************)
(* eval_arc_caps: ARC over an endless trace of reads and writes.           *)
(***************************************************************************)
EXTENDS ReplayTrace, Arc

VARIABLE arc

ArcStart == arc = ArcNew

ArcGet(k) == arc' = ArcAccess(Cap, arc, k)
ArcWrite(k) == arc' = ArcInvalidate(arc, k)

ArcNext == \E k \in Objects : ArcGet(k) \/ ArcWrite(k)

ArcSpec == ArcStart /\ [][ArcNext]_arc

-----------------------------------------------------------------------------
(* PROPERTIES                                                              *)

(* The invariants of the paper, which arc.rs states at its head: the lists *)
(* keep their bounds across the holes that writes leave, the target of t1  *)
(* stays within the capacity, and no key is in two lists, or twice in one. *)
ArcWithinBounds ==
    /\ Resident(arc) <= Cap /\ Recency(arc) <= Cap /\ Directory(arc) <= 2 * Cap
    /\ arc.p \in 0 .. Cap
    /\ IsInjective(arc.t1 \o arc.t2 \o arc.b1 \o arc.b2)

(* A write leaves a hole that the next miss fills: a read gives up no      *)
(* object of a cache with room, whichever list its key comes from, and one *)
(* at most of a full one; what it read is held, and nothing else is new.   *)
Held == Range(arc.t1) \cup Range(arc.t2)
OneForOne ==
    [][\A k \in Objects : ArcGet(k) =>
          /\ k \in Held' /\ Held' \subseteq Held \cup {k}
          /\ Resident(arc) < Cap => Held \subseteq Held'
          /\ \E v \in Objects : Held \ {v} \subseteq Held']_arc

(* ARC as its file describes it: the bounds, and nothing given up for them *)
(* without need.                                                           *)
ArcPromise == []ArcWithinBounds /\ OneForOne
=============================================================================
