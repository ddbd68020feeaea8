------------------------------ MODULE MCReplay ------------------------------
(***************************************************************************)
(* The replays for TLC, one of them at a time: a turn is drawn, and the    *)
(* others stay where they start. All have five objects. ARC has two slots, *)
(* so a directory of four, W-LFU one of window and one of main, the link's *)
(* cache two; the caches of Replay have four slots, S3-FIFO, whose stale   *)
(* slots multiply the states, two and three objects. The sweep has a bound *)
(* of its own and two objects, of two blocks, whose names have an order.   *)
(***************************************************************************)
EXTENDS Replay, ArcReplay, LfuReplay, Link, Sweep, TLC

CONSTANTS o1, o2, o3, o4, o5, a, b

VARIABLE turn

MCSymmetry == Permutations({o1, o2, o3}) \cup Permutations({o4, o5})

MCObjectsOf ==
    [p \in Policies |-> IF p = "s3fifo" THEN {o1, o2, o3} ELSE {o1, o2, o3, o4, o5}]
MCCapOf == [p \in Policies |-> IF p = "s3fifo" THEN 2 ELSE 4]

MCSweepObjects == {a, b}
MCRank == [o \in MCSweepObjects |-> IF o = a THEN 0 ELSE 1]

allVars == <<vars, arc, lfuVars, link, sweepVars, turn>>

MCInit ==
    /\ turn \in {"replay", "arc", "lfu", "link", "sweep"}
    /\ Init /\ ArcStart /\ LfuStart /\ LinkStart /\ SweepStart
    /\ turn # "replay" => policy = "bytes"
    /\ turn # "lfu" => ~gated
    /\ turn # "link" => link.disc = "fifo"

MCNext ==
    \/ turn = "replay" /\ Next /\ UNCHANGED <<arc, lfuVars, link, sweepVars, turn>>
    \/ turn = "arc" /\ ArcNext /\ UNCHANGED <<vars, lfuVars, link, sweepVars, turn>>
    \/ turn = "lfu" /\ LfuNext /\ UNCHANGED <<vars, arc, link, sweepVars, turn>>
    \/ turn = "link" /\ LinkNext /\ UNCHANGED <<vars, arc, lfuVars, sweepVars, turn>>
    \/ turn = "sweep" /\ SweepNext /\ UNCHANGED <<vars, arc, lfuVars, link, turn>>
    \/ turn = "sweep" /\ Len(trace) = MaxEvents /\ UNCHANGED allVars

MCSpec == MCInit /\ [][MCNext]_allVars
=============================================================================
