----------------------------- MODULE RecordStream -----------------------------
(***************************************************************************)
(* What the agent promises the reader of its output: lines arrive in the   *)
(* order of their emit and whole, none twice; while the capture runs, some may be  *)
(* dropped, and those are counted; once it is closing, none is.            *)
(***************************************************************************)
EXTENDS Sequences, SequencesExt

VARIABLES
    emitted,    \* every line, in the order of its emit
    delivered,  \* the lines the reader has got
    lost,       \* the lines counted as dropped
    closing     \* the capture loop is over

Init == emitted = <<>> /\ delivered = <<>> /\ lost = {} /\ closing = FALSE

Emit == /\ Len(emitted') > Len(emitted) /\ IsPrefix(emitted, emitted')
        /\ IsInjective(emitted')
        /\ UNCHANGED <<delivered, lost, closing>>

(* Lines in the order of their emit.                                       *)
Ordered(lines) ==
    \A i, j \in DOMAIN lines : i < j =>
        \E x, y \in DOMAIN emitted : x < y /\ emitted[x] = lines[i] /\ emitted[y] = lines[j]

(* The reader has got every line up to some place, but for the lost ones.  *)
Deliver == /\ IsStrictPrefix(delivered, delivered')
           /\ Ordered(delivered')
           /\ \E n \in DOMAIN emitted :
                 Range(delivered') = { emitted[i] : i \in 1 .. n } \ lost
           /\ UNCHANGED <<emitted, lost, closing>>

Lose == /\ ~closing
        /\ lost \subseteq lost'
        /\ lost' \subseteq lost \cup (Range(emitted) \ Range(delivered))
        /\ UNCHANGED <<emitted, delivered, closing>>

Close == closing' = TRUE /\ UNCHANGED <<emitted, delivered, lost>>

Next == Emit \/ Deliver \/ Lose \/ Close

Spec == Init /\ [][Next]_<<emitted, delivered, lost, closing>>
=============================================================================
