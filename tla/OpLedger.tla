------------------------------ MODULE OpLedger ------------------------------
(***************************************************************************)
(* What the correlation engine owes the requests it saw, without any of    *)
(* the maps it keeps them in: a request is opened under the next free id,  *)
(* and from then on it is in flight until it is reported, directly or      *)
(* after waiting in the queue the caller empties. It is never forgotten,   *)
(* never reported twice, and never reopened.                               *)
(***************************************************************************)
EXTENDS Integers

CONSTANT Ids            \* 1 .. n

VARIABLE stage          \* id -> where its request is

Stages == {"unborn", "open", "due", "reported"}

(* What one event may do to one request. *)
Moves == { <<"unborn", "open">>, <<"open", "due">>, <<"open", "reported">>,
           <<"due", "reported">> }

Init == stage = [i \in Ids |-> "unborn"]

(* One event opens at most one request and may report, or queue, several.  *)
Advance ==
    /\ stage' \in [Ids -> Stages]
    /\ \A i \in Ids : stage'[i] = stage[i] \/ <<stage[i], stage'[i]>> \in Moves
    /\ \A i, j \in Ids : (stage[i] = "unborn" /\ stage'[i] # "unborn" /\ j < i) =>
          stage[j] # "unborn"

Spec == Init /\ [][Advance]_stage
=============================================================================
