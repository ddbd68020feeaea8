----------------------------- MODULE ReplayTrace -----------------------------
(***************************************************************************)
(* What the replays of one cache have in common: an endless trace of GETs  *)
(* and writes (PUT and DELETE invalidate alike; HEAD and the rest are      *)
(* no-ops of every replay), and a capacity counted in objects.             *)
(***************************************************************************)
EXTENDS Integers

CONSTANTS
    Objects,              \* the keys of the trace
    None,                 \* a predictor that names no object
    Cap                   \* the capacity that is asked for

ASSUME TraceAssumption == None \notin Objects /\ Cap \in Nat \ {0}
=============================================================================
