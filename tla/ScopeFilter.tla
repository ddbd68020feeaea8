----------------------------- MODULE ScopeFilter -----------------------------
(***************************************************************************)
(* The per-application scope: the in-kernel allowlist filter_pids, whom    *)
(* the agent seats in it, and how the seats follow processes that fork,    *)
(* exec, exit and hand their pid on (filter.rs, engage_filter in main.rs,  *)
(* the sched probes of s3tap.bpf.c).                                       *)
(*                                                                         *)
(* A seat records why it was given: an explicit seat (--pid, --cgroup, or  *)
(* descent from one) is immune to exec; a seat earned by name is not. The  *)
(* agent learns of an exec from an event that a full ring loses, and reads *)
(* /proc only when it folds the event, so that each of its handlers is a   *)
(* reading step and a writing step between which processes go on.          *)
(*                                                                         *)
(* Abstracted: an executable either matches --app/--exe or is "other",     *)
(* which includes the executables the agent may not read; warnings.        *)
(***************************************************************************)
EXTENDS Integers, Sequences, FiniteSets

CONSTANTS
    Pids,           \* process ids (tgids)
    SpecPids,       \* those named by --pid
    NameScope,      \* whether there is an --app or an --exe
    Boxes,          \* may a process live in a cgroup of --cgroup: a subset of BOOLEAN
    MapCap,         \* capacity of filter_pids
    RingCap,        \* exec events the ring holds
    RESCAN_EVERY,   \* reaps per rescan of /proc
    MaxChurn,       \* bound: forks, execs and exits in a run
    None

ASSUME ScopeAssumption ==
    /\ SpecPids \subseteq Pids /\ IsFiniteSet(Pids)
    /\ NameScope \in BOOLEAN /\ Boxes \subseteq BOOLEAN
    /\ NameScope \/ SpecPids # {}          \* FilterSpec::is_active
    /\ MapCap \in Nat /\ Cardinality(SpecPids) <= MapCap
    /\ RingCap \in Nat /\ RESCAN_EVERY \in Nat \ {0} /\ MaxChurn \in Nat

Exes    == IF NameScope THEN {"match", "other"} ELSE {"other"}
Process == [exe : Exes, boxed : Boxes]
Tags    == {"explicit", "by_name"}          \* ADMIT_EXPLICIT, ADMIT_BY_NAME

ASSUME NoneAssumption == None \notin Process \cup Tags

VARIABLES
    proc,           \* pid -> the live process, None when the pid is free
    filter_pids,    \* pid -> the tag of its seat, None
    mode,           \* CFG_FILTER_MODE
    execs,          \* the EVT_PROC_EXEC queued on tls_events
    since_rescan,
    todo,           \* what the agent has read and not yet acted upon
    scope_drops,    \* SCOPE_FORK_FULL
    churn           \* bound: forks, execs and exits so far

agent  == <<since_rescan, todo>>
vars   == <<proc, filter_pids, mode, execs, since_rescan, todo, scope_drops, churn>>

Idle        == [step |-> "idle"]
Verdicts    == Tags \cup {"revoke"}
Active      == mode = "allowlist"
Alive(p)    == proc[p] # None
Matching(p) == Alive(p) /\ proc[p].exe = "match"
Seated(p)   == filter_pids[p] # None
Seats       == { p \in Pids : Seated(p) }
Full        == Cardinality(Seats) = MapCap

-----------------------------------------------------------------------------
(* Processes, and the probes on fork and exec. *)

Churn == churn < MaxChurn /\ churn' = churn + 1

(* handle_sched_process_fork: the child inherits the parent's seat and its *)
(* tag; an insertion the full map refuses is counted.                      *)
Fork(p, c) ==
    /\ Churn
    /\ Alive(p) /\ ~Alive(c)
    /\ proc' = [proc EXCEPT ![c] = proc[p]]
    /\ IF ~Active \/ ~Seated(p) THEN UNCHANGED <<filter_pids, scope_drops>>
       ELSE IF Full /\ ~Seated(c)
       THEN scope_drops' = scope_drops + 1 /\ UNCHANGED filter_pids
       ELSE filter_pids' = [filter_pids EXCEPT ![c] = filter_pids[p]] /\ UNCHANGED scope_drops
    /\ UNCHANGED <<mode, execs, agent>>

(* A process none of Pids is the parent of takes the pid c. *)
Spawn(c, boxed) ==
    /\ Churn
    /\ ~Alive(c)
    /\ proc' = [proc EXCEPT ![c] = [exe |-> "other", boxed |-> boxed]]
    /\ UNCHANGED <<filter_pids, mode, execs, agent, scope_drops>>

(* handle_sched_process_exec: the event is lost when the ring is full. *)
Exec(p, exe) ==
    /\ Churn
    /\ Alive(p)
    /\ proc' = [proc EXCEPT ![p].exe = exe]
    /\ execs' = IF Active /\ Len(execs) < RingCap
                THEN Append(execs, [pid |-> p, boxed |-> proc[p].boxed]) ELSE execs
    /\ UNCHANGED <<filter_pids, mode, agent, scope_drops>>

Exit(p) ==
    /\ Churn
    /\ Alive(p)
    /\ proc' = [proc EXCEPT ![p] = None]
    /\ UNCHANGED <<filter_pids, mode, execs, agent, scope_drops>>

-----------------------------------------------------------------------------
(* The sets of newcomers among S that get a seat: as many as there is room *)
(* for, in whatever order /proc lists them.                                *)
Newcomers(S) ==
    { A \in SUBSET (S \ Seats) :
        /\ Cardinality(Seats \cup A) <= MapCap
        /\ A = S \ Seats \/ Cardinality(Seats \cup A) = MapCap }

SeatByName(S) ==
    filter_pids' = [p \in Pids |-> IF p \in S THEN "by_name" ELSE filter_pids[p]]

(* engage_filter, before any probe is attached: the --pid seats, then a    *)
(* scan of /proc whose insertions do not look at the seat they overwrite,  *)
(* and only then the mode.                                                 *)
EngageRead ==
    /\ todo.step = "start"
    /\ filter_pids' = [p \in Pids |-> IF p \in SpecPids THEN "explicit" ELSE None]
    /\ todo' = [step |-> "engage", pids |-> { p \in Pids : Matching(p) }]
    /\ UNCHANGED <<proc, mode, execs, since_rescan, scope_drops, churn>>

EngageWrite ==
    /\ todo.step = "engage"
    /\ \E A \in Newcomers(todo.pids) : SeatByName(A \cup (todo.pids \cap Seats))
    /\ mode' = "allowlist"
    /\ todo' = Idle
    /\ UNCHANGED <<proc, execs, since_rescan, scope_drops, churn>>

(* admission_for: what an exec does to the seat. The tag looks at the      *)
(* configuration, not at the seat held.                                    *)
NeverRevokes(e) ==                 \* a fault: an exec only ever admits
    IF Matching(e.pid)
    THEN {IF e.pid \in SpecPids \/ e.boxed THEN "explicit" ELSE "by_name"}
    ELSE {}
Admission(e) ==
    IF Matching(e.pid)
    THEN {IF e.pid \in SpecPids \/ e.boxed THEN "explicit" ELSE "by_name"}
    ELSE IF filter_pids[e.pid] = "by_name" THEN {"revoke"}
    ELSE {}

OnExecRead ==
    /\ todo.step = "idle" /\ execs # <<>>
    /\ execs' = Tail(execs)
    /\ LET e == Head(execs)
       IN  todo' = IF Admission(e) = {} THEN Idle
                   ELSE [step |-> "exec", pid |-> e.pid,
                         verdict |-> CHOOSE v \in Admission(e) : TRUE]
    /\ UNCHANGED <<proc, filter_pids, mode, since_rescan, scope_drops, churn>>

OnExecWrite ==
    /\ todo.step = "exec"
    /\ filter_pids' =
          IF todo.verdict = "revoke" THEN [filter_pids EXCEPT ![todo.pid] = None]
          ELSE IF Full /\ ~Seated(todo.pid) THEN filter_pids
          ELSE [filter_pids EXCEPT ![todo.pid] = todo.verdict]
    /\ todo' = Idle
    /\ UNCHANGED <<proc, mode, execs, since_rescan, scope_drops, churn>>

(* reap_dead, on the timer: the pids whose /proc entry is gone. *)
ReapRead ==
    /\ todo.step = "idle" /\ Active
    /\ todo' = [step |-> "reap", pids |-> { p \in Pids : Seated(p) /\ ~Alive(p) }]
    /\ UNCHANGED <<proc, filter_pids, mode, execs, since_rescan, scope_drops, churn>>

NothingReaped == {}                \* a fault: the dead keep their seats
Reaped == todo.pids

RescanKnown == { p \in Pids : Matching(p) /\ Seated(p) }  \* a fault: finds no one new
Rescanned   == { p \in Pids : Matching(p) }

RescanReset == 0

(* ... are removed, and every RESCAN_EVERY reaps the scan is run again. *)
ReapWrite ==
    /\ todo.step = "reap"
    /\ filter_pids' = [p \in Pids |-> IF p \in Reaped THEN None ELSE filter_pids[p]]
    /\ IF since_rescan + 1 < RESCAN_EVERY
       THEN since_rescan' = since_rescan + 1 /\ todo' = Idle
       ELSE since_rescan' = RescanReset /\ todo' = [step |-> "rescan", pids |-> Rescanned]
    /\ UNCHANGED <<proc, mode, execs, scope_drops, churn>>

RescanWrite ==
    /\ todo.step = "rescan"
    /\ \E A \in Newcomers(todo.pids) : SeatByName(A)
    /\ todo' = Idle
    /\ UNCHANGED <<proc, mode, execs, since_rescan, scope_drops, churn>>

-----------------------------------------------------------------------------
Init ==
    /\ proc \in [Pids -> Process \cup {None}]
    /\ filter_pids = [p \in Pids |-> None]
    /\ mode = "track_all"
    /\ execs = <<>>
    /\ since_rescan = 0
    /\ todo = [step |-> "start"]
    /\ scope_drops = 0
    /\ churn = 0

Processes ==
    \/ \E p, c \in Pids : Fork(p, c)
    \/ \E c \in Pids, boxed \in Boxes : Spawn(c, boxed)
    \/ \E p \in Pids, exe \in Exes : Exec(p, exe)
    \/ \E p \in Pids : Exit(p)

Agent ==
    \/ EngageRead \/ EngageWrite \/ OnExecRead \/ OnExecWrite
    \/ ReapRead \/ ReapWrite \/ RescanWrite

Next == Processes \/ Agent

(* The agent's thread never stops, and neither arm of its select! starves  *)
(* the other: a drain is cut at a batch, the timer is due every 5 s.       *)
(* Processes owe nothing.                                                  *)
Spec == Init /\ [][Next]_vars /\ WF_vars(Agent) /\ SF_vars(OnExecRead) /\ SF_vars(ReapRead)

-----------------------------------------------------------------------------
(* Properties *)

(* Every variable has its type and the map stays within its capacity.      *)
ScopeTypeOK ==
    /\ proc \in [Pids -> Process \cup {None}]
    /\ filter_pids \in [Pids -> Tags \cup {None}]
    /\ mode \in {"track_all", "allowlist"}
    /\ execs \in Seq([pid : Pids, boxed : Boxes]) /\ Len(execs) <= RingCap
    /\ since_rescan \in 0 .. RESCAN_EVERY - 1
    /\ todo \in [step : {"start", "idle"}]
            \cup [step : {"engage", "reap", "rescan"}, pids : SUBSET Pids]
            \cup [step : {"exec"}, pid : Pids, verdict : Verdicts]
    /\ churn \in 0 .. MaxChurn /\ scope_drops \in 0 .. churn
    /\ Cardinality(Seats) <= MapCap

(* A process that goes on matching, and for whom the map goes on having    *)
(* room, ends up seated for good: whatever lost it its seat (an exec event *)
(* that met a full ring, an insertion that met a full map, an exec between *)
(* the startup scan and the mode flip, a reap that raced the reuse of its  *)
(* pid), a rescan gives it one.                                            *)
MatchingIsSeated ==
    \A p \in Pids :
        <>[](Matching(p) /\ (Seated(p) \/ ~Full)) => <>[]Seated(p)

(* A pid that stays free does not keep its seat, so that the map is not    *)
(* filled by the dead: not even when a late exec event or a rescan that    *)
(* had read /proc earlier seated it after it died.                         *)
DeadIsUnseated ==
    \A p \in Pids : <>[]~Alive(p) => <>[]~Seated(p)

(* A name seat whose holder has execed away is withdrawn once the event is *)
(* folded, unless the holder matches again or is gone by then.             *)
ExecPending(p) == \E i \in DOMAIN execs : execs[i].pid = p
ExecAwayRevokes ==
    \A p \in Pids :
        (ExecPending(p) /\ Alive(p) /\ ~Matching(p) /\ filter_pids[p] = "by_name") ~>
            (Matching(p) \/ ~Alive(p) \/ filter_pids[p] # "by_name")
=============================================================================
