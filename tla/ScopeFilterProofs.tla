-------------------------- MODULE ScopeFilterProofs --------------------------
(***************************************************************************)
(* The allowlist for every number of processes and every capacity: whoever *)
(* seats a process (the agent's startup, an exec, a rescan, the probe on   *)
(* fork), the kernel's map never holds more than it can.                   *)
(***************************************************************************)
EXTENDS ScopeFilter, FiniteSetTheorems, SequenceTheorems, TLAPS

Occupied(f) == { p \in Pids : f[p] # None }

Fits(f) == f \in [Pids -> Tags \cup {None}] /\ Cardinality(Occupied(f)) <= MapCap

LEMMA NoneIsNoTag == None \notin Tags /\ None \notin Process
BY NoneAssumption DEF NoneAssumption

LEMMA ParamTypes ==
    /\ SpecPids \subseteq Pids /\ IsFiniteSet(Pids) /\ Boxes \subseteq BOOLEAN
    /\ MapCap \in Nat /\ Cardinality(SpecPids) <= MapCap
    /\ RingCap \in Nat /\ RESCAN_EVERY \in Nat \ {0} /\ MaxChurn \in Nat
BY ScopeAssumption DEF ScopeAssumption

LEMMA OccupiedFinite ==
    ASSUME NEW f
    PROVE  IsFiniteSet(Occupied(f)) /\ Cardinality(Occupied(f)) \in Nat
BY ParamTypes, FS_Subset, FS_CardinalityType DEF Occupied

(* A map with no more seats than one that fits does too.                   *)
LEMMA FewerFit ==
    ASSUME NEW f, NEW g \in [Pids -> Tags \cup {None}], Fits(f), Occupied(g) \subseteq Occupied(f)
    PROVE  Fits(g)
<1>1. Cardinality(Occupied(g)) <= Cardinality(Occupied(f))
  BY OccupiedFinite, FS_Subset
<1>2. Cardinality(Occupied(g)) \in Nat /\ Cardinality(Occupied(f)) \in Nat
  BY OccupiedFinite
<1> QED BY <1>1, <1>2, ParamTypes DEF Fits

(* One seat more fits unless the map is full.                              *)
LEMMA OneMoreFits ==
    ASSUME NEW f, NEW p \in Pids, NEW tag \in Tags, Fits(f),
           Cardinality(Occupied(f)) # MapCap \/ f[p] # None
    PROVE  Fits([f EXCEPT ![p] = tag])
<1> DEFINE g == [f EXCEPT ![p] = tag]
<1>1. g \in [Pids -> Tags \cup {None}] /\ Occupied(g) = Occupied(f) \cup {p}
  BY NoneIsNoTag DEF Fits, Occupied
<1> HIDE DEF g
<1>2. CASE f[p] # None
  <2>1. Occupied(g) = Occupied(f)
    BY <1>1, <1>2 DEF Occupied
  <2> QED BY <1>1, <2>1, FewerFit DEF g
<1>3. CASE f[p] = None /\ Cardinality(Occupied(f)) # MapCap
  <2>1. p \notin Occupied(f)
    BY <1>3 DEF Occupied
  <2>2. Cardinality(Occupied(g)) = Cardinality(Occupied(f)) + 1
    BY <1>1, <2>1, OccupiedFinite, FS_AddElement
  <2>3. Cardinality(Occupied(f)) \in Nat /\ Cardinality(Occupied(f)) <= MapCap
    BY OccupiedFinite DEF Fits
  <2>4. Cardinality(Occupied(g)) <= MapCap
    BY <1>3, <2>2, <2>3, ParamTypes
  <2> QED BY <1>1, <2>4 DEF Fits, g
<1> QED BY <1>2, <1>3

(* A scan seats newcomers while there is room.                             *)
LEMMA ScanFits ==
    ASSUME Fits(filter_pids), NEW S \in SUBSET Pids, NEW A \in Newcomers(S),
           NEW B \in SUBSET (S \cap Seats), SeatByName(A \cup B)
    PROVE  Fits(filter_pids')
<1>1. filter_pids' = [p \in Pids |-> IF p \in A \cup B THEN "by_name" ELSE filter_pids[p]]
  BY DEF SeatByName
<1>2. A \subseteq Pids /\ Cardinality(Seats \cup A) <= MapCap
  BY DEF Newcomers
<1>3. filter_pids' \in [Pids -> Tags \cup {None}]
  BY <1>1 DEF Fits, Tags
<1>4. Occupied(filter_pids') = Seats \cup A
  <2>1. "by_name" # None
    BY NoneIsNoTag DEF Tags
  <2> QED BY <1>1, <1>2, <2>1 DEF Occupied, Seats, Seated
<1> QED BY <1>2, <1>3, <1>4 DEF Fits

LEMMA TypeInit == Init => ScopeTypeOK
<1> SUFFICES ASSUME Init PROVE ScopeTypeOK
  OBVIOUS
<1>1. Seats = {} /\ filter_pids \in [Pids -> Tags \cup {None}]
  BY DEF Init, Seats, Seated
<1>2. Cardinality(Seats) <= MapCap
  BY <1>1, FS_EmptySet, ParamTypes
<1>3. execs \in Seq([pid : Pids, boxed : Boxes]) /\ Len(execs) <= RingCap
  BY EmptySeq, ParamTypes DEF Init
<1> QED BY <1>1, <1>2, <1>3, ParamTypes DEF Init, ScopeTypeOK

LEMMA TypeStep ==
    ASSUME ScopeTypeOK, Next
    PROVE  ScopeTypeOK'
<1>1. Fits(filter_pids) /\ (Full <=> Cardinality(Occupied(filter_pids)) = MapCap)
  BY DEF ScopeTypeOK, Fits, Occupied, Seats, Seated, Full
<1>2. ASSUME Fits(filter_pids') PROVE filter_pids' \in [Pids -> Tags \cup {None}] /\ Cardinality(Seats') <= MapCap
  BY <1>2 DEF Fits, Occupied, Seats, Seated
<1>3. ASSUME NEW p \in Pids, NEW c \in Pids, Fork(p, c) PROVE ScopeTypeOK'
  <2>1. Fits(filter_pids')
    <3>1. CASE filter_pids' = [filter_pids EXCEPT ![c] = filter_pids[p]] /\ Seated(p) /\ (~Full \/ Seated(c))
      <4>1. filter_pids[p] \in Tags
        BY <1>1, <3>1 DEF Fits, Seated
      <4> QED BY <1>1, <3>1, <4>1, OneMoreFits DEF Seated
    <3>2. CASE filter_pids' = filter_pids
      BY <1>1, <3>2
    <3> QED BY <1>3, <3>1, <3>2 DEF Fork
  <2>2. proc' \in [Pids -> Process \cup {None}]
    BY <1>3 DEF Fork, ScopeTypeOK
  <2>3. churn' \in 0 .. MaxChurn /\ scope_drops' \in 0 .. churn'
    BY <1>3, ParamTypes DEF Fork, Churn, ScopeTypeOK
  <2> QED BY <1>2, <1>3, <2>1, <2>2, <2>3 DEF Fork, agent, ScopeTypeOK
<1>4. ASSUME NEW c \in Pids, NEW boxed \in Boxes, Spawn(c, boxed) PROVE ScopeTypeOK'
  <2>1. [exe |-> "other", boxed |-> boxed] \in Process
    BY DEF Process, Exes
  <2>2. proc' \in [Pids -> Process \cup {None}]
    BY <1>4, <2>1 DEF Spawn, ScopeTypeOK
  <2>3. churn' \in 0 .. MaxChurn /\ scope_drops' \in 0 .. churn'
    BY <1>4, ParamTypes DEF Spawn, Churn, ScopeTypeOK
  <2> QED BY <1>4, <2>2, <2>3 DEF Spawn, agent, ScopeTypeOK, Seats, Seated
<1>5. ASSUME NEW p \in Pids, NEW exe \in Exes, Exec(p, exe) PROVE ScopeTypeOK'
  <2>1. proc[p] \in Process
    BY <1>5 DEF Exec, Alive, ScopeTypeOK
  <2>2. [proc[p] EXCEPT !.exe = exe] \in Process /\ proc[p].boxed \in Boxes
    BY <2>1 DEF Process
  <2>3. proc' = [proc EXCEPT ![p] = [proc[p] EXCEPT !.exe = exe]]
    BY <1>5 DEF Exec
  <2>4. proc' \in [Pids -> Process \cup {None}]
    BY <2>2, <2>3 DEF ScopeTypeOK
  <2>5. execs' \in Seq([pid : Pids, boxed : Boxes]) /\ Len(execs') <= RingCap
    <3> DEFINE e == [pid |-> p, boxed |-> proc[p].boxed]
    <3>1. e \in [pid : Pids, boxed : Boxes]
      BY <2>2
    <3>2. execs' = execs \/ (Len(execs) < RingCap /\ execs' = Append(execs, e))
      BY <1>5 DEF Exec
    <3> HIDE DEF e
    <3>3. CASE execs' = execs
      BY <3>3 DEF ScopeTypeOK
    <3>4. CASE Len(execs) < RingCap /\ execs' = Append(execs, e)
      <4>1. execs \in Seq([pid : Pids, boxed : Boxes])
        BY DEF ScopeTypeOK
      <4>2. execs' \in Seq([pid : Pids, boxed : Boxes]) /\ Len(execs') = Len(execs) + 1 /\ Len(execs) \in Nat
        BY <3>1, <3>4, <4>1, AppendProperties, LenProperties
      <4> QED BY <3>4, <4>2, ParamTypes
    <3> QED BY <3>2, <3>3, <3>4
  <2>6. churn' \in 0 .. MaxChurn /\ scope_drops' \in 0 .. churn'
    BY <1>5, ParamTypes DEF Exec, Churn, ScopeTypeOK
  <2> QED BY <1>5, <2>4, <2>5, <2>6 DEF Exec, agent, ScopeTypeOK, Seats, Seated
<1>6. ASSUME NEW p \in Pids, Exit(p) PROVE ScopeTypeOK'
  <2>1. proc' \in [Pids -> Process \cup {None}]
    BY <1>6 DEF Exit, ScopeTypeOK
  <2>2. churn' \in 0 .. MaxChurn /\ scope_drops' \in 0 .. churn'
    BY <1>6, ParamTypes DEF Exit, Churn, ScopeTypeOK
  <2> QED BY <1>6, <2>1, <2>2 DEF Exit, agent, ScopeTypeOK, Seats, Seated
<1> DEFINE Todo == [step : {"start", "idle"}]
                     \cup [step : {"engage", "reap", "rescan"}, pids : SUBSET Pids]
                     \cup [step : {"exec"}, pid : Pids, verdict : Verdicts]
<1>7. ASSUME Fits(filter_pids'), todo' \in Todo, mode' \in {"track_all", "allowlist"},
             since_rescan' \in 0 .. RESCAN_EVERY - 1,
             execs' \in Seq([pid : Pids, boxed : Boxes]), Len(execs') <= RingCap,
             UNCHANGED <<proc, scope_drops, churn>>
      PROVE  ScopeTypeOK'
  BY <1>2, <1>7 DEF ScopeTypeOK
<1>8. Idle \in Todo
  BY DEF Idle
<1>9. \A st \in {"engage", "reap", "rescan"} : \A S \in SUBSET Pids : [step |-> st, pids |-> S] \in Todo
  OBVIOUS
<1>10. /\ todo.step \in {"engage", "reap", "rescan"} => todo.pids \in SUBSET Pids
       /\ todo.step = "exec" => todo.pid \in Pids /\ todo.verdict \in Verdicts
       /\ todo \in Todo /\ mode \in {"track_all", "allowlist"} /\ since_rescan \in 0 .. RESCAN_EVERY - 1
       /\ execs \in Seq([pid : Pids, boxed : Boxes]) /\ Len(execs) <= RingCap
  BY DEF ScopeTypeOK
<1> HIDE DEF Todo
<1>11. CASE EngageRead
  <2> DEFINE S == { p \in Pids : Matching(p) }
  <2>1. S \in SUBSET Pids /\ todo' = [step |-> "engage", pids |-> S]
    BY <1>11 DEF EngageRead
  <2>2. todo' \in Todo
    BY <1>9, <2>1
  <2>3. filter_pids' \in [Pids -> Tags \cup {None}] /\ Occupied(filter_pids') = SpecPids
    BY <1>11, NoneIsNoTag, ParamTypes DEF EngageRead, Occupied, Tags
  <2>4. Fits(filter_pids')
    BY <2>3, ParamTypes DEF Fits
  <2> QED BY <1>7, <1>10, <1>11, <2>2, <2>4 DEF EngageRead
<1>12. CASE EngageWrite
  <2>1. todo.pids \in SUBSET Pids
    BY <1>10, <1>12 DEF EngageWrite
  <2>2. PICK A \in Newcomers(todo.pids) : SeatByName(A \cup (todo.pids \cap Seats))
    BY <1>12 DEF EngageWrite
  <2>3. Fits(filter_pids')
    BY <1>1, <2>1, <2>2, ScanFits
  <2> QED BY <1>7, <1>8, <1>10, <1>12, <2>3 DEF EngageWrite
<1>13. CASE OnExecRead
  <2> DEFINE e == Head(execs)
  <2>1. /\ e \in [pid : Pids, boxed : Boxes] /\ execs' \in Seq([pid : Pids, boxed : Boxes])
        /\ Len(execs') <= RingCap
    <3>1. /\ e \in [pid : Pids, boxed : Boxes] /\ Tail(execs) \in Seq([pid : Pids, boxed : Boxes])
          /\ Len(Tail(execs)) = Len(execs) - 1 /\ Len(execs) \in Nat
      BY <1>10, <1>13, HeadTailProperties, LenProperties DEF OnExecRead
    <3>2. execs' = Tail(execs)
      BY <1>13 DEF OnExecRead
    <3> QED BY <1>10, <3>1, <3>2, ParamTypes
  <2>2. todo' = IF Admission(e) = {} THEN Idle
                ELSE [step |-> "exec", pid |-> e.pid, verdict |-> CHOOSE v \in Admission(e) : TRUE]
    BY <1>13 DEF OnExecRead
  <2> HIDE DEF e
  <2>3. Admission(e) \subseteq Verdicts /\ e.pid \in Pids
    BY <2>1 DEF Admission, Verdicts, Tags
  <2>4. CASE Admission(e) = {}
    <3>1. todo' \in Todo
      BY <1>8, <2>2, <2>4
    <3> QED BY <1>1, <1>7, <1>10, <1>13, <2>1, <3>1 DEF OnExecRead
  <2>5. CASE Admission(e) # {}
    <3>1. PICK w \in Verdicts : w = CHOOSE v \in Admission(e) : TRUE
      BY <2>3, <2>5
    <3>2. todo' = [step |-> "exec", pid |-> e.pid, verdict |-> w]
      BY <2>2, <2>5, <3>1
    <3>3. todo' \in Todo
      BY <2>3, <3>2 DEF Todo
    <3> QED BY <1>1, <1>7, <1>10, <1>13, <2>1, <3>3 DEF OnExecRead
  <2> QED BY <2>4, <2>5
<1>14. CASE OnExecWrite
  <2>1. todo.pid \in Pids /\ todo.verdict \in Verdicts
    BY <1>10, <1>14 DEF OnExecWrite
  <2>2. CASE filter_pids' = [filter_pids EXCEPT ![todo.pid] = None]
    <3>1. filter_pids' \in [Pids -> Tags \cup {None}] /\ Occupied(filter_pids') \subseteq Occupied(filter_pids)
      BY <1>1, <2>1, <2>2 DEF Fits, Occupied
    <3> QED BY <1>1, <1>7, <1>8, <1>10, <1>14, <3>1, FewerFit DEF OnExecWrite
  <2>3. CASE filter_pids' = filter_pids
    BY <1>1, <1>7, <1>8, <1>10, <1>14, <2>3 DEF OnExecWrite
  <2>4. CASE /\ filter_pids' = [filter_pids EXCEPT ![todo.pid] = todo.verdict]
             /\ todo.verdict # "revoke" /\ ~(Full /\ ~Seated(todo.pid))
    <3>1. todo.verdict \in Tags
      BY <2>1, <2>4 DEF Verdicts
    <3>2. Fits(filter_pids')
      BY <1>1, <2>1, <2>4, <3>1, OneMoreFits DEF Seated
    <3> QED BY <1>7, <1>8, <1>10, <1>14, <3>2 DEF OnExecWrite
  <2> QED BY <1>14, <2>2, <2>3, <2>4 DEF OnExecWrite
<1>15. CASE ReapRead
  <2> DEFINE S == { p \in Pids : Seated(p) /\ ~Alive(p) }
  <2>1. S \in SUBSET Pids /\ todo' = [step |-> "reap", pids |-> S]
    BY <1>15 DEF ReapRead
  <2>2. todo' \in Todo
    BY <1>9, <2>1
  <2> QED BY <1>1, <1>7, <1>10, <1>15, <2>2 DEF ReapRead
<1>16. CASE ReapWrite
  <2>1. Rescanned \in SUBSET Pids
    BY DEF Rescanned
  <2>2. todo' \in Todo
    BY <1>8, <1>9, <1>16, <2>1 DEF ReapWrite
  <2>3. since_rescan' \in 0 .. RESCAN_EVERY - 1
    BY <1>10, <1>16, ParamTypes DEF ReapWrite, RescanReset
  <2>4. filter_pids' \in [Pids -> Tags \cup {None}] /\ Occupied(filter_pids') \subseteq Occupied(filter_pids)
    BY <1>1, <1>16 DEF ReapWrite, Fits, Occupied
  <2>5. Fits(filter_pids')
    BY <1>1, <2>4, FewerFit
  <2> QED BY <1>7, <1>10, <1>16, <2>2, <2>3, <2>5 DEF ReapWrite
<1>17. CASE RescanWrite
  <2>1. todo.pids \in SUBSET Pids
    BY <1>10, <1>17 DEF RescanWrite
  <2>2. PICK A \in Newcomers(todo.pids) : SeatByName(A)
    BY <1>17 DEF RescanWrite
  <2>3. Fits(filter_pids')
    <3>1. {} \in SUBSET (todo.pids \cap Seats) /\ A \cup {} = A
      OBVIOUS
    <3> QED BY <1>1, <2>1, <2>2, <3>1, ScanFits
  <2> QED BY <1>7, <1>8, <1>10, <1>17, <2>3 DEF RescanWrite
<1> QED BY <1>3, <1>4, <1>5, <1>6, <1>11, <1>12, <1>13, <1>14, <1>15, <1>16, <1>17
        DEF Next, Processes, Agent

(* Every variable has its type, and the allowlist of the kernel is never   *)
(* asked to hold more than it can.                                         *)
THEOREM ScopeTyped == Spec => []ScopeTypeOK
<1>1. ScopeTypeOK /\ [Next]_vars => ScopeTypeOK'
  <2>1. CASE Next
    BY <2>1, TypeStep
  <2>2. CASE UNCHANGED vars
    BY <2>2 DEF vars, agent, ScopeTypeOK, Seats, Seated
  <2> QED BY <2>1, <2>2
<1> QED BY <1>1, TypeInit, PTL DEF Spec
=============================================================================
