-------------------------- MODULE CorrelatorProofs --------------------------
(***************************************************************************)
(* The correlation engine for every set of processes, fds and pointers and *)
(* every cap. The inductive invariant is                                   *)
(*    Inv == TypeOK /\ SeqBounded /\ LinksInverse /\ OpConserved           *)
(* The last three need one another only through TypeOK; SeqBounded is what *)
(* TypeOK lacks to be inductive.                                           *)
(***************************************************************************)
EXTENDS Correlator, EvictProofs

(* A slot has numbered no more requests than were opened in all. *)
SeqBounded ==
    \A k \in Keys : ops[k] # None => ops[k].next_seq <= op_counter

(* TypeOK, by the part of the engine that owns the variables. *)
ConnsTyped ==
    /\ conns \in [Cookies -> ConnState \cup {None}]
    /\ tls \in [Cookies -> TlsInfo \cup {None}]
LinksTyped ==
    /\ fd_links \in [Keys -> FdLink \cup {None}]
    /\ fd_links_rev \in [Cookies -> Keys \cup {None}]
LedgerTyped ==
    /\ ops \in [Keys -> ConnOps \cup {None}]
    /\ op_counter \in 0 .. MaxOps
    /\ flushed_ops \in SUBSET OpIds
    /\ published \in [OpIds -> Nat]
    /\ built \in [OpIds -> Operation \cup {None}]

LEMMA TypeParts == TypeOK <=> ConnsTyped /\ LinksTyped /\ LedgerTyped
  BY DEF TypeOK, ConnsTyped, LinksTyped, LedgerTyped

-----------------------------------------------------------------------------
(* The slots *)

LEMMA SlotTyped ==
    ASSUME LedgerTyped, NEW k \in Keys, ops[k] # None
    PROVE  /\ ops[k] \in ConnOps
           /\ ops[k].next_seq \in 0 .. MaxOps
           /\ ops[k].last_ts \in Ts
           /\ ops[k].last_bio_cookie \in Cookies \cup {None}
           /\ ops[k].open \in OpenOp \cup {None}
  BY DEF LedgerTyped, ConnOps

LEMMA OpenTyped ==
    ASSUME LedgerTyped, NEW k \in Keys, HasOpen(k)
    PROVE  /\ ops[k] \in ConnOps
           /\ ops[k].open \in OpenOp
           /\ ops[k].open.id \in OpIds
           /\ ops[k].open.seq \in 0 .. MaxOps
           /\ ops[k].open.resp \in RespState \cup {None}
  BY SlotTyped DEF HasOpen, OpenOp

LEMMA BuildOpTyped ==
    ASSUME LinksTyped, NEW k \in Keys, NEW op \in OpenOp,
           NEW resp \in {"none", "head", "complete"}
    PROVE  BuildOp(k, op, resp) \in Operation
<1>1. CookieOf(k, op) \in Cookies \cup {None}
  BY DEF CookieOf, LinksTyped, FdLink, OpenOp
<1> QED
  BY <1>1 DEF BuildOp, Operation, OpenOp

LEMMA FlushRecordsTyped ==
    ASSUME LinksTyped, LedgerTyped, NEW K \in SUBSET Keys,
           NEW i \in DOMAIN FlushRecords(K)
    PROVE  FlushRecords(K)[i] \in Operation
<1> DEFINE k == CHOOSE k \in Opened(K) : ops[k].open.id = i
<1>1. \E j \in Opened(K) : ops[j].open.id = i
  BY DEF FlushRecords
<1>2. k \in Opened(K)
  BY <1>1
<1>3. k \in Keys /\ HasOpen(k)
  BY <1>2 DEF Opened
<1>4. ops[k].open \in OpenOp
  BY <1>3, OpenTyped
<1>5. RespOnFlush(ops[k].open) \in {"none", "head", "complete"}
  BY DEF RespOnFlush
<1>6. BuildOp(k, ops[k].open, RespOnFlush(ops[k].open)) \in Operation
  BY <1>3, <1>4, <1>5, BuildOpTyped
<1>7. FlushRecords(K)[i] = BuildOp(k, ops[k].open, RespOnFlush(ops[k].open))
  BY DEF FlushRecords
<1> QED
  BY <1>6, <1>7

(* The ids in the slots K are ids of requests. *)
LEMMA OpenedIds ==
    ASSUME LedgerTyped, NEW K \in SUBSET Keys
    PROVE  { ops[k].open.id : k \in Opened(K) } \subseteq OpIds
  BY OpenTyped DEF Opened

-----------------------------------------------------------------------------
(* flush_and_drop_op preserves the ledger's part of the invariant *)

LEMMA FlushTyped ==
    ASSUME LinksTyped, LedgerTyped, SeqBounded,
           NEW K \in SUBSET Keys, FlushAndDrop(K)
    PROVE  LedgerTyped' /\ SeqBounded'
<1>1. ops' = [k \in Keys |-> IF k \in K THEN None ELSE ops[k]]
  BY DEF FlushAndDrop, Without, LedgerTyped
<1>2. ops' \in [Keys -> ConnOps \cup {None}]
  BY <1>1 DEF LedgerTyped
<1>3. flushed_ops' \in SUBSET OpIds
  BY OpenedIds DEF FlushAndDrop, LedgerTyped
<1>4. built' \in [OpIds -> Operation \cup {None}]
  <2> DEFINE recs == FlushRecords(K)
  <2>1. built' = [i \in OpIds |-> IF i \in DOMAIN recs THEN recs[i] ELSE built[i]]
    BY DEF FlushAndDrop, Record
  <2>2. \A i \in OpIds : i \in DOMAIN recs => recs[i] \in Operation
    BY FlushRecordsTyped
  <2> HIDE DEF recs
  <2> QED
    BY <2>1, <2>2 DEF LedgerTyped
<1>5. op_counter' = op_counter /\ published' = published
  BY DEF FlushAndDrop
<1>6. LedgerTyped'
  BY <1>2, <1>3, <1>4, <1>5 DEF LedgerTyped
<1>7. SeqBounded'
  BY <1>1, <1>5 DEF SeqBounded
<1> QED
  BY <1>6, <1>7

LEMMA FlushConserves ==
    ASSUME LedgerTyped, OpConserved, NEW K \in SUBSET Keys, FlushAndDrop(K)
    PROVE  OpConserved'
<1>1. ops' = [k \in Keys |-> IF k \in K THEN None ELSE ops[k]]
  BY DEF FlushAndDrop, Without, LedgerTyped
<1>2. \A k \in Keys : /\ HasOpen(k)' <=> HasOpen(k) /\ k \notin K
                      /\ HasOpen(k)' => ops'[k].open.id = ops[k].open.id
  BY <1>1 DEF HasOpen
<1>3. op_counter' = op_counter /\ published' = published
  BY DEF FlushAndDrop
<1>4. \A i : i \in flushed_ops' <=>
                \/ i \in flushed_ops
                \/ \E k \in K : HasOpen(k) /\ ops[k].open.id = i
  BY DEF FlushAndDrop, Opened
<1>5. \A i \in OpIds : InFlight(i)' <=>
                \E k \in Keys \ K : HasOpen(k) /\ ops[k].open.id = i
  BY <1>2 DEF InFlight
<1> SUFFICES ASSUME NEW i \in OpIds
             PROVE  /\ published'[i] <= 1
                    /\ (i <= op_counter') = (InFlight(i)' \/ i \in flushed_ops' \/ published'[i] = 1)
                    /\ ~(InFlight(i)' /\ i \in flushed_ops')
                    /\ ~(InFlight(i)' /\ published'[i] = 1)
                    /\ ~(i \in flushed_ops' /\ published'[i] = 1)
                    /\ \A j, k \in Keys : (HasOpen(j)' /\ HasOpen(k)' /\ ops'[j].open.id = i
                                             /\ ops'[k].open.id = i) => j = k
  BY DEF OpConserved
<1>6. /\ published[i] <= 1
      /\ (i <= op_counter) = (InFlight(i) \/ i \in flushed_ops \/ published[i] = 1)
      /\ ~(InFlight(i) /\ i \in flushed_ops)
      /\ ~(InFlight(i) /\ published[i] = 1)
      /\ ~(i \in flushed_ops /\ published[i] = 1)
      /\ \A j, k \in Keys : (HasOpen(j) /\ HasOpen(k) /\ ops[j].open.id = i
                                             /\ ops[k].open.id = i) => j = k
  BY DEF OpConserved
<1>7. InFlight(i) <=> \E k \in Keys : HasOpen(k) /\ ops[k].open.id = i
  BY DEF InFlight
<1> HIDE DEF OpConserved
<1>8. (InFlight(i)' \/ i \in flushed_ops') <=> (InFlight(i) \/ i \in flushed_ops)
  BY <1>4, <1>5, <1>7
<1>9. ~(InFlight(i)' /\ i \in flushed_ops')
  BY <1>4, <1>5, <1>6, <1>7
<1>10. \A j, k \in Keys : (HasOpen(j)' /\ HasOpen(k)' /\ ops'[j].open.id = i
                                             /\ ops'[k].open.id = i) => j = k
  BY <1>2, <1>6
<1> QED
  BY <1>3, <1>6, <1>8, <1>9, <1>10

-----------------------------------------------------------------------------
(* A slot that keeps its request, and a slot that gives it up *)

(* An event that only updates the request a slot holds keeps the ledger.   *)
LEMMA SameRequestsConserve ==
    ASSUME OpConserved, UNCHANGED <<op_counter, flushed_ops, published>>,
           \A k \in Keys : /\ HasOpen(k)' <=> HasOpen(k)
                           /\ HasOpen(k) => ops'[k].open.id = ops[k].open.id
    PROVE  OpConserved'
<1>1. \A i \in OpIds : InFlight(i)' <=> InFlight(i)
  BY DEF InFlight
<1> QED
  BY <1>1 DEF OpConserved

LEMMA TouchKeeps ==
    ASSUME LedgerTyped, SeqBounded, OpConserved,
           NEW k \in Keys, NEW ts \in Ts, ops[k] # None, Touch(k, ts)
    PROVE  LedgerTyped' /\ SeqBounded' /\ OpConserved'
<1>1. ops' = [ops EXCEPT ![k] = [ops[k] EXCEPT !.last_ts = ts]]
  BY DEF Touch
<1>2. ops[k] \in ConnOps
  BY SlotTyped
<1>3. [ops[k] EXCEPT !.last_ts = ts] \in ConnOps
  BY <1>2 DEF ConnOps
<1>4. UNCHANGED <<op_counter, flushed_ops, published, built>>
  BY DEF Touch, ledger
<1>5. LedgerTyped'
  BY <1>1, <1>3, <1>4 DEF LedgerTyped
<1>6. ops'[k] # None /\ ops'[k].next_seq = ops[k].next_seq /\ ops'[k].open = ops[k].open
  BY <1>1, <1>2, <1>3, CorrelatorAssumption DEF LedgerTyped, ConnOps
<1>7. \A j \in Keys \ {k} : ops'[j] = ops[j]
  BY <1>1 DEF LedgerTyped
<1>8. SeqBounded'
  BY <1>4, <1>6, <1>7 DEF SeqBounded
<1>9. \A j \in Keys : /\ HasOpen(j)' <=> HasOpen(j)
                      /\ HasOpen(j) => ops'[j].open.id = ops[j].open.id
  BY <1>6, <1>7 DEF HasOpen
<1>10. OpConserved'
  BY <1>4, <1>9, SameRequestsConserve
<1> QED
  BY <1>5, <1>8, <1>10

(* A response head recorded on the op, or more bytes of its body. *)
LEMMA RespondKeeps ==
    ASSUME LedgerTyped, SeqBounded, OpConserved,
           NEW k \in Keys, NEW ts \in Ts, NEW rs \in RespState, HasOpen(k),
           ops' = [ops EXCEPT ![k] = [ops[k] EXCEPT !.last_ts = ts,
                                        !.open = [ops[k].open EXCEPT !.resp = rs]]],
           UNCHANGED ledger
    PROVE  LedgerTyped' /\ SeqBounded' /\ OpConserved'
<1> DEFINE op   == [ops[k].open EXCEPT !.resp = rs]
           slot == [ops[k] EXCEPT !.last_ts = ts, !.open = op]
<1>1. ops[k] # None /\ ops[k] \in ConnOps /\ ops[k].open \in OpenOp
  BY OpenTyped DEF HasOpen
<1>2. op \in OpenOp /\ op.id = ops[k].open.id
  BY <1>1 DEF OpenOp
<1>3. slot \in ConnOps /\ slot.open = op /\ slot.next_seq = ops[k].next_seq
  BY <1>1, <1>2 DEF ConnOps
<1>4. UNCHANGED <<op_counter, flushed_ops, published, built>>
  BY DEF ledger
<1>5. ops'[k] = slot /\ \A j \in Keys \ {k} : ops'[j] = ops[j]
  BY DEF LedgerTyped
<1>6. ops' = [ops EXCEPT ![k] = slot]
  OBVIOUS
<1>7. slot # None /\ op # None
  BY <1>2, <1>3, CorrelatorAssumption
<1> HIDE DEF op, slot
<1>8. LedgerTyped'
  BY <1>3, <1>4, <1>6 DEF LedgerTyped
<1>9. SeqBounded'
  BY <1>1, <1>3, <1>4, <1>5 DEF SeqBounded
<1>10. \A j \in Keys : /\ HasOpen(j)' <=> HasOpen(j)
                       /\ HasOpen(j) => ops'[j].open.id = ops[j].open.id
  BY <1>1, <1>2, <1>3, <1>5, <1>7 DEF HasOpen
<1>11. OpConserved'
  BY <1>4, <1>10, SameRequestsConserve
<1> QED
  BY <1>8, <1>9, <1>11

LEMMA TakeOpenKeeps ==
    ASSUME LinksTyped, LedgerTyped, SeqBounded, OpConserved,
           NEW k \in Keys, NEW ts \in Ts, NEW resp \in {"none", "head", "complete"},
           HasOpen(k), TakeOpen(k, ts, resp)
    PROVE  LedgerTyped' /\ SeqBounded' /\ OpConserved'
<1> DEFINE slot == [ops[k] EXCEPT !.open = None, !.last_ts = ts]
           n    == ops[k].open.id
<1>1. ops[k] # None /\ ops[k] \in ConnOps /\ ops[k].open \in OpenOp /\ n \in OpIds
  BY OpenTyped DEF HasOpen
<1>2. slot \in ConnOps /\ slot.open = None /\ slot.next_seq = ops[k].next_seq
  BY <1>1 DEF ConnOps
<1>3. slot # None
  BY <1>2, CorrelatorAssumption
<1>4. ops' = [ops EXCEPT ![k] = slot]
  BY DEF TakeOpen
<1>5. published' = [published EXCEPT ![n] = @ + 1]
  BY DEF TakeOpen
<1>6. built' = [built EXCEPT ![n] = BuildOp(k, ops[k].open, resp)]
  BY DEF TakeOpen
<1>7. BuildOp(k, ops[k].open, resp) \in Operation
  BY <1>1, BuildOpTyped
<1>8. UNCHANGED <<op_counter, flushed_ops>>
  BY DEF TakeOpen
<1>9. ops'[k] = slot /\ \A j \in Keys \ {k} : ops'[j] = ops[j]
  BY <1>4 DEF LedgerTyped
<1> HIDE DEF slot
<1>10. LedgerTyped'
  BY <1>1, <1>2, <1>4, <1>5, <1>6, <1>7, <1>8 DEF LedgerTyped
<1>11. SeqBounded'
  BY <1>1, <1>2, <1>8, <1>9 DEF SeqBounded
<1>12. \A j \in Keys : /\ HasOpen(j)' <=> HasOpen(j) /\ j # k
                       /\ j # k => ops'[j] = ops[j]
  BY <1>2, <1>9 DEF HasOpen
<1>13. OpConserved'
  <2>1. InFlight(n) /\ published[n] = 0
    <3>1. InFlight(n)
      BY DEF InFlight
    <3>2. published[n] \in Nat /\ published[n] <= 1 /\ published[n] # 1
      BY <1>1, <3>1 DEF OpConserved, LedgerTyped
    <3> QED
      BY <3>1, <3>2
  <2>2. \A j \in Keys : HasOpen(j) /\ ops[j].open.id = n => j = k
    BY <1>1 DEF OpConserved
  <2>3. \A i \in OpIds : InFlight(i)' <=> InFlight(i) /\ i # n
    BY <1>12, <2>2 DEF InFlight
  <2>4. \A i \in OpIds : published'[i] = IF i = n THEN 1 ELSE published[i]
    BY <1>5, <2>1 DEF LedgerTyped
  <2>5. \A i \in OpIds : \A j, l \in Keys :
            (HasOpen(j)' /\ HasOpen(l)' /\ ops'[j].open.id = i /\ ops'[l].open.id = i) => j = l
    BY <1>12 DEF OpConserved
  <2>6. n \notin flushed_ops
    BY <1>1, <2>1 DEF OpConserved
  <2>7. n <= op_counter
    BY <1>1, <2>1 DEF OpConserved
  <2> HIDE DEF n
  <2> QED
    BY <1>8, <2>1, <2>3, <2>4, <2>5, <2>6, <2>7 DEF OpConserved
<1> QED
  BY <1>10, <1>11, <1>13

LEMMA TakeFlushedKeeps ==
    ASSUME LedgerTyped, SeqBounded, OpConserved, TakeFlushedOps
    PROVE  LedgerTyped' /\ SeqBounded' /\ OpConserved'
<1>1. /\ flushed_ops' = {} /\ UNCHANGED <<ops, op_counter, built>>
      /\ published' = [i \in OpIds |-> published[i] + IF i \in flushed_ops THEN 1 ELSE 0]
  BY DEF TakeFlushedOps
<1>2. LedgerTyped'
  BY <1>1 DEF LedgerTyped
<1>3. SeqBounded'
  BY <1>1 DEF SeqBounded
<1>4. \A i \in OpIds : published'[i] = IF i \in flushed_ops THEN 1 ELSE published[i]
  <2> SUFFICES ASSUME NEW i \in OpIds
               PROVE  published'[i] = IF i \in flushed_ops THEN 1 ELSE published[i]
    OBVIOUS
  <2>1. i \in flushed_ops => published[i] = 0
    BY DEF OpConserved, LedgerTyped
  <2> QED
    BY <1>1, <2>1 DEF LedgerTyped
<1>5. \A i \in OpIds : InFlight(i)' <=> InFlight(i)
  BY <1>1 DEF InFlight, HasOpen
<1>6. \A k \in Keys : HasOpen(k)' <=> HasOpen(k)
  BY <1>1 DEF HasOpen
<1>7. OpConserved'
  BY <1>1, <1>4, <1>5, <1>6 DEF OpConserved
<1> QED
  BY <1>2, <1>3, <1>7

-----------------------------------------------------------------------------
(* A write: a new request, the one it interrupts, and those of the slots   *)
(* its insertion evicts                                                    *)

LEMMA OpenSlotTyped ==
    ASSUME LedgerTyped, SeqBounded, op_counter < MaxOps,
           NEW k \in Keys, NEW bio \in Cookies \cup {None}, NEW ts \in Ts
    PROVE  /\ OpenSlot(k, bio, ts) \in ConnOps
           /\ OpenSlot(k, bio, ts).open \in OpenOp
           /\ OpenSlot(k, bio, ts).open.id = op_counter + 1
           /\ OpenSlot(k, bio, ts).next_seq <= op_counter + 1
           /\ op_counter + 1 \in OpIds
<1> DEFINE seq == IF ops[k] = None \/ BioConnChanged(k, bio) THEN 0 ELSE ops[k].next_seq
           op  == [id |-> op_counter + 1, seq |-> seq, cookie |-> bio,
                   ambiguous |-> Overtaken(k, bio), resp |-> None]
           bc  == IF bio # None \/ ops[k] = None THEN bio ELSE ops[k].last_bio_cookie
<1>1. MaxOps \in Nat /\ op_counter \in Nat
  BY CorrelatorAssumption DEF LedgerTyped
<1>2. seq \in Nat /\ seq <= op_counter
  BY <1>1, SlotTyped DEF SeqBounded
<1>3. seq \in 0 .. MaxOps /\ seq + 1 \in 0 .. MaxOps /\ seq + 1 <= op_counter + 1
  BY <1>1, <1>2
<1>4. op_counter + 1 \in OpIds
  BY <1>1 DEF OpIds
<1>5. Overtaken(k, bio) \in BOOLEAN
  BY DEF Overtaken
<1>6. bc \in Cookies \cup {None}
  BY SlotTyped
<1>7. OpenSlot(k, bio, ts) = [next_seq |-> seq + 1, last_ts |-> ts,
                              last_bio_cookie |-> bc, open |-> op]
  BY DEF OpenSlot
<1> HIDE DEF seq, bc
<1>8. op \in OpenOp /\ op.id = op_counter + 1
  BY <1>3, <1>4, <1>5 DEF OpenOp
<1> HIDE DEF op
<1> QED
  BY <1>3, <1>4, <1>6, <1>7, <1>8 DEF ConnOps

LEMMA WriteShape ==
    ASSUME LinksTyped, LedgerTyped, SeqBounded, OpConserved,
           NEW t \in Tgids, NEW f \in Fds, NEW bio \in Cookies \cup {None},
           NEW ts \in Ts, OnTlsWrite(t, f, bio, ts)
    PROVE  \E V \in SUBSET (Keys \ {<<t, f>>}) :
             /\ \A j \in Keys : ops'[j] = IF j \in V THEN None
                                          ELSE IF j = <<t, f>> THEN OpenSlot(j, bio, ts)
                                          ELSE ops[j]
             /\ ops' \in [Keys -> ConnOps \cup {None}]
             /\ op_counter' = op_counter + 1 /\ op_counter' \in 0 .. MaxOps
             /\ flushed_ops' = flushed_ops \cup { ops[v].open.id : v \in Opened(V) }
             /\ built' \in [OpIds -> Operation \cup {None}]
<1> DEFINE k    == <<t, f>>
           prev == Finished(k)
           map  == [ops EXCEPT ![k] = OpenSlot(k, bio, ts)]
<1>1. k \in Keys
  BY DEF Keys
<1>2. op_counter < MaxOps /\ op_counter' = op_counter + 1
  BY DEF OnTlsWrite
<1>3. PICK V \in OpsVictims(k, map) :
        /\ ops' = Without(map, V)
        /\ flushed_ops' = flushed_ops \cup { ops[v].open.id : v \in Opened(V) }
        /\ built' = [i \in OpIds |->
                       IF i \in prev THEN Interrupted(k, bio)
                       ELSE IF i \in DOMAIN FlushRecords(V) THEN FlushRecords(V)[i]
                       ELSE built[i]]
  BY DEF OnTlsWrite
<1>4. V \in SUBSET (Keys \ {k})
  BY <1>3, VictimsSpareKeep DEF OpsVictims
<1>5. OpenSlot(k, bio, ts) \in ConnOps
  BY <1>1, <1>2, OpenSlotTyped
<1>6. map \in [Keys -> ConnOps \cup {None}]
  BY <1>5 DEF LedgerTyped
<1>7. ops' = [j \in Keys |-> IF j \in V THEN None ELSE map[j]]
  BY <1>3, <1>6 DEF Without
<1>8. ops' \in [Keys -> ConnOps \cup {None}]
  BY <1>6, <1>7
<1>9. \A j \in Keys : ops'[j] = IF j \in V THEN None
                               ELSE IF j = k THEN OpenSlot(j, bio, ts) ELSE ops[j]
  BY <1>7 DEF LedgerTyped
<1>10. op_counter' \in 0 .. MaxOps
  BY <1>2, CorrelatorAssumption DEF LedgerTyped
<1>11. built' \in [OpIds -> Operation \cup {None}]
  <2>1. \A i \in prev : Interrupted(k, bio) \in Operation
    <3> SUFFICES ASSUME HasOpen(k) PROVE Interrupted(k, bio) \in Operation
      BY DEF Finished
    <3>1. ops[k].open \in OpenOp
      BY <1>1, OpenTyped
    <3> DEFINE op == [ops[k].open EXCEPT !.ambiguous = @ \/ Overtaken(k, bio)]
    <3>2. ops[k].open.ambiguous \in BOOLEAN
      BY <3>1 DEF OpenOp
    <3>3. (ops[k].open.ambiguous \/ Overtaken(k, bio)) \in BOOLEAN
      OBVIOUS
    <3>4. op \in OpenOp
      BY <3>1, <3>3 DEF OpenOp
    <3>5. RespOnFlush(ops[k].open) \in {"none", "head", "complete"}
      BY DEF RespOnFlush
    <3> QED
      BY <1>1, <3>4, <3>5, BuildOpTyped DEF Interrupted
  <2> DEFINE recs == FlushRecords(V)
  <2>2. V \in SUBSET Keys
    BY <1>4
  <2>3. \A i \in DOMAIN recs : recs[i] \in Operation
    BY <2>2, FlushRecordsTyped
  <2>4. built' = [i \in OpIds |-> IF i \in prev THEN Interrupted(k, bio)
                                  ELSE IF i \in DOMAIN recs THEN recs[i] ELSE built[i]]
    BY <1>3
  <2> HIDE DEF recs, prev
  <2> QED
    BY <2>1, <2>3, <2>4 DEF LedgerTyped
<1> HIDE DEF map, prev
<1> QED
  BY <1>2, <1>3, <1>4, <1>8, <1>9, <1>10, <1>11

LEMMA WriteKeeps ==
    ASSUME LinksTyped, LedgerTyped, SeqBounded, OpConserved,
           NEW t \in Tgids, NEW f \in Fds, NEW bio \in Cookies \cup {None},
           NEW ts \in Ts, OnTlsWrite(t, f, bio, ts)
    PROVE  LedgerTyped' /\ SeqBounded' /\ OpConserved' /\ InFlight(op_counter)'
<1> DEFINE k == <<t, f>>
           n == op_counter + 1
<1>1. k \in Keys /\ op_counter < MaxOps /\ op_counter \in Nat
  BY DEF Keys, OnTlsWrite, LedgerTyped
<1>2. PICK V \in SUBSET (Keys \ {k}) :
        /\ \A j \in Keys : ops'[j] = IF j \in V THEN None
                                     ELSE IF j = k THEN OpenSlot(j, bio, ts) ELSE ops[j]
        /\ ops' \in [Keys -> ConnOps \cup {None}]
        /\ op_counter' = n /\ op_counter' \in 0 .. MaxOps
        /\ flushed_ops' = flushed_ops \cup { ops[v].open.id : v \in Opened(V) }
        /\ built' \in [OpIds -> Operation \cup {None}]
  BY WriteShape
<1>3. published' = [i \in OpIds |-> published[i] +
                      IF HasOpen(k) /\ i = ops[k].open.id THEN 1 ELSE 0]
  BY DEF OnTlsWrite, Finished
<1>4. /\ ops'[k] \in ConnOps /\ ops'[k].open \in OpenOp
      /\ ops'[k].open.id = n /\ n \in OpIds
      /\ ops'[k].next_seq <= n
  BY <1>1, <1>2, OpenSlotTyped
<1>5. ops'[k] # None /\ ops'[k].open # None
  BY <1>4, CorrelatorAssumption
<1>6. LedgerTyped'
  <2>1. published' \in [OpIds -> Nat]
    BY <1>3 DEF LedgerTyped
  <2>2. flushed_ops' \in SUBSET OpIds
    BY <1>2, OpenedIds DEF LedgerTyped
  <2> QED
    BY <1>2, <2>1, <2>2 DEF LedgerTyped
<1>7. SeqBounded'
  <2> SUFFICES ASSUME NEW j \in Keys, ops'[j] # None PROVE ops'[j].next_seq <= n
    BY <1>2 DEF SeqBounded
  <2>1. CASE j = k
    BY <2>1, <1>4
  <2>2. CASE j # k
    <3>1. ops'[j] = ops[j]
      BY <2>2, <1>2
    <3>2. ops[j].next_seq \in Nat /\ ops[j].next_seq <= op_counter
      BY <3>1, SlotTyped DEF SeqBounded
    <3> QED
      BY <1>1, <3>1, <3>2
  <2> QED
    BY <2>1, <2>2
<1>8. \A j \in Keys \ {k} : /\ HasOpen(j)' <=> HasOpen(j) /\ j \notin V
                            /\ HasOpen(j)' => ops'[j] = ops[j]
  BY <1>2 DEF HasOpen
<1>9. HasOpen(k)'
  BY <1>5 DEF HasOpen
<1>10. InFlight(op_counter)'
  BY <1>1, <1>2, <1>4, <1>9 DEF InFlight
<1>11. OpConserved'
  <2>1. n \notin flushed_ops /\ published[n] = 0 /\ ~InFlight(n)
    <3>1. ~(n <= op_counter)
      BY <1>1
    <3>2. n \notin flushed_ops /\ published[n] # 1 /\ ~InFlight(n)
      BY <1>4, <3>1 DEF OpConserved
    <3>3. published[n] \in Nat /\ published[n] <= 1
      BY <1>4 DEF OpConserved, LedgerTyped
    <3> QED
      BY <3>2, <3>3
  <2>2. \A j \in Keys : HasOpen(j) => ops[j].open.id \in OpIds /\ ops[j].open.id # n
    BY <2>1, OpenTyped DEF InFlight
  <2>3. \A i \in OpIds : InFlight(i)' <=>
            \/ i = n
            \/ \E j \in Keys \ (V \cup {k}) : HasOpen(j) /\ ops[j].open.id = i
    BY <1>1, <1>4, <1>8, <1>9, <2>2 DEF InFlight
  <2>4. \A i \in OpIds : i \in flushed_ops' <=>
            \/ i \in flushed_ops
            \/ \E j \in V : HasOpen(j) /\ ops[j].open.id = i
    BY <1>2 DEF Opened
  <2>5. HasOpen(k) => /\ published[ops[k].open.id] = 0 /\ ops[k].open.id \in OpIds
                      /\ ops[k].open.id \notin flushed_ops
                      /\ ops[k].open.id <= op_counter
    <3> SUFFICES ASSUME HasOpen(k)
                 PROVE  /\ published[ops[k].open.id] = 0 /\ ops[k].open.id \in OpIds
                        /\ ops[k].open.id \notin flushed_ops
                        /\ ops[k].open.id <= op_counter
      OBVIOUS
    <3> DEFINE p == ops[k].open.id
    <3>1. p \in OpIds /\ InFlight(p)
      BY <1>1, OpenTyped DEF InFlight
    <3>2. published[p] \in Nat /\ published[p] <= 1 /\ published[p] # 1
      BY <3>1 DEF OpConserved, LedgerTyped
    <3>3. p \notin flushed_ops /\ p <= op_counter
      BY <3>1 DEF OpConserved
    <3> QED
      BY <3>1, <3>2, <3>3
  <2>6. \A i \in OpIds : published'[i] =
            IF HasOpen(k) /\ i = ops[k].open.id THEN 1 ELSE published[i]
    BY <1>3, <2>5 DEF LedgerTyped
  <2> SUFFICES ASSUME NEW i \in OpIds
               PROVE  /\ published'[i] <= 1
                      /\ (i <= n) = (InFlight(i)' \/ i \in flushed_ops' \/ published'[i] = 1)
                      /\ ~(InFlight(i)' /\ i \in flushed_ops')
                      /\ ~(InFlight(i)' /\ published'[i] = 1)
                      /\ ~(i \in flushed_ops' /\ published'[i] = 1)
                      /\ \A j, l \in Keys : (HasOpen(j)' /\ HasOpen(l)' /\ ops'[j].open.id = i
                                               /\ ops'[l].open.id = i) => j = l
    BY <1>2 DEF OpConserved
  <2>7. /\ published[i] <= 1
        /\ (i <= op_counter) = (InFlight(i) \/ i \in flushed_ops \/ published[i] = 1)
        /\ ~(InFlight(i) /\ i \in flushed_ops)
        /\ ~(InFlight(i) /\ published[i] = 1)
        /\ ~(i \in flushed_ops /\ published[i] = 1)
        /\ \A j, l \in Keys : (HasOpen(j) /\ HasOpen(l) /\ ops[j].open.id = i
                                               /\ ops[l].open.id = i) => j = l
    BY DEF OpConserved
  <2>8. InFlight(i) <=> \E j \in Keys : HasOpen(j) /\ ops[j].open.id = i
    BY DEF InFlight
  <2>9. i <= n <=> i = n \/ i <= op_counter
    BY <1>1 DEF OpIds
  <2>10. \A j, l \in Keys : (HasOpen(j)' /\ HasOpen(l)' /\ ops'[j].open.id = i
                                               /\ ops'[l].open.id = i) => j = l
    BY <1>4, <1>8, <2>2, <2>7
  <2>11. CASE i = n
    <3>1. ~(\E j \in Keys : HasOpen(j) /\ ops[j].open.id = i)
      BY <2>2, <2>11
    <3> QED
      BY <1>1, <1>2, <2>1, <2>3, <2>4, <2>6, <2>9, <2>10, <2>11, <3>1
  <2>12. CASE i # n
    <3>1. CASE HasOpen(k) /\ i = ops[k].open.id
      <4>1. InFlight(i) /\ i <= op_counter /\ i \notin flushed_ops /\ published'[i] = 1
        BY <1>1, <2>5, <2>6, <2>8, <3>1
      <4>2. ~(\E j \in Keys \ {k} : HasOpen(j) /\ ops[j].open.id = i)
        BY <1>1, <2>7, <3>1
      <4> QED
        BY <1>2, <2>3, <2>4, <2>9, <2>10, <2>12, <4>1, <4>2
    <3>2. CASE ~(HasOpen(k) /\ i = ops[k].open.id)
      <4>1. published'[i] = published[i]
        BY <2>6, <3>2
      <4>2. InFlight(i) <=> \/ \E j \in V : HasOpen(j) /\ ops[j].open.id = i
                            \/ \E j \in Keys \ (V \cup {k}) : HasOpen(j) /\ ops[j].open.id = i
        BY <1>2, <2>8, <3>2
      <4>3. \A j \in V, l \in Keys \ (V \cup {k}) :
              ~(HasOpen(j) /\ ops[j].open.id = i /\ HasOpen(l) /\ ops[l].open.id = i)
        BY <1>2, <2>7
      <4>4. /\ (InFlight(i)' \/ i \in flushed_ops') <=> (InFlight(i) \/ i \in flushed_ops)
            /\ InFlight(i)' => InFlight(i)
            /\ i \in flushed_ops' => i \in flushed_ops \/ InFlight(i)
        BY <2>3, <2>4, <2>12, <4>2
      <4>5. ~(InFlight(i)' /\ i \in flushed_ops')
        BY <2>3, <2>4, <2>7, <2>12, <4>2, <4>3
      <4> QED
        BY <2>7, <2>9, <2>10, <2>12, <4>1, <4>4, <4>5
    <3> QED
      BY <3>1, <3>2
  <2> QED
    BY <2>11, <2>12
<1> QED
  BY <1>6, <1>7, <1>10, <1>11

-----------------------------------------------------------------------------
(* The reads *)

LEMMA TallyKeeps ==
    ASSUME LinksTyped, LedgerTyped, SeqBounded, OpConserved,
           NEW k \in Keys, NEW ts \in Ts, NEW len \in 1 .. MaxBody, TallyBody(k, ts, len)
    PROVE  LedgerTyped' /\ SeqBounded' /\ OpConserved'
<1>1. ops[k] # None
  BY DEF TallyBody
<1>2. CASE ~HasResp(k)
  BY <1>1, <1>2, TouchKeeps DEF TallyBody
<1>3. CASE HasResp(k)
  <2> DEFINE rs == ops[k].open.resp
             more == [rs EXCEPT !.seen = @ + len]
  <2>1. HasOpen(k) /\ rs \in RespState
    BY <1>3, OpenTyped DEF HasResp
  <2>2. CASE rs.seen + len >= rs.target
    <3>1. TakeOpen(k, ts, "complete")
      BY <1>3, <2>2 DEF TallyBody, BodyDone
    <3> QED
      BY <2>1, <3>1, TakeOpenKeeps
  <2>3. CASE ~(rs.seen + len >= rs.target)
    <3>1. ops[k] \in ConnOps /\ ops[k].open \in OpenOp
      BY <2>1, OpenTyped
    <3>2. rs.seen \in 0 .. MaxBody /\ rs.target \in 1 .. MaxBody
      BY <2>1 DEF RespState
    <3>3. rs.seen + len \in 0 .. MaxBody
      BY <2>3, <3>2, CorrelatorAssumption
    <3>4. more \in RespState
      BY <2>1, <3>3 DEF RespState
    <3>5. /\ ops' = [ops EXCEPT ![k].last_ts = ts, ![k].open.resp.seen = @ + len]
          /\ UNCHANGED ledger
      BY <1>3, <2>3 DEF TallyBody, BodyDone
    <3>6. ops' = [ops EXCEPT ![k] = [ops[k] EXCEPT !.last_ts = ts,
                                       !.open = [ops[k].open EXCEPT !.resp = more]]]
      BY <3>1, <3>5 DEF LedgerTyped, ConnOps, OpenOp
    <3> QED
      BY <2>1, <3>4, <3>5, <3>6, RespondKeeps
  <2> QED
    BY <2>2, <2>3
<1> QED
  BY <1>2, <1>3

LEMMA HeadKeeps ==
    ASSUME LinksTyped, LedgerTyped, SeqBounded, OpConserved,
           NEW t \in Tgids, NEW f \in Fds, NEW bio, NEW ts \in Ts,
           NEW target \in 0 .. MaxBody, NEW inHead \in 0 .. MaxBody,
           OnTlsReadHead(t, f, bio, ts, target, inHead)
    PROVE  LedgerTyped' /\ SeqBounded' /\ OpConserved'
<1> DEFINE k == <<t, f>>
<1>1. k \in Keys /\ ops[k] # None
  BY DEF Keys, OnTlsReadHead
<1>2. CASE ~HasOpen(k)
  BY <1>1, <1>2, TouchKeeps DEF OnTlsReadHead
<1>3. CASE HasOpen(k) /\ inHead < target
  <2> DEFINE rs == [target |-> target, seen |-> inHead]
  <2>1. rs \in RespState
    BY <1>3 DEF RespState
  <2>2. ops[k] \in ConnOps /\ ops[k].open \in OpenOp
    BY <1>1, <1>3, OpenTyped
  <2>3. ops' = [ops EXCEPT ![k].last_ts = ts, ![k].open.resp = rs] /\ UNCHANGED ledger
    BY <1>3 DEF OnTlsReadHead
  <2>4. ops' = [ops EXCEPT ![k] = [ops[k] EXCEPT !.last_ts = ts,
                                     !.open = [ops[k].open EXCEPT !.resp = rs]]]
    BY <1>1, <2>2, <2>3 DEF LedgerTyped, ConnOps, OpenOp
  <2> HIDE DEF rs, k
  <2> QED
    BY <1>1, <1>3, <2>1, <2>3, <2>4, RespondKeeps
<1>4. CASE HasOpen(k) /\ ~(inHead < target)
  <2>1. TakeOpen(k, ts, IF target > 0 THEN "complete" ELSE "head")
    BY <1>4 DEF OnTlsReadHead
  <2>2. (IF target > 0 THEN "complete" ELSE "head") \in {"none", "head", "complete"}
    OBVIOUS
  <2> QED
    BY <1>1, <1>4, <2>1, <2>2, TakeOpenKeeps
<1> QED
  BY <1>2, <1>3, <1>4

-----------------------------------------------------------------------------
(* The links *)

(* m and r are inverse partial maps. *)
Inverse2(m, r) ==
    /\ \A k \in Keys : m[k] # None => r[m[k].cookie] = k
    /\ \A c \in Cookies : r[c] # None => m[r[c]] # None /\ m[r[c]].cookie = c

LEMMA ConnectLinks ==
    ASSUME LinksTyped, LinksInverse,
           NEW c \in Cookies, NEW t \in Tgids, NEW ts \in Ts, NEW latency \in Ts,
           OnConnect(c, t, ts, latency)
    PROVE  /\ LinksTyped' /\ LinksInverse'
           /\ \E K \in SUBSET Keys : FlushAndDrop(K)
<1>1. CASE StaleLink(c, t)
  <2>1. fd_links_rev[c] \in Keys
    BY <1>1 DEF StaleLink, LinksTyped
  <2>2. /\ FlushAndDrop({fd_links_rev[c]})
        /\ fd_links' = Without(fd_links, {fd_links_rev[c]})
        /\ fd_links_rev' = Without(fd_links_rev, {c})
    BY <1>1 DEF OnConnect
  <2>3. /\ fd_links' = [k \in Keys |-> IF k = fd_links_rev[c] THEN None ELSE fd_links[k]]
        /\ fd_links_rev' = [d \in Cookies |-> IF d = c THEN None ELSE fd_links_rev[d]]
    BY <2>2 DEF Without, LinksTyped
  <2>4. LinksTyped'
    BY <2>3 DEF LinksTyped
  <2>5. LinksInverse'
    BY <2>1, <2>3 DEF LinksInverse, LinksTyped, FdLink
  <2> QED
    BY <2>1, <2>2, <2>4, <2>5
<1>2. CASE ~StaleLink(c, t)
  <2>1. /\ FlushAndDrop({})
        /\ fd_links' = Without(fd_links, {}) /\ fd_links_rev' = Without(fd_links_rev, {})
    BY <1>2 DEF OnConnect
  <2>2. fd_links' = fd_links /\ fd_links_rev' = fd_links_rev
    BY <2>1 DEF Without, LinksTyped
  <2> QED
    BY <2>1, <2>2 DEF LinksTyped, LinksInverse
<1> QED
  BY <1>1, <1>2

LEMMA CloseLinks ==
    ASSUME LinksTyped, LinksInverse, NEW c \in Cookies, NEW ts \in Ts, OnClose(c, ts)
    PROVE  /\ LinksTyped' /\ LinksInverse'
           /\ \E K \in SUBSET Keys : FlushAndDrop(K)
<1>1. \E K \in SUBSET Keys : FlushAndDrop(K)
  <2>1. PICK K \in ClosingSlots(c, ts) : FlushAndDrop(K)
    BY DEF OnClose
  <2>2. OwnLink(c, ts) => fd_links_rev[c] \in Keys
    BY DEF OwnLink, LinksTyped
  <2>3. K \in SUBSET Keys
    BY <2>1, <2>2 DEF ClosingSlots, BioOpen, BioOwned, Opened, BioKeys
  <2> QED
    BY <2>1, <2>3
<1>2. CASE OwnLink(c, ts)
  <2>1. fd_links_rev[c] # None /\ fd_links_rev[c] \in Keys
    BY <1>2 DEF OwnLink, LinksTyped
  <2>2. /\ fd_links' = [fd_links EXCEPT ![fd_links_rev[c]] = None]
        /\ fd_links_rev' = [fd_links_rev EXCEPT ![c] = None]
    BY <1>2 DEF OnClose
  <2>3. LinksTyped'
    BY <2>2 DEF LinksTyped
  <2>4. LinksInverse'
    BY <2>1, <2>2 DEF LinksInverse, LinksTyped, FdLink
  <2> QED
    BY <1>1, <2>3, <2>4
<1>3. CASE ~OwnLink(c, ts)
  BY <1>1, <1>3 DEF OnClose, links, LinksTyped, LinksInverse
<1> QED
  BY <1>2, <1>3

LEMMA ConnIdLinks ==
    ASSUME LinksTyped, LinksInverse, NEW t \in Tgids, NEW f \in Fds,
           NEW c \in Cookies, NEW ts \in Ts, OnConnId(t, f, c, ts)
    PROVE  /\ LinksTyped' /\ LinksInverse'
           /\ \E K \in SUBSET Keys : FlushAndDrop(K)
<1> DEFINE k      == <<t, f>>
           oldKey == OldKey(k, c)
           oldPtr == OldPtr(k, c)
           bound  == [Without(fd_links, oldKey) EXCEPT ![k] = [cookie |-> c, ts |-> ts]]
           back   == [Without(fd_links_rev, oldPtr) EXCEPT ![c] = k]
<1>1. k \in Keys
  BY DEF Keys
<1>2. PICK V \in LinkVictims(k, bound) :
        /\ FlushAndDrop(Retired(k, c) \cup oldKey \cup V)
        /\ fd_links' = Without(bound, V)
        /\ fd_links_rev' = Without(back, { d \in Cookies :
              \E v \in V : bound[v].cookie = d /\ back[d] = v })
  BY DEF OnConnId
<1>3. V \in SUBSET (Keys \ {k})
  BY <1>2, VictimsSpareKeep DEF LinkVictims
<1>4. oldKey \in SUBSET Keys /\ k \notin oldKey
  BY DEF LinksTyped, OldKey
<1>5. [cookie |-> c, ts |-> ts] \in FdLink /\ [cookie |-> c, ts |-> ts] # None
  BY CorrelatorAssumption DEF FdLink
<1>6. /\ bound \in [Keys -> FdLink \cup {None}]
      /\ \A j \in Keys : bound[j] = IF j = k THEN [cookie |-> c, ts |-> ts]
                                    ELSE IF j \in oldKey THEN None ELSE fd_links[j]
  BY <1>1, <1>5 DEF Without, LinksTyped
<1>7. /\ back \in [Cookies -> Keys \cup {None}]
      /\ \A d \in Cookies : back[d] = IF d = c THEN k
                                      ELSE IF d \in oldPtr THEN None ELSE fd_links_rev[d]
  BY <1>1 DEF Without, LinksTyped
<1>8. k # None
  BY <1>1, CorrelatorAssumption
<1>9. Inverse2(bound, back)
  <2>1. ASSUME NEW j \in Keys, bound[j] # None PROVE back[bound[j].cookie] = j
    <3>1. CASE j = k
      BY <1>6, <1>7, <3>1
    <3>2. CASE j # k
      <4>1. /\ bound[j] = fd_links[j] /\ fd_links[j] # None /\ j \notin oldKey
            /\ fd_links[j].cookie \in Cookies
        BY <1>6, <2>1, <3>2 DEF LinksTyped, FdLink
      <4>2. fd_links_rev[fd_links[j].cookie] = j
        BY <4>1 DEF LinksInverse
      <4>3. fd_links[j].cookie # c
        BY <3>2, <4>1, <4>2, CorrelatorAssumption DEF OldKey
      <4>4. fd_links[j].cookie \notin oldPtr
        BY <1>1, <3>2, <4>2 DEF LinksInverse, OldPtr
      <4> QED
        BY <1>7, <4>1, <4>2, <4>3, <4>4
    <3> QED
      BY <3>1, <3>2
  <2>2. ASSUME NEW d \in Cookies, back[d] # None
        PROVE  bound[back[d]] # None /\ bound[back[d]].cookie = d
    <3>1. CASE d = c
      BY <1>1, <1>5, <1>6, <1>7, <3>1
    <3>2. CASE d # c
      <4>1. back[d] = fd_links_rev[d] /\ fd_links_rev[d] # None /\ d \notin oldPtr
        BY <1>7, <2>2, <3>2
      <4>2. /\ fd_links_rev[d] \in Keys
            /\ fd_links[fd_links_rev[d]] # None /\ fd_links[fd_links_rev[d]].cookie = d
        BY <4>1 DEF LinksInverse, LinksTyped
      <4>3. fd_links_rev[d] # k
        BY <1>1, <3>2, <4>1, <4>2 DEF OldPtr
      <4>4. fd_links_rev[d] \notin oldKey
        BY <3>2, <4>2 DEF LinksInverse, OldKey
      <4> QED
        BY <1>6, <4>1, <4>2, <4>3, <4>4
    <3> QED
      BY <3>1, <3>2
  <2> HIDE DEF bound, back
  <2> QED
    BY <2>1, <2>2 DEF Inverse2
<1> HIDE DEF bound, back, oldKey, oldPtr, k
<1> DEFINE gone == { d \in Cookies : \E v \in V : bound[v].cookie = d /\ back[d] = v }
<1>10. /\ fd_links' = [j \in Keys |-> IF j \in V THEN None ELSE bound[j]]
       /\ fd_links_rev' = [d \in Cookies |-> IF d \in gone THEN None ELSE back[d]]
  BY <1>2, <1>6, <1>7 DEF Without
<1>11. LinksTyped'
  BY <1>6, <1>7, <1>10 DEF LinksTyped
<1>12. LinksInverse'
  <2>1. ASSUME NEW j \in Keys, fd_links'[j] # None
        PROVE  fd_links_rev'[fd_links'[j].cookie] = j
    <3>1. j \notin V /\ fd_links'[j] = bound[j] /\ bound[j] # None
      BY <1>10, <2>1
    <3>2. bound[j].cookie \in Cookies
      BY <1>6, <3>1 DEF FdLink
    <3>3. back[bound[j].cookie] = j
      BY <1>9, <3>1 DEF Inverse2
    <3>4. bound[j].cookie \notin gone
      BY <3>1, <3>3
    <3> QED
      BY <1>10, <3>1, <3>2, <3>3, <3>4
  <2>2. ASSUME NEW d \in Cookies, fd_links_rev'[d] # None
        PROVE  /\ fd_links'[fd_links_rev'[d]] # None
               /\ fd_links'[fd_links_rev'[d]].cookie = d
    <3>1. d \notin gone /\ fd_links_rev'[d] = back[d] /\ back[d] # None
      BY <1>10, <2>2
    <3>2. back[d] \in Keys /\ bound[back[d]] # None /\ bound[back[d]].cookie = d
      BY <1>7, <1>9, <3>1 DEF Inverse2
    <3>3. back[d] \notin V
      BY <3>1, <3>2
    <3> QED
      BY <1>10, <3>1, <3>2, <3>3
  <2> QED
    BY <2>1, <2>2 DEF LinksInverse
<1>13. Retired(k, c) \cup oldKey \cup V \in SUBSET Keys
  BY <1>1, <1>3, <1>4 DEF Retired
<1> QED
  BY <1>2, <1>11, <1>12, <1>13

-----------------------------------------------------------------------------
(* The connection facts *)

LEMMA ConnectConns ==
    ASSUME ConnsTyped, NEW c \in Cookies, NEW t \in Tgids, NEW ts \in Ts,
           NEW latency \in Ts, OnConnect(c, t, ts, latency)
    PROVE  ConnsTyped'
<1> DEFINE seen == [conns EXCEPT ![c] = [pid |-> t, ts |-> SatSub(ts, latency)]]
<1>1. SatSub(ts, latency) \in Ts
  BY CorrelatorAssumption DEF SatSub, Ts
<1>2. seen \in [Cookies -> ConnState \cup {None}]
  BY <1>1 DEF ConnsTyped, ConnState
<1>3. PICK V \in ConnVictims(c, seen) : conns' = Without(seen, V)
  BY DEF OnConnect
<1>4. tls' = [tls EXCEPT ![c] = None]
  BY DEF OnConnect, Forget
<1> HIDE DEF seen
<1> QED
  BY <1>2, <1>3, <1>4 DEF ConnsTyped, Without

LEMMA TlsEntryTyped ==
    ASSUME ConnsTyped, NEW c \in Cookies, NEW ts \in Ts
    PROVE  TlsEntry(c, ts) \in TlsInfo
  BY DEF TlsEntry, TlsInfo, ConnsTyped

LEMMA HandshakeConns ==
    ASSUME ConnsTyped, NEW c \in Cookies, NEW sni \in Snis, NEW ts \in Ts,
           OnTlsHandshake(c, sni, ts)
    PROVE  ConnsTyped'
<1> DEFINE e    == TlsEntry(c, ts)
           news == [e EXCEPT !.sni = sni, !.ts = ts]
           seen == [tls EXCEPT ![c] = news]
<1>1. news \in TlsInfo
  <2>1. e \in TlsInfo
    BY TlsEntryTyped
  <2> HIDE DEF e
  <2> QED
    BY <2>1 DEF TlsInfo
<1>2. seen \in [Cookies -> TlsInfo \cup {None}]
  BY <1>1 DEF ConnsTyped
<1>3. PICK V \in ConnVictims(c, seen) : tls' = Without(seen, V)
  BY DEF OnTlsHandshake
<1>4. conns' = conns
  BY DEF OnTlsHandshake
<1> HIDE DEF seen
<1> QED
  BY <1>2, <1>3, <1>4 DEF ConnsTyped, Without

LEMMA ServerConns ==
    ASSUME ConnsTyped, NEW c \in Cookies, NEW v \in Versions, NEW ts \in Ts,
           OnTlsServer(c, v, ts)
    PROVE  ConnsTyped'
<1> DEFINE e    == TlsEntry(c, ts)
           news == IF v = None THEN e ELSE [e EXCEPT !.version = v]
           seen == [tls EXCEPT ![c] = news]
<1>1. news \in TlsInfo
  <2>1. e \in TlsInfo
    BY TlsEntryTyped
  <2> HIDE DEF e
  <2> QED
    BY <2>1 DEF TlsInfo
<1>2. seen \in [Cookies -> TlsInfo \cup {None}]
  BY <1>1 DEF ConnsTyped
<1>3. PICK V \in ConnVictims(c, seen) : tls' = Without(seen, V)
  BY DEF OnTlsServer
<1>4. conns' = conns
  BY DEF OnTlsServer
<1> HIDE DEF seen
<1> QED
  BY <1>2, <1>3, <1>4 DEF ConnsTyped, Without

-----------------------------------------------------------------------------
(* The inductive invariant *)

Inv == TypeOK /\ SeqBounded /\ LinksInverse /\ OpConserved

LEMMA InvParts ==
    Inv <=> ConnsTyped /\ LinksTyped /\ LedgerTyped /\ SeqBounded /\ LinksInverse /\ OpConserved
  BY TypeParts DEF Inv

LEMMA InitInv == Init => Inv
<1> SUFFICES ASSUME Init PROVE Inv
  OBVIOUS
<1>1. TypeOK
  BY CorrelatorAssumption DEF Init, TypeOK, OpIds
<1>2. SeqBounded /\ LinksInverse
  BY DEF Init, SeqBounded, LinksInverse
<1>3. OpConserved
  <2>1. \A k \in Keys : ~HasOpen(k)
    BY DEF Init, HasOpen
  <2>2. \A i \in OpIds : /\ ~InFlight(i) /\ i \notin flushed_ops /\ published[i] = 0
                         /\ ~(i <= op_counter)
    BY <2>1 DEF Init, InFlight, OpIds
  <2> QED
    BY <2>1, <2>2 DEF OpConserved
<1> QED
  BY <1>1, <1>2, <1>3 DEF Inv

(* A step that only flushes slots keeps the ledger; what the step does to  *)
(* the links and the connection facts is shown apart.                      *)
LEMMA FlushKeeps ==
    ASSUME LinksTyped, LedgerTyped, SeqBounded, OpConserved,
           \E K \in SUBSET Keys : FlushAndDrop(K)
    PROVE  LedgerTyped' /\ SeqBounded' /\ OpConserved'
  BY FlushTyped, FlushConserves

LEMMA ConnStep == Inv /\ ConnNext => Inv'
<1> SUFFICES ASSUME ConnsTyped, LinksTyped, LedgerTyped, SeqBounded, LinksInverse,
                    OpConserved, ConnNext
             PROVE  /\ ConnsTyped' /\ LinksTyped' /\ LedgerTyped' /\ SeqBounded'
                    /\ LinksInverse' /\ OpConserved'
  BY TypeParts DEF Inv, TypeOK, ConnsTyped, LinksTyped, LedgerTyped
<1>1. ASSUME NEW c \in Cookies, NEW t \in Tgids, NEW ts \in Ts, NEW latency \in Ts,
             OnConnect(c, t, ts, latency)
      PROVE  /\ ConnsTyped' /\ LinksTyped' /\ LedgerTyped' /\ SeqBounded'
             /\ LinksInverse' /\ OpConserved'
  BY <1>1, ConnectConns, ConnectLinks, FlushKeeps
<1>2. ASSUME NEW c \in Cookies, NEW ts \in Ts, OnClose(c, ts)
      PROVE  /\ ConnsTyped' /\ LinksTyped' /\ LedgerTyped' /\ SeqBounded'
             /\ LinksInverse' /\ OpConserved'
  <2>1. ConnsTyped'
    BY <1>2 DEF OnClose, ConnsTyped, Forget
  <2> QED
    BY <1>2, <2>1, CloseLinks, FlushKeeps
<1>3. ASSUME NEW t \in Tgids, NEW f \in Fds, NEW c \in Cookies, NEW ts \in Ts,
             OnConnId(t, f, c, ts)
      PROVE  /\ ConnsTyped' /\ LinksTyped' /\ LedgerTyped' /\ SeqBounded'
             /\ LinksInverse' /\ OpConserved'
  <2>1. ConnsTyped'
    BY <1>3 DEF OnConnId, ConnsTyped
  <2> QED
    BY <1>3, <2>1, ConnIdLinks, FlushKeeps
<1>4. ASSUME ConnsTyped', UNCHANGED <<links, ops, ledger>>
      PROVE  /\ ConnsTyped' /\ LinksTyped' /\ LedgerTyped' /\ SeqBounded'
             /\ LinksInverse' /\ OpConserved'
  BY <1>4 DEF links, ledger, LinksTyped, LedgerTyped, SeqBounded, LinksInverse,
              OpConserved, InFlight, HasOpen
<1>5. ASSUME NEW c \in Cookies, NEW sni \in Snis, NEW ts \in Ts, OnTlsHandshake(c, sni, ts)
      PROVE  ConnsTyped' /\ UNCHANGED <<links, ops, ledger>>
  BY <1>5, HandshakeConns DEF OnTlsHandshake
<1>6. ASSUME NEW c \in Cookies, NEW v \in Versions, NEW ts \in Ts, OnTlsServer(c, v, ts)
      PROVE  ConnsTyped' /\ UNCHANGED <<links, ops, ledger>>
  BY <1>6, ServerConns DEF OnTlsServer
<1> QED
  BY <1>1, <1>2, <1>3, <1>4, <1>5, <1>6 DEF ConnNext

LEMMA OpStep == Inv /\ OpNext => Inv'
<1> SUFFICES ASSUME ConnsTyped, LinksTyped, LedgerTyped, SeqBounded, LinksInverse,
                    OpConserved, OpNext
             PROVE  /\ ConnsTyped' /\ LinksTyped' /\ LedgerTyped' /\ SeqBounded'
                    /\ LinksInverse' /\ OpConserved'
  BY TypeParts DEF Inv, TypeOK, ConnsTyped, LinksTyped, LedgerTyped
<1>1. PICK t \in Tgids, f \in Fds, ts \in Ts : \E bio \in BioCookies(f) :
        \/ OnTlsWrite(t, f, bio, ts)
        \/ OnTlsReadInterim(t, f, bio, ts)
        \/ \E len \in 1 .. MaxBody : OnTlsReadBody(t, f, bio, ts, len)
        \/ \E len \in 1 .. MaxBody : OnTlsReadAsBody(t, f, bio, ts, len)
        \/ \E target, inHead \in 0 .. MaxBody : OnTlsReadHead(t, f, bio, ts, target, inHead)
  BY DEF OpNext
<1>2. PICK bio \in Cookies \cup {None} :
        \/ OnTlsWrite(t, f, bio, ts)
        \/ OnTlsReadInterim(t, f, bio, ts)
        \/ \E len \in 1 .. MaxBody : OnTlsReadBody(t, f, bio, ts, len)
        \/ \E len \in 1 .. MaxBody : OnTlsReadAsBody(t, f, bio, ts, len)
        \/ \E target, inHead \in 0 .. MaxBody : OnTlsReadHead(t, f, bio, ts, target, inHead)
  BY <1>1 DEF BioCookies
<1>3. UNCHANGED <<conns, tls, links>>
  BY <1>2 DEF OnTlsWrite, OnTlsReadInterim, OnTlsReadBody, OnTlsReadAsBody, OnTlsReadHead
<1>4. ConnsTyped' /\ LinksTyped' /\ LinksInverse'
  BY <1>3 DEF links, ConnsTyped, LinksTyped, LinksInverse
<1>5. <<t, f>> \in Keys
  BY DEF Keys
<1>6. LedgerTyped' /\ SeqBounded' /\ OpConserved'
  <2>1. CASE OnTlsWrite(t, f, bio, ts)
    BY <2>1, WriteKeeps
  <2>2. CASE OnTlsReadInterim(t, f, bio, ts)
    BY <1>5, <2>2, TouchKeeps DEF OnTlsReadInterim
  <2>3. ASSUME NEW len \in 1 .. MaxBody, OnTlsReadBody(t, f, bio, ts, len)
        PROVE  LedgerTyped' /\ SeqBounded' /\ OpConserved'
    BY <1>5, <2>3, TallyKeeps DEF OnTlsReadBody
  <2>4. ASSUME NEW len \in 1 .. MaxBody, OnTlsReadAsBody(t, f, bio, ts, len)
        PROVE  LedgerTyped' /\ SeqBounded' /\ OpConserved'
    BY <1>5, <2>4, TallyKeeps DEF OnTlsReadAsBody
  <2>5. ASSUME NEW target \in 0 .. MaxBody, NEW inHead \in 0 .. MaxBody,
               OnTlsReadHead(t, f, bio, ts, target, inHead)
        PROVE  LedgerTyped' /\ SeqBounded' /\ OpConserved'
    BY <2>5, HeadKeeps
  <2> QED
    BY <1>2, <2>1, <2>2, <2>3, <2>4, <2>5
<1> QED
  BY <1>4, <1>6

LEMMA NextInv == Inv /\ [Next]_vars => Inv'
<1> SUFFICES ASSUME Inv, [Next]_vars PROVE Inv'
  OBVIOUS
<1>1. CASE ConnNext
  BY <1>1, ConnStep
<1>2. CASE OpNext
  BY <1>2, OpStep
<1>3. ASSUME ConnsTyped', LinksTyped', LinksInverse',
             LedgerTyped', SeqBounded', OpConserved'
      PROVE  Inv'
  BY <1>3 DEF Inv, TypeOK, ConnsTyped, LinksTyped, LedgerTyped
<1>4. ASSUME UNCHANGED <<conns, tls, links>>
      PROVE  ConnsTyped' /\ LinksTyped' /\ LinksInverse'
  BY <1>4, InvParts DEF links, ConnsTyped, LinksTyped, LinksInverse
<1>5. CASE TakeFlushedOps
  BY <1>3, <1>4, <1>5, InvParts, TakeFlushedKeeps DEF TakeFlushedOps
<1>6. CASE FlushOpenOps
  BY <1>3, <1>4, <1>6, InvParts, FlushKeeps DEF FlushOpenOps
<1>7. CASE UNCHANGED vars
  BY <1>7 DEF vars, Inv, TypeOK, SeqBounded, LinksInverse, OpConserved, InFlight, HasOpen
<1> QED
  BY <1>1, <1>2, <1>5, <1>6, <1>7 DEF Next

(* Inv is an invariant of the engine. *)
THEOREM InvHolds == Spec => []Inv
  BY InitInv, NextInv, PTL DEF Spec

(* No handler, in any order of events, puts a value of the wrong shape in  *)
(* a map or hands out an id twice over.                                    *)
THEOREM TypeCorrect == Spec => []TypeOK
<1>1. Inv => TypeOK
  BY DEF Inv
<1> QED
  BY <1>1, InvHolds, PTL

(* The fd-to-cookie map and its reverse are exact inverses at all times.   *)
THEOREM LinksAgree == Spec => []LinksInverse
<1>1. Inv => LinksInverse
  BY DEF Inv
<1> QED
  BY <1>1, InvHolds, PTL

(* Every request opened is in flight, due or reported, exactly once.       *)
THEOREM RequestsConserved == Spec => []OpConserved
<1>1. Inv => OpConserved
  BY DEF Inv
<1> QED
  BY <1>1, InvHolds, PTL

-----------------------------------------------------------------------------
(* Memory: every map stays within the cap *)

LEMMA DomainsFinite == IsFiniteSet(Cookies) /\ IsFiniteSet(Keys)
  BY CorrelatorAssumption, FS_Product DEF Keys

(* Entries of m and of a map that has gained none. *)
LEMMA NoGrowth ==
    ASSUME NEW D, IsFiniteSet(D), NEW m, NEW n,
           Cardinality({ x \in D : m[x] # None }) <= MaxOpen,
           \A x \in D : n[x] # None => m[x] # None
    PROVE  Cardinality({ x \in D : n[x] # None }) <= MaxOpen
<1> DEFINE S == { x \in D : m[x] # None }
           T == { x \in D : n[x] # None }
<1>1. T \in SUBSET S
  OBVIOUS
<1>2. IsFiniteSet(S)
  BY FS_Subset
<1>3. Cardinality(T) <= Cardinality(S) /\ Cardinality(T) \in Nat /\ Cardinality(S) \in Nat
  BY <1>1, <1>2, FS_Subset, FS_CardinalityType
<1> HIDE DEF S, T
<1>4. Cardinality(T) <= MaxOpen
  BY <1>3, CorrelatorAssumption DEF S
<1> QED
  BY <1>4 DEF T

(* A map that an insertion filled and one eviction pass cut back. *)
LEMMA ConnCutBack ==
    ASSUME NEW c \in Cookies, NEW m, DOMAIN m = Cookies, NEW V \in ConnVictims(c, m)
    PROVE  Cardinality({ d \in Cookies : Without(m, V)[d] # None }) <= MaxOpen
<1> DEFINE S     == { d \in Cookies : m[d] # None }
           stamp == [d \in S |-> m[d].ts]
<1>1. V \in Victims(S, MaxOpen, stamp, CookieRank, {c})
  BY DEF ConnVictims
<1>2. IsFiniteSet(S)
  BY DomainsFinite, FS_Subset
<1>3. { d \in Cookies : Without(m, V)[d] # None } = S \ V
  BY DEF Without
<1> HIDE DEF S, stamp
<1>4. Cardinality(S \ V) <= MaxOpen
  BY <1>1, <1>2, CorrelatorAssumption, VictimsRestoreCap
<1> QED
  BY <1>3, <1>4

LEMMA LinkCutBack ==
    ASSUME NEW k \in Keys, NEW m, DOMAIN m = Keys, NEW V \in LinkVictims(k, m)
    PROVE  Cardinality({ j \in Keys : Without(m, V)[j] # None }) <= MaxOpen
<1> DEFINE S     == { j \in Keys : m[j] # None }
           stamp == [j \in S |-> m[j].ts]
<1>1. V \in Victims(S, MaxOpen, stamp, KeyRank, {k})
  BY DEF LinkVictims
<1>2. IsFiniteSet(S)
  BY DomainsFinite, FS_Subset
<1>3. { j \in Keys : Without(m, V)[j] # None } = S \ V
  BY DEF Without
<1> HIDE DEF S, stamp
<1>4. Cardinality(S \ V) <= MaxOpen
  BY <1>1, <1>2, CorrelatorAssumption, VictimsRestoreCap
<1> QED
  BY <1>3, <1>4

LEMMA OpsCutBack ==
    ASSUME NEW k \in Keys, NEW m, DOMAIN m = Keys, NEW V \in OpsVictims(k, m)
    PROVE  Cardinality({ j \in Keys : Without(m, V)[j] # None }) <= MaxOpen
<1> DEFINE S     == { j \in Keys : m[j] # None }
           stamp == [j \in S |-> m[j].last_ts]
<1>1. V \in Victims(S, MaxOpen, stamp, KeyRank, {k})
  BY DEF OpsVictims
<1>2. IsFiniteSet(S)
  BY DomainsFinite, FS_Subset
<1>3. { j \in Keys : Without(m, V)[j] # None } = S \ V
  BY DEF Without
<1> HIDE DEF S, stamp
<1>4. Cardinality(S \ V) <= MaxOpen
  BY <1>1, <1>2, CorrelatorAssumption, VictimsRestoreCap
<1> QED
  BY <1>3, <1>4

(* What the plaintext events and the caller leave alone. *)
LEMMA OpFrame ==
    ASSUME OpNext \/ TakeFlushedOps \/ FlushOpenOps
    PROVE  UNCHANGED <<conns, tls, links>>
<1>1. CASE OpNext
  <2>1. PICK t \in Tgids, f \in Fds, ts \in Ts : \E bio \in BioCookies(f) :
        \/ OnTlsWrite(t, f, bio, ts)
        \/ OnTlsReadInterim(t, f, bio, ts)
        \/ \E len \in 1 .. MaxBody : OnTlsReadBody(t, f, bio, ts, len)
        \/ \E len \in 1 .. MaxBody : OnTlsReadAsBody(t, f, bio, ts, len)
        \/ \E target, inHead \in 0 .. MaxBody : OnTlsReadHead(t, f, bio, ts, target, inHead)
    BY <1>1 DEF OpNext
  <2> QED
    BY <2>1 DEF OnTlsWrite, OnTlsReadInterim, OnTlsReadBody, OnTlsReadAsBody, OnTlsReadHead
<1> QED
  BY <1>1 DEF TakeFlushedOps, FlushOpenOps

(* Only a write grows the map of slots. *)
LEMMA SlotsStep ==
    ASSUME Inv, Next
    PROVE  \/ \A k \in Keys : ops'[k] # None => ops[k] # None
           \/ \E t \in Tgids, f \in Fds, bio \in Cookies \cup {None}, ts \in Ts :
                 OnTlsWrite(t, f, bio, ts)
<1> USE InvParts
<1>1. ASSUME NEW K, FlushAndDrop(K)
      PROVE  \A k \in Keys : ops'[k] # None => ops[k] # None
  BY <1>1 DEF FlushAndDrop, Without, LedgerTyped
<1>2. ASSUME NEW k \in Keys, NEW ts, ops[k] # None, Touch(k, ts)
      PROVE  \A j \in Keys : ops'[j] # None => ops[j] # None
  BY <1>2 DEF Touch, LedgerTyped
<1>3. ASSUME NEW k \in Keys, NEW ts, NEW r, ops[k] # None, TakeOpen(k, ts, r)
      PROVE  \A j \in Keys : ops'[j] # None => ops[j] # None
  BY <1>3 DEF TakeOpen, LedgerTyped
<1>4. ASSUME NEW k \in Keys, NEW ts, NEW len, TallyBody(k, ts, len)
      PROVE  \A j \in Keys : ops'[j] # None => ops[j] # None
  BY <1>2, <1>3, <1>4 DEF TallyBody, LedgerTyped
<1>5. CASE ConnNext
  <2>1. ASSUME NEW c \in Cookies, NEW t \in Tgids, NEW ts \in Ts, NEW latency \in Ts,
               OnConnect(c, t, ts, latency)
        PROVE  \A k \in Keys : ops'[k] # None => ops[k] # None
    BY <1>1, <2>1, ConnectLinks
  <2>2. ASSUME NEW c \in Cookies, NEW ts \in Ts, OnClose(c, ts)
        PROVE  \A k \in Keys : ops'[k] # None => ops[k] # None
    BY <1>1, <2>2, CloseLinks
  <2>3. ASSUME NEW t \in Tgids, NEW f \in Fds, NEW c \in Cookies, NEW ts \in Ts,
               OnConnId(t, f, c, ts)
        PROVE  \A k \in Keys : ops'[k] # None => ops[k] # None
    BY <1>1, <2>3, ConnIdLinks
  <2> QED
    BY <1>5, <2>1, <2>2, <2>3 DEF ConnNext, OnTlsHandshake, OnTlsServer
<1>6. CASE OpNext
  <2>1. PICK t \in Tgids, f \in Fds, ts \in Ts, bio \in Cookies \cup {None} :
        \/ OnTlsWrite(t, f, bio, ts)
        \/ OnTlsReadInterim(t, f, bio, ts)
        \/ \E len \in 1 .. MaxBody : OnTlsReadBody(t, f, bio, ts, len)
        \/ \E len \in 1 .. MaxBody : OnTlsReadAsBody(t, f, bio, ts, len)
        \/ \E target, inHead \in 0 .. MaxBody : OnTlsReadHead(t, f, bio, ts, target, inHead)
    BY <1>6 DEF OpNext, BioCookies
  <2>2. <<t, f>> \in Keys
    BY DEF Keys
  <2>3. CASE OnTlsReadInterim(t, f, bio, ts)
    BY <1>2, <2>2, <2>3 DEF OnTlsReadInterim
  <2>4. CASE \E len \in 1 .. MaxBody : OnTlsReadBody(t, f, bio, ts, len)
    BY <1>4, <2>2, <2>4 DEF OnTlsReadBody
  <2>5. CASE \E len \in 1 .. MaxBody : OnTlsReadAsBody(t, f, bio, ts, len)
    BY <1>4, <2>2, <2>5 DEF OnTlsReadAsBody
  <2>6. CASE \E target, inHead \in 0 .. MaxBody : OnTlsReadHead(t, f, bio, ts, target, inHead)
    <3> PICK target \in 0 .. MaxBody, inHead \in 0 .. MaxBody :
               OnTlsReadHead(t, f, bio, ts, target, inHead)
      BY <2>6
    <3> QED
      BY <1>2, <1>3, <2>2 DEF OnTlsReadHead, LedgerTyped
  <2> QED
    BY <2>1, <2>3, <2>4, <2>5, <2>6
<1>7. CASE TakeFlushedOps
  BY <1>7 DEF TakeFlushedOps
<1>8. CASE FlushOpenOps
  BY <1>1, <1>8 DEF FlushOpenOps
<1> QED
  BY <1>5, <1>6, <1>7, <1>8 DEF Next

LEMMA BoundedStep == Inv /\ Bounded /\ [Next]_vars => Bounded'
<1> SUFFICES ASSUME Inv, Bounded, [Next]_vars PROVE Bounded'
  OBVIOUS
<1> USE InvParts, DomainsFinite
<1>1. CASE UNCHANGED vars
  BY <1>1 DEF vars, Bounded
<1> SUFFICES ASSUME Next PROVE Bounded'
  BY <1>1
<1>2. Cardinality({ k \in Keys : ops'[k] # None }) <= MaxOpen
  <2>1. ASSUME NEW t \in Tgids, NEW f \in Fds, NEW bio \in Cookies \cup {None},
               NEW ts \in Ts, OnTlsWrite(t, f, bio, ts)
        PROVE  Cardinality({ k \in Keys : ops'[k] # None }) <= MaxOpen
    <3> DEFINE map == [ops EXCEPT ![<<t, f>>] = OpenSlot(<<t, f>>, bio, ts)]
    <3>1. PICK V \in OpsVictims(<<t, f>>, map) : ops' = Without(map, V)
      BY <2>1 DEF OnTlsWrite
    <3>2. DOMAIN map = Keys
      BY DEF LedgerTyped
    <3> HIDE DEF map
    <3>3. <<t, f>> \in Keys
      BY DEF Keys
    <3> QED
      BY <3>1, <3>2, <3>3, OpsCutBack
  <2>2. ASSUME \A k \in Keys : ops'[k] # None => ops[k] # None
        PROVE  Cardinality({ k \in Keys : ops'[k] # None }) <= MaxOpen
    BY <2>2, NoGrowth DEF Bounded
  <2> QED
    BY <2>1, <2>2, SlotsStep
<1>3. /\ Cardinality({ c \in Cookies : conns'[c] # None }) <= MaxOpen
      /\ Cardinality({ c \in Cookies : tls'[c] # None }) <= MaxOpen
  <2>1. ASSUME NEW m, NEW n,
               \A c \in Cookies : n[c] # None => m[c] # None,
               Cardinality({ c \in Cookies : m[c] # None }) <= MaxOpen
        PROVE  Cardinality({ c \in Cookies : n[c] # None }) <= MaxOpen
    BY <2>1, NoGrowth
  <2>2. /\ Cardinality({ c \in Cookies : conns[c] # None }) <= MaxOpen
        /\ Cardinality({ c \in Cookies : tls[c] # None }) <= MaxOpen
    BY DEF Bounded
  <2>4. ASSUME NEW c \in Cookies, NEW t \in Tgids, NEW ts \in Ts, NEW latency \in Ts,
               OnConnect(c, t, ts, latency)
        PROVE  <1>3!1 /\ <1>3!2
    <3> DEFINE seen == [conns EXCEPT ![c] = [pid |-> t, ts |-> SatSub(ts, latency)]]
    <3>1. PICK V \in ConnVictims(c, seen) : conns' = Without(seen, V)
      BY <2>4 DEF OnConnect
    <3>2. DOMAIN seen = Cookies
      BY DEF ConnsTyped
    <3>3. \A d \in Cookies : tls'[d] # None => tls[d] # None
      BY <2>4 DEF OnConnect, ConnsTyped, Forget
    <3> HIDE DEF seen
    <3> QED
      BY <2>1, <2>2, <3>1, <3>2, <3>3, ConnCutBack
  <2>5. ASSUME NEW c \in Cookies, NEW ts \in Ts, OnClose(c, ts)
        PROVE  <1>3!1 /\ <1>3!2
    <3>1. \A d \in Cookies : /\ conns'[d] # None => conns[d] # None
                             /\ tls'[d] # None => tls[d] # None
      BY <2>5 DEF OnClose, ConnsTyped, Forget
    <3> QED
      BY <2>1, <2>2, <3>1
  <2>6. ASSUME NEW c \in Cookies, NEW sni \in Snis, NEW ts \in Ts, OnTlsHandshake(c, sni, ts)
        PROVE  <1>3!1 /\ <1>3!2
    <3> DEFINE seen == [tls EXCEPT ![c] = [TlsEntry(c, ts) EXCEPT !.sni = sni, !.ts = ts]]
    <3>1. PICK V \in ConnVictims(c, seen) : tls' = Without(seen, V)
      BY <2>6 DEF OnTlsHandshake
    <3>2. DOMAIN seen = Cookies /\ conns' = conns
      BY <2>6 DEF ConnsTyped, OnTlsHandshake
    <3> HIDE DEF seen
    <3> QED
      BY <2>2, <3>1, <3>2, ConnCutBack
  <2>7. ASSUME NEW c \in Cookies, NEW v \in Versions, NEW ts \in Ts, OnTlsServer(c, v, ts)
        PROVE  <1>3!1 /\ <1>3!2
    <3> DEFINE e    == TlsEntry(c, ts)
               seen == [tls EXCEPT ![c] = IF v = None THEN e ELSE [e EXCEPT !.version = v]]
    <3>1. PICK V \in ConnVictims(c, seen) : tls' = Without(seen, V)
      BY <2>7 DEF OnTlsServer
    <3>2. DOMAIN seen = Cookies /\ conns' = conns
      BY <2>7 DEF ConnsTyped, OnTlsServer
    <3> HIDE DEF seen
    <3> QED
      BY <2>2, <3>1, <3>2, ConnCutBack
  <2>8. ASSUME UNCHANGED <<conns, tls>>
        PROVE  <1>3!1 /\ <1>3!2
    BY <2>2, <2>8
  <2>9. ConnNext \/ UNCHANGED <<conns, tls>>
    BY OpFrame DEF Next
  <2>10. ASSUME NEW t \in Tgids, NEW f \in Fds, NEW c \in Cookies, NEW ts \in Ts,
                OnConnId(t, f, c, ts)
         PROVE  UNCHANGED <<conns, tls>>
    BY <2>10 DEF OnConnId
  <2> QED
    BY <2>4, <2>5, <2>6, <2>7, <2>8, <2>9, <2>10 DEF ConnNext
<1>4. Cardinality({ k \in Keys : fd_links'[k] # None }) <= MaxOpen
  <2>1. ASSUME \A k \in Keys : fd_links'[k] # None => fd_links[k] # None
        PROVE  <1>4!:
    BY <2>1, NoGrowth DEF Bounded
  <2>2. ASSUME NEW t \in Tgids, NEW f \in Fds, NEW c \in Cookies, NEW ts \in Ts,
               OnConnId(t, f, c, ts)
        PROVE  <1>4!:
    <3> DEFINE k      == <<t, f>>
               oldKey == OldKey(k, c)
               bound  == [Without(fd_links, oldKey) EXCEPT ![k] = [cookie |-> c, ts |-> ts]]
    <3>1. PICK V \in LinkVictims(k, bound) : fd_links' = Without(bound, V)
      BY <2>2 DEF OnConnId
    <3>2. DOMAIN bound = Keys
      BY DEF Without, LinksTyped
    <3> HIDE DEF bound
    <3>3. k \in Keys
      BY DEF Keys
    <3> QED
      BY <3>1, <3>2, <3>3, LinkCutBack
  <2>3. ASSUME NEW c \in Cookies, NEW t \in Tgids, NEW ts \in Ts, NEW latency \in Ts,
               OnConnect(c, t, ts, latency)
        PROVE  \A k \in Keys : fd_links'[k] # None => fd_links[k] # None
    BY <2>3 DEF OnConnect, Without, LinksTyped
  <2>4. ASSUME NEW c \in Cookies, NEW ts \in Ts, OnClose(c, ts)
        PROVE  \A k \in Keys : fd_links'[k] # None => fd_links[k] # None
    BY <2>4 DEF OnClose, links, LinksTyped
  <2>5. ConnNext \/ UNCHANGED links
    BY OpFrame DEF Next
  <2>6. UNCHANGED links => <1>4!:
    BY <2>1 DEF links
  <2> QED
    BY <2>1, <2>2, <2>3, <2>4, <2>5, <2>6 DEF ConnNext, OnTlsHandshake, OnTlsServer
<1> QED
  BY <1>2, <1>3, <1>4 DEF Bounded

(* No map outgrows the cap, however many closes the rings lose.            *)
THEOREM MapsBounded == Spec => []Bounded
<1>1. Init => Bounded
  <2> SUFFICES ASSUME Init PROVE Bounded
    OBVIOUS
  <2>1. /\ { c \in Cookies : conns[c] # None } = {}
        /\ { c \in Cookies : tls[c] # None } = {}
        /\ { k \in Keys : fd_links[k] # None } = {}
        /\ { k \in Keys : ops[k] # None } = {}
    BY DEF Init
  <2>2. /\ Cardinality({ c \in Cookies : conns[c] # None }) = 0
        /\ Cardinality({ c \in Cookies : tls[c] # None }) = 0
        /\ Cardinality({ k \in Keys : fd_links[k] # None }) = 0
        /\ Cardinality({ k \in Keys : ops[k] # None }) = 0
    BY ONLY <2>1, FS_EmptySet, Zenon
  <2>3. 0 <= MaxOpen
    BY CorrelatorAssumption
  <2> QED
    BY <2>2, <2>3 DEF Bounded
<1> QED
  BY <1>1, BoundedStep, InvHolds, PTL DEF Spec

-----------------------------------------------------------------------------
(* What one step does to the ledger *)

(* At most one request is born, in flight; a report is not taken back; a   *)
(* due request leaves the queue only into a report.                        *)
Moved ==
    /\ \/ op_counter' = op_counter
       \/ op_counter' = op_counter + 1 /\ InFlight(op_counter)'
    /\ \A i \in OpIds : published'[i] >= published[i]
    /\ \A i \in flushed_ops : i \in flushed_ops' \/ published'[i] >= 1

LEMMA SameLedgerMoved ==
    ASSUME LedgerTyped, UNCHANGED <<op_counter, published>>, flushed_ops \subseteq flushed_ops'
    PROVE  Moved
  BY DEF Moved, LedgerTyped

LEMMA TakeOpenMoved ==
    ASSUME LedgerTyped, NEW k \in Keys, NEW ts, NEW r, HasOpen(k), TakeOpen(k, ts, r)
    PROVE  Moved
<1>1. ops[k].open.id \in OpIds
  BY OpenTyped
<1>2. /\ UNCHANGED <<op_counter, flushed_ops>>
      /\ published' = [published EXCEPT ![ops[k].open.id] = @ + 1]
  BY DEF TakeOpen
<1> QED
  BY <1>1, <1>2 DEF Moved, LedgerTyped

LEMMA TallyMoved ==
    ASSUME LedgerTyped, NEW k \in Keys, NEW ts, NEW len, TallyBody(k, ts, len)
    PROVE  Moved
<1>1. CASE UNCHANGED ledger
  BY <1>1, SameLedgerMoved DEF ledger
<1>2. CASE HasOpen(k) /\ TakeOpen(k, ts, "complete")
  BY <1>2, TakeOpenMoved
<1> QED
  BY <1>1, <1>2 DEF TallyBody, Touch, HasResp

LEMMA OpMoved == Inv /\ OpNext => Moved
<1> SUFFICES ASSUME Inv, OpNext PROVE Moved
  OBVIOUS
<1> USE InvParts
<1>1. PICK t \in Tgids, f \in Fds, ts \in Ts, bio \in Cookies \cup {None} :
        \/ OnTlsWrite(t, f, bio, ts)
        \/ OnTlsReadInterim(t, f, bio, ts)
        \/ \E len \in 1 .. MaxBody : OnTlsReadBody(t, f, bio, ts, len)
        \/ \E len \in 1 .. MaxBody : OnTlsReadAsBody(t, f, bio, ts, len)
        \/ \E target, inHead \in 0 .. MaxBody : OnTlsReadHead(t, f, bio, ts, target, inHead)
  BY DEF OpNext, BioCookies
<1>2. <<t, f>> \in Keys
  BY DEF Keys
<1>3. CASE OnTlsWrite(t, f, bio, ts)
  <2>1. op_counter' = op_counter + 1 /\ InFlight(op_counter)'
    <3>1. op_counter' = op_counter + 1
      BY <1>3 DEF OnTlsWrite
    <3> QED
      BY <1>3, <3>1, WriteKeeps
  <2>2. flushed_ops \subseteq flushed_ops'
    BY <1>3, WriteShape
  <2>3. \A i \in OpIds : published'[i] >= published[i]
    <3>1. published' = [i \in OpIds |-> published[i] +
             IF i \in Finished(<<t, f>>) THEN 1 ELSE 0]
      BY <1>3 DEF OnTlsWrite
    <3> QED
      BY <3>1 DEF LedgerTyped
  <2> QED
    BY <2>1, <2>2, <2>3 DEF Moved
<1>4. CASE OnTlsReadInterim(t, f, bio, ts)
  BY <1>4, SameLedgerMoved DEF OnTlsReadInterim, Touch, ledger
<1>5. CASE \E len \in 1 .. MaxBody : OnTlsReadBody(t, f, bio, ts, len)
  BY <1>2, <1>5, TallyMoved DEF OnTlsReadBody
<1>6. CASE \E len \in 1 .. MaxBody : OnTlsReadAsBody(t, f, bio, ts, len)
  BY <1>2, <1>6, TallyMoved DEF OnTlsReadAsBody
<1>7. CASE \E target, inHead \in 0 .. MaxBody : OnTlsReadHead(t, f, bio, ts, target, inHead)
  <2> PICK target \in 0 .. MaxBody, inHead \in 0 .. MaxBody :
             OnTlsReadHead(t, f, bio, ts, target, inHead)
    BY <1>7
  <2>1. CASE UNCHANGED ledger
    BY <2>1, SameLedgerMoved DEF ledger
  <2>2. CASE /\ HasOpen(<<t, f>>)
             /\ TakeOpen(<<t, f>>, ts, IF target > 0 THEN "complete" ELSE "head")
    BY <1>2, <2>2, TakeOpenMoved
  <2> QED
    BY <2>1, <2>2 DEF OnTlsReadHead, Touch
<1> QED
  BY <1>1, <1>3, <1>4, <1>5, <1>6, <1>7

LEMMA NextMoved == Inv /\ [Next]_vars => Moved
<1> SUFFICES ASSUME Inv, [Next]_vars PROVE Moved
  OBVIOUS
<1> USE InvParts
<1>1. ASSUME NEW K, FlushAndDrop(K) PROVE Moved
  BY <1>1, SameLedgerMoved DEF FlushAndDrop
<1>2. CASE ConnNext
  <2>1. ASSUME NEW c \in Cookies, NEW t \in Tgids, NEW ts \in Ts, NEW latency \in Ts,
               OnConnect(c, t, ts, latency)
        PROVE  Moved
    BY <1>1, <2>1, ConnectLinks
  <2>2. ASSUME NEW c \in Cookies, NEW ts \in Ts, OnClose(c, ts)
        PROVE  Moved
    BY <1>1, <2>2, CloseLinks
  <2>3. ASSUME NEW t \in Tgids, NEW f \in Fds, NEW c \in Cookies, NEW ts \in Ts,
               OnConnId(t, f, c, ts)
        PROVE  Moved
    BY <1>1, <2>3, ConnIdLinks
  <2>4. UNCHANGED ledger => Moved
    BY SameLedgerMoved DEF ledger
  <2> QED
    BY <1>2, <2>1, <2>2, <2>3, <2>4 DEF ConnNext, OnTlsHandshake, OnTlsServer
<1>3. CASE OpNext
  BY <1>3, OpMoved
<1>4. CASE TakeFlushedOps
  BY <1>4 DEF TakeFlushedOps, Moved, LedgerTyped
<1>5. CASE FlushOpenOps
  BY <1>1, <1>5 DEF FlushOpenOps
<1>6. CASE UNCHANGED vars
  BY <1>6, SameLedgerMoved DEF vars
<1> QED
  BY <1>2, <1>3, <1>4, <1>5, <1>6 DEF Next

(* The request a write opens is in flight after it: the eviction its own   *)
(* insertion triggers never takes it.                                      *)
THEOREM FreshOpsSurvive == Spec => FreshOpSurvives
<1>1. Inv /\ [Next]_vars => [op_counter' # op_counter => InFlight(op_counter)']_vars
  BY NextMoved DEF Moved
<1> QED
  BY <1>1, InvHolds, PTL DEF Spec, FreshOpSurvives

-----------------------------------------------------------------------------
(* The engine implements the ledger *)

StageOf(i) ==
    IF published[i] > 1 THEN "twice"
    ELSE IF published[i] = 1 THEN "reported"
    ELSE IF i \in flushed_ops THEN "due"
    ELSE IF InFlight(i) THEN "open"
    ELSE IF i > op_counter THEN "unborn" ELSE "lost"

(* Under the invariant a stage says in which of the places the request is. *)
LEMMA StageMeans ==
    ASSUME Inv, NEW i \in OpIds
    PROVE  /\ StageOf(i) \in Ledger!Stages
           /\ StageOf(i) = "unborn"   <=> i > op_counter
           /\ StageOf(i) = "open"     <=> InFlight(i)
           /\ StageOf(i) = "due"      <=> i \in flushed_ops
           /\ StageOf(i) = "reported" <=> published[i] = 1
<1>1. /\ published[i] \in Nat /\ i \in Nat /\ op_counter \in Nat
      /\ published[i] <= 1
      /\ (i <= op_counter) = (InFlight(i) \/ i \in flushed_ops \/ published[i] = 1)
      /\ ~(InFlight(i) /\ i \in flushed_ops)
      /\ ~(InFlight(i) /\ published[i] = 1)
      /\ ~(i \in flushed_ops /\ published[i] = 1)
  BY InvParts DEF LedgerTyped, OpConserved, OpIds
<1> QED
  BY <1>1 DEF StageOf, Ledger!Stages

LEMMA StageStep ==
    ASSUME Inv, Inv', Moved, NEW i \in OpIds
    PROVE  StageOf(i)' = StageOf(i) \/ <<StageOf(i), StageOf(i)'>> \in Ledger!Moves
<1>1. /\ StageOf(i) \in Ledger!Stages
      /\ StageOf(i) = "unborn"   <=> i > op_counter
      /\ StageOf(i) = "open"     <=> InFlight(i)
      /\ StageOf(i) = "due"      <=> i \in flushed_ops
      /\ StageOf(i) = "reported" <=> published[i] = 1
  BY StageMeans
<1>2. /\ StageOf(i)' \in Ledger!Stages
      /\ StageOf(i)' = "unborn"   <=> i > op_counter'
      /\ StageOf(i)' = "open"     <=> InFlight(i)'
      /\ StageOf(i)' = "due"      <=> i \in flushed_ops'
      /\ StageOf(i)' = "reported" <=> published'[i] = 1
  <2>1. /\ published'[i] \in Nat /\ i \in Nat /\ op_counter' \in Nat
        /\ published'[i] <= 1
        /\ (i <= op_counter') = (InFlight(i)' \/ i \in flushed_ops' \/ published'[i] = 1)
        /\ ~(InFlight(i)' /\ i \in flushed_ops')
        /\ ~(InFlight(i)' /\ published'[i] = 1)
        /\ ~(i \in flushed_ops' /\ published'[i] = 1)
    BY DEF Inv, TypeOK, OpConserved, OpIds
  <2> QED
    BY <2>1 DEF StageOf, Ledger!Stages
<1>3. /\ published[i] \in Nat /\ published'[i] \in Nat /\ published'[i] <= 1
      /\ i \in Nat /\ op_counter \in Nat
  BY InvParts DEF Inv, TypeOK, LedgerTyped, OpConserved, OpIds
<1>4. CASE StageOf(i) = "unborn"
  <2>1. CASE op_counter' = op_counter
    BY <1>1, <1>2, <1>4, <2>1 DEF Ledger!Stages
  <2>2. CASE op_counter' = op_counter + 1 /\ InFlight(op_counter)'
    <3>1. CASE i = op_counter'
      BY <1>2, <1>4, <2>2, <3>1 DEF Ledger!Moves
    <3>2. CASE i # op_counter'
      BY <1>1, <1>2, <1>3, <1>4, <2>2, <3>2
    <3> QED
      BY <3>1, <3>2
  <2> QED
    BY <2>1, <2>2 DEF Moved
<1>5. CASE StageOf(i) = "open"
  <2>1. StageOf(i)' # "unborn"
    BY <1>1, <1>2, <1>3, <1>5 DEF Moved
  <2> QED
    BY <1>2, <1>5, <2>1 DEF Ledger!Stages, Ledger!Moves
<1>6. CASE StageOf(i) = "due"
  <2>1. i \in flushed_ops' \/ published'[i] = 1
    BY <1>1, <1>3, <1>6 DEF Moved
  <2> QED
    BY <1>2, <1>6, <2>1 DEF Ledger!Moves
<1>7. CASE StageOf(i) = "reported"
  BY <1>1, <1>2, <1>3, <1>7 DEF Moved
<1> QED
  BY <1>1, <1>4, <1>5, <1>6, <1>7 DEF Ledger!Stages

(* The engine, with all its maps, implements the ledger of requests: ids   *)
(* are born in order and each goes through in flight, perhaps due, to      *)
(* reported, in the steps the ledger allows.                               *)
THEOREM Refines == Spec => LedgerSpec
<1> DEFINE stageBar == [i \in OpIds |-> StageOf(i)]
<1>1. Init => Ledger!Init
  <2> SUFFICES ASSUME Init PROVE Ledger!Init
    OBVIOUS
  <2>1. Inv
    BY InitInv
  <2>2. \A i \in OpIds : StageOf(i) = "unborn"
    BY <2>1, StageMeans DEF Init, OpIds
  <2> QED
    BY <2>2 DEF Ledger!Init, StageOf
<1>2. Inv /\ Inv' /\ [Next]_vars => [Ledger!Advance]_stageBar
  <2> SUFFICES ASSUME Inv, Inv', [Next]_vars PROVE Ledger!Advance
    OBVIOUS
  <2>1. Moved
    BY NextMoved
  <2>2. \A i \in OpIds :
           StageOf(i)' = StageOf(i) \/ <<StageOf(i), StageOf(i)'>> \in Ledger!Moves
    BY <2>1, StageStep
  <2>3. stageBar' \in [OpIds -> Ledger!Stages]
    BY <2>2, StageMeans DEF Ledger!Moves, Ledger!Stages
  <2>4. \A i, j \in OpIds : (StageOf(i) = "unborn" /\ StageOf(i)' # "unborn" /\ j < i)
           => StageOf(j) # "unborn"
    <3> SUFFICES ASSUME NEW i \in OpIds, NEW j \in OpIds, StageOf(i) = "unborn",
                        StageOf(i)' # "unborn", j < i, StageOf(j) = "unborn"
                 PROVE  FALSE
      OBVIOUS
    <3>1. i > op_counter /\ j > op_counter
      BY StageMeans
    <3>2. i <= op_counter'
      BY <2>1 DEF Inv, TypeOK, OpConserved, OpIds, StageOf
    <3>3. op_counter' = op_counter \/ op_counter' = op_counter + 1
      BY <2>1 DEF Moved
    <3> QED
      BY <3>1, <3>2, <3>3 DEF Inv, TypeOK, OpIds
  <2> HIDE DEF Inv
  <2> QED
    BY <2>2, <2>3, <2>4 DEF Ledger!Advance, StageOf
<1> QED
  BY <1>1, <1>2, InvHolds, PTL DEF Spec, LedgerSpec, Ledger!Spec, StageOf

-----------------------------------------------------------------------------
(* The response of a request in flight *)

(* What one step may do to slot k: empty it, keep its request, record (more *)
(* of) the response of its request, or put a newer request in its place.   *)
SlotEmptied(k) == ~HasOpen(k)'
SlotKept(k)    == HasOpen(k) /\ HasOpen(k)' /\ ops'[k].open = ops[k].open
SlotAnswered(k) ==
    /\ HasOpen(k) /\ HasOpen(k)'
    /\ ops'[k].open.id = ops[k].open.id
    /\ ops'[k].open.resp # None
    /\ ops'[k].open.resp.seen < ops'[k].open.resp.target
    /\ HasResp(k) => /\ ops'[k].open.resp.target = ops[k].open.resp.target
                     /\ ops'[k].open.resp.seen >= ops[k].open.resp.seen
SlotReplaced(k) == HasOpen(k)' /\ ops'[k].open.resp = None /\ ops'[k].open.id > op_counter

SlotMoved(k) == SlotEmptied(k) \/ SlotKept(k) \/ SlotAnswered(k) \/ SlotReplaced(k)

LEMMA FlushSlots ==
    ASSUME LedgerTyped, NEW K, FlushAndDrop(K) PROVE \A k \in Keys : SlotMoved(k)
<1>1. \A k \in Keys : ops'[k] = None \/ ops'[k] = ops[k]
  BY DEF FlushAndDrop, Without, LedgerTyped
<1> QED
  BY <1>1 DEF SlotMoved, SlotEmptied, SlotKept, HasOpen

LEMMA SameSlots ==
    ASSUME ops' = ops PROVE \A k \in Keys : SlotMoved(k)
  BY DEF SlotMoved, SlotEmptied, SlotKept, HasOpen

LEMMA TouchSlots ==
    ASSUME LedgerTyped, NEW k \in Keys, NEW ts, ops[k] # None, Touch(k, ts)
    PROVE  \A j \in Keys : SlotMoved(j)
<1>1. ops[k] \in ConnOps /\ ops' = [ops EXCEPT ![k].last_ts = ts]
  BY SlotTyped DEF Touch
<1>2. \A j \in Keys : ops'[j] # None => ops[j] # None /\ ops'[j].open = ops[j].open
  BY <1>1 DEF LedgerTyped, ConnOps
<1> QED
  BY <1>2 DEF SlotMoved, SlotEmptied, SlotKept, HasOpen

LEMMA TakeOpenSlots ==
    ASSUME LedgerTyped, NEW k \in Keys, NEW ts, NEW r, HasOpen(k), TakeOpen(k, ts, r)
    PROVE  \A j \in Keys : SlotMoved(j)
<1>1. ops[k] \in ConnOps /\ ops' = [ops EXCEPT ![k].open = None, ![k].last_ts = ts]
  BY OpenTyped DEF TakeOpen
<1>2. ops'[k].open = None
  BY <1>1 DEF LedgerTyped, ConnOps
<1>3. \A j \in Keys \ {k} : ops'[j] = ops[j]
  BY <1>1 DEF LedgerTyped
<1> QED
  BY <1>2, <1>3 DEF SlotMoved, SlotEmptied, SlotKept, HasOpen

LEMMA RespondSlots ==
    ASSUME LedgerTyped, NEW k \in Keys, NEW ts \in Ts, NEW rs \in RespState,
           HasOpen(k), rs.seen < rs.target,
           HasResp(k) => /\ rs.target = ops[k].open.resp.target
                         /\ rs.seen >= ops[k].open.resp.seen,
           ops' = [ops EXCEPT ![k] = [ops[k] EXCEPT !.last_ts = ts,
                                        !.open = [ops[k].open EXCEPT !.resp = rs]]]
    PROVE  \A j \in Keys : SlotMoved(j)
<1> DEFINE op   == [ops[k].open EXCEPT !.resp = rs]
           slot == [ops[k] EXCEPT !.last_ts = ts, !.open = op]
<1>1. ops[k] \in ConnOps /\ ops[k].open \in OpenOp
  BY OpenTyped
<1>2. op \in OpenOp /\ op.id = ops[k].open.id /\ op.resp = rs
  BY <1>1 DEF OpenOp
<1>3. slot \in ConnOps /\ slot.open = op
  BY <1>1, <1>2 DEF ConnOps
<1>4. slot # None /\ op # None /\ rs # None
  BY <1>2, <1>3, CorrelatorAssumption
<1>5. ops'[k] = slot /\ \A j \in Keys \ {k} : ops'[j] = ops[j]
  BY DEF LedgerTyped
<1> HIDE DEF op, slot
<1>6. SlotAnswered(k)
  BY <1>2, <1>3, <1>4, <1>5 DEF SlotAnswered, HasOpen
<1>7. \A j \in Keys \ {k} : SlotMoved(j)
  BY <1>5 DEF SlotMoved, SlotEmptied, SlotKept, HasOpen
<1> QED
  BY <1>6, <1>7 DEF SlotMoved

LEMMA TallySlots ==
    ASSUME LedgerTyped, NEW k \in Keys, NEW ts \in Ts, NEW len \in 1 .. MaxBody,
           TallyBody(k, ts, len)
    PROVE  \A j \in Keys : SlotMoved(j)
<1>1. ops[k] # None
  BY DEF TallyBody
<1>2. CASE ~HasResp(k)
  BY <1>1, <1>2, TouchSlots DEF TallyBody
<1>3. CASE HasResp(k)
  <2> DEFINE rs == ops[k].open.resp
             more == [rs EXCEPT !.seen = @ + len]
  <2>1. HasOpen(k) /\ rs \in RespState /\ ops[k] \in ConnOps /\ ops[k].open \in OpenOp
    BY <1>3, OpenTyped DEF HasResp
  <2>2. CASE rs.seen + len >= rs.target
    <3>1. TakeOpen(k, ts, "complete")
      BY <1>3, <2>2 DEF TallyBody, BodyDone
    <3> QED
      BY <2>1, <3>1, TakeOpenSlots
  <2>3. CASE ~(rs.seen + len >= rs.target)
    <3>1. rs.seen \in 0 .. MaxBody /\ rs.target \in 1 .. MaxBody
      BY <2>1 DEF RespState
    <3>2. rs.seen + len \in 0 .. MaxBody /\ rs.seen + len >= rs.seen
      BY <2>3, <3>1, CorrelatorAssumption
    <3>3. /\ more \in RespState /\ more.target = rs.target
          /\ more.seen >= rs.seen /\ more.seen < more.target
      BY <2>1, <2>3, <3>1, <3>2 DEF RespState
    <3>4. ops' = [ops EXCEPT ![k].last_ts = ts, ![k].open.resp.seen = @ + len]
      BY <1>3, <2>3 DEF TallyBody, BodyDone
    <3>5. ops' = [ops EXCEPT ![k] = [ops[k] EXCEPT !.last_ts = ts,
                                       !.open = [ops[k].open EXCEPT !.resp = more]]]
      BY <2>1, <3>4 DEF LedgerTyped, ConnOps, OpenOp
    <3> QED
      BY <2>1, <3>3, <3>5, RespondSlots
  <2> QED
    BY <2>2, <2>3
<1> QED
  BY <1>2, <1>3

(* BodyShort is what keeps a head from replacing a response: a slot that   *)
(* has one is waiting for its body, so that a head is taken for body.      *)
LEMMA HeadSlots ==
    ASSUME LedgerTyped, BodyShort, NEW t \in Tgids, NEW f \in Fds, NEW bio, NEW ts \in Ts,
           NEW target \in 0 .. MaxBody, NEW inHead \in 0 .. MaxBody,
           OnTlsReadHead(t, f, bio, ts, target, inHead)
    PROVE  \A j \in Keys : SlotMoved(j)
<1> DEFINE k == <<t, f>>
<1>1. k \in Keys /\ ops[k] # None /\ ~AwaitingBody(k)
  BY DEF Keys, OnTlsReadHead
<1>2. ~HasResp(k)
  BY <1>1 DEF BodyShort, AwaitingBody
<1>3. CASE ~HasOpen(k)
  BY <1>1, <1>3, TouchSlots DEF OnTlsReadHead
<1>4. CASE HasOpen(k) /\ inHead < target
  <2> DEFINE rs == [target |-> target, seen |-> inHead]
  <2>1. rs \in RespState /\ rs.seen < rs.target
    BY <1>4 DEF RespState
  <2>2. ops[k] \in ConnOps /\ ops[k].open \in OpenOp
    BY <1>1, <1>4, OpenTyped
  <2>3. ops' = [ops EXCEPT ![k].last_ts = ts, ![k].open.resp = rs]
    BY <1>4 DEF OnTlsReadHead
  <2>4. ops' = [ops EXCEPT ![k] = [ops[k] EXCEPT !.last_ts = ts,
                                     !.open = [ops[k].open EXCEPT !.resp = rs]]]
    BY <1>1, <2>2, <2>3 DEF LedgerTyped, ConnOps, OpenOp
  <2> HIDE DEF rs, k
  <2> QED
    BY <1>1, <1>2, <1>4, <2>1, <2>4, RespondSlots
<1>5. CASE HasOpen(k) /\ ~(inHead < target)
  <2>1. TakeOpen(k, ts, IF target > 0 THEN "complete" ELSE "head")
    BY <1>5 DEF OnTlsReadHead
  <2> QED
    BY <1>1, <1>5, <2>1, TakeOpenSlots
<1> QED
  BY <1>3, <1>4, <1>5

LEMMA WriteSlots ==
    ASSUME Inv, NEW t \in Tgids, NEW f \in Fds, NEW bio \in Cookies \cup {None},
           NEW ts \in Ts, OnTlsWrite(t, f, bio, ts)
    PROVE  \A j \in Keys : SlotMoved(j)
<1> DEFINE k == <<t, f>>
<1>1. k \in Keys /\ op_counter < MaxOps /\ op_counter \in Nat
  BY InvParts DEF Keys, OnTlsWrite, LedgerTyped
<1>2. PICK V \in SUBSET (Keys \ {k}) :
        \A j \in Keys : ops'[j] = IF j \in V THEN None
                                  ELSE IF j = k THEN OpenSlot(j, bio, ts) ELSE ops[j]
  <2>1. LinksTyped /\ LedgerTyped /\ SeqBounded /\ OpConserved
    BY InvParts
  <2>2. PICK W \in SUBSET (Keys \ {<<t, f>>}) :
             \A j \in Keys : ops'[j] = IF j \in W THEN None
                                       ELSE IF j = <<t, f>> THEN OpenSlot(j, bio, ts)
                                       ELSE ops[j]
    BY <2>1, WriteShape
  <2> QED
    BY <2>2, Zenon
<1>3. /\ ops'[k] = OpenSlot(k, bio, ts)
      /\ ops'[k].open.id = op_counter + 1
      /\ ops'[k] # None /\ ops'[k].open # None
  <2>1. ops'[k] = OpenSlot(k, bio, ts)
    BY <1>1, <1>2
  <2>2. /\ OpenSlot(k, bio, ts) \in ConnOps /\ OpenSlot(k, bio, ts).open \in OpenOp
        /\ OpenSlot(k, bio, ts).open.id = op_counter + 1
    BY <1>1, OpenSlotTyped, InvParts
  <2>3. OpenSlot(k, bio, ts) # None /\ OpenSlot(k, bio, ts).open # None
    BY <2>2, CorrelatorAssumption
  <2> QED
    BY <2>1, <2>2, <2>3
<1>4. ops'[k].open.resp = None
  BY <1>3 DEF OpenSlot
<1>5. SlotReplaced(k)
  BY <1>1, <1>3, <1>4 DEF SlotReplaced, HasOpen
<1>6. \A j \in Keys \ {k} : SlotMoved(j)
  BY <1>2 DEF SlotMoved, SlotEmptied, SlotKept, HasOpen
<1> QED
  BY <1>5, <1>6 DEF SlotMoved

LEMMA NextSlots == Inv /\ BodyShort /\ [Next]_vars => \A k \in Keys : SlotMoved(k)
<1> SUFFICES ASSUME Inv, BodyShort, [Next]_vars PROVE \A k \in Keys : SlotMoved(k)
  OBVIOUS
<1> USE InvParts
<1>1. CASE ConnNext
  <2>1. ASSUME NEW c \in Cookies, NEW t \in Tgids, NEW ts \in Ts, NEW latency \in Ts,
               OnConnect(c, t, ts, latency)
        PROVE  \A k \in Keys : SlotMoved(k)
    BY <2>1, ConnectLinks, FlushSlots
  <2>2. ASSUME NEW c \in Cookies, NEW ts \in Ts, OnClose(c, ts)
        PROVE  \A k \in Keys : SlotMoved(k)
    BY <2>2, CloseLinks, FlushSlots
  <2>3. ASSUME NEW t \in Tgids, NEW f \in Fds, NEW c \in Cookies, NEW ts \in Ts,
               OnConnId(t, f, c, ts)
        PROVE  \A k \in Keys : SlotMoved(k)
    BY <2>3, ConnIdLinks, FlushSlots
  <2> QED
    BY <1>1, <2>1, <2>2, <2>3, SameSlots DEF ConnNext, OnTlsHandshake, OnTlsServer
<1>2. CASE OpNext
  <2>1. PICK t \in Tgids, f \in Fds, ts \in Ts, bio \in Cookies \cup {None} :
        \/ OnTlsWrite(t, f, bio, ts)
        \/ OnTlsReadInterim(t, f, bio, ts)
        \/ \E len \in 1 .. MaxBody : OnTlsReadBody(t, f, bio, ts, len)
        \/ \E len \in 1 .. MaxBody : OnTlsReadAsBody(t, f, bio, ts, len)
        \/ \E target, inHead \in 0 .. MaxBody : OnTlsReadHead(t, f, bio, ts, target, inHead)
    BY <1>2 DEF OpNext, BioCookies
  <2>2. <<t, f>> \in Keys
    BY DEF Keys
  <2>3. CASE OnTlsWrite(t, f, bio, ts)
    BY <2>3, WriteSlots
  <2>4. CASE OnTlsReadInterim(t, f, bio, ts)
    BY <2>2, <2>4, TouchSlots DEF OnTlsReadInterim
  <2>5. CASE \E len \in 1 .. MaxBody : OnTlsReadBody(t, f, bio, ts, len)
    BY <2>2, <2>5, TallySlots DEF OnTlsReadBody
  <2>6. CASE \E len \in 1 .. MaxBody : OnTlsReadAsBody(t, f, bio, ts, len)
    BY <2>2, <2>6, TallySlots DEF OnTlsReadAsBody
  <2>7. CASE \E target, inHead \in 0 .. MaxBody : OnTlsReadHead(t, f, bio, ts, target, inHead)
    BY <2>7, HeadSlots
  <2> QED
    BY <2>1, <2>3, <2>4, <2>5, <2>6, <2>7
<1>3. CASE TakeFlushedOps
  BY <1>3, SameSlots DEF TakeFlushedOps
<1>4. CASE FlushOpenOps
  BY <1>4, FlushSlots DEF FlushOpenOps
<1>5. CASE UNCHANGED vars
  BY <1>5, SameSlots DEF vars
<1> QED
  BY <1>1, <1>2, <1>3, <1>4, <1>5 DEF Next

(* A request whose response has been recorded is short of its body.        *)
THEOREM BodyIsShort == Spec => []BodyShort
<1>1. Init => BodyShort
  BY DEF Init, BodyShort, HasResp, HasOpen
<1>2. Inv /\ BodyShort /\ [Next]_vars => BodyShort'
  <2> SUFFICES ASSUME Inv, BodyShort, [Next]_vars, NEW k \in Keys, HasResp(k)'
               PROVE  ops'[k].open.resp.seen < ops'[k].open.resp.target
    BY DEF BodyShort
  <2>1. SlotMoved(k)
    BY NextSlots
  <2> QED
    BY <2>1 DEF SlotMoved, SlotEmptied, SlotKept, SlotAnswered, SlotReplaced, HasResp, BodyShort
<1> QED
  BY <1>1, <1>2, InvHolds, PTL DEF Spec

(* A declared length is authoritative until it is met: no later head       *)
(* replaces the response and no byte of it is un-counted.                  *)
THEOREM HeadsAreFinal == Spec => HeadIsFinal
<1> DEFINE Act == \A k \in Keys :
         (HasResp(k) /\ HasOpen(k)' /\ ops'[k].open.id = ops[k].open.id) =>
            /\ HasResp(k)'
            /\ ops'[k].open.resp.target = ops[k].open.resp.target
            /\ ops'[k].open.resp.seen >= ops[k].open.resp.seen
<1>1. Inv /\ BodyShort /\ [Next]_vars => [Act]_vars
  <2> SUFFICES ASSUME Inv, BodyShort, [Next]_vars, NEW k \in Keys,
                      HasResp(k), HasOpen(k)', ops'[k].open.id = ops[k].open.id
               PROVE  /\ HasResp(k)'
                      /\ ops'[k].open.resp.target = ops[k].open.resp.target
                      /\ ops'[k].open.resp.seen >= ops[k].open.resp.seen
    OBVIOUS
  <2>1. SlotMoved(k)
    BY NextSlots
  <2>2. /\ ops[k].open.id \in OpIds /\ ops[k].open.id <= op_counter
        /\ ops[k].open.resp \in RespState
    <3>1. HasOpen(k) /\ ops[k].open.resp # None
      BY DEF HasResp
    <3> QED
      BY <3>1, InvParts, OpenTyped DEF OpConserved, InFlight
  <2>3. ~SlotReplaced(k)
    BY <2>2, InvParts DEF SlotReplaced, LedgerTyped, OpIds
  <2> QED
    BY <2>1, <2>2, <2>3 DEF SlotMoved, SlotEmptied, SlotKept, SlotAnswered, HasResp, RespState
<1> QED
  BY <1>1, InvHolds, BodyIsShort, PTL DEF Spec, HeadIsFinal

(* What one TLS hello taught about a connection the other does not erase,  *)
(* in whichever order the two are folded: only the end of the entry does.  *)
THEOREM HellosMerged == Spec => HellosMerge
<1> DEFINE Kept(c) == (tls[c] # None /\ tls'[c] # None) =>
               /\ tls[c].sni # None => tls'[c].sni # None
               /\ tls[c].version # None => tls'[c].version # None
           Act == \A c \in Cookies : Kept(c)
<1>1. Inv /\ [Next]_vars => [Act]_vars
  <2> SUFFICES ASSUME Inv, [Next]_vars, NEW c \in Cookies PROVE Kept(c)
    OBVIOUS
  <2>a. tls \in [Cookies -> TlsInfo \cup {None}]
    BY InvParts DEF ConnsTyped
  <2>b. ASSUME NEW d \in Cookies, NEW ts \in Ts
        PROVE  /\ TlsEntry(d, ts) \in TlsInfo
               /\ tls[d] # None => TlsEntry(d, ts) = tls[d]
    BY <2>a DEF TlsEntry, TlsInfo
  <2>1. ASSUME NEW d \in Cookies, NEW ts \in Ts, NEW sni \in Snis, OnTlsHandshake(d, sni, ts)
        PROVE Kept(c)
    <3> DEFINE entry == TlsEntry(d, ts)
    <3>1. entry \in TlsInfo /\ (tls[d] # None => entry = tls[d])
      BY <2>b
    <3>2. PICK V : tls' = Without([tls EXCEPT ![d] = [entry EXCEPT !.sni = sni, !.ts = ts]], V)
      BY <2>1 DEF OnTlsHandshake
    <3> HIDE DEF entry
    <3>3. sni # None
      BY CorrelatorAssumption
    <3> QED
      BY <2>a, <3>1, <3>2, <3>3 DEF Without, TlsInfo
  <2>2. ASSUME NEW d \in Cookies, NEW ts \in Ts, NEW version \in Versions, OnTlsServer(d, version, ts)
        PROVE Kept(c)
    <3> DEFINE entry == TlsEntry(d, ts)
    <3>1. entry \in TlsInfo /\ (tls[d] # None => entry = tls[d])
      BY <2>b
    <3>2. PICK V : tls' = Without([tls EXCEPT ![d] =
                      IF version = None THEN entry ELSE [entry EXCEPT !.version = version]], V)
      BY <2>2 DEF OnTlsServer
    <3> HIDE DEF entry
    <3> QED
      BY <2>a, <3>1, <3>2 DEF Without, TlsInfo
  <2>3. CASE \E d \in Cookies : tls' = Forget(tls, d)
    BY <2>3, <2>a DEF Forget
  <2>4. CASE UNCHANGED tls
    BY <2>4
  <2> QED
    <3>1. ASSUME NEW d \in Cookies, NEW pid \in Tgids, NEW ts \in Ts, NEW latency \in Ts,
                 OnConnect(d, pid, ts, latency)
          PROVE  Kept(c)
      BY <3>1, <2>3 DEF OnConnect
    <3>2. ASSUME NEW d \in Cookies, NEW ts \in Ts, OnClose(d, ts)
          PROVE  Kept(c)
      BY <3>2, <2>3 DEF OnClose
    <3>3. ASSUME NEW d \in Cookies, NEW pid \in Tgids, NEW f \in Fds, NEW ts \in Ts,
                 OnConnId(pid, f, d, ts)
          PROVE  Kept(c)
      BY <3>3, <2>4 DEF OnConnId
    <3>4. CASE ConnNext
      BY <3>4, <3>1, <3>2, <3>3, <2>1, <2>2 DEF ConnNext
    <3>5. CASE OpNext \/ TakeFlushedOps \/ FlushOpenOps
      BY <3>5, <2>4, OpFrame
    <3>6. CASE UNCHANGED vars
      BY <3>6, <2>4 DEF vars
    <3> QED
      BY <3>4, <3>5, <3>6 DEF Next
<1> QED
  BY <1>1, InvHolds, PTL DEF Spec, HellosMerge
-----------------------------------------------------------------------------
(* The record of a request *)

(* Slot k has given up request i, which is recorded as what it was: where  *)
(* it was sent, as the how-manieth, and the connection it joined then.     *)
MadeFrom(k, i, r) ==
    /\ HasOpen(k) /\ ops[k].open.id = i
    /\ r # None /\ r.key = k /\ r.seq = ops[k].open.seq
    /\ r.cookie = CookieOf(k, ops[k].open)
    /\ ops[k].open.ambiguous => r.ambiguous
GivenUp(k, i) == ~(HasOpen(k)' /\ ops'[k].open.id = i)
Recorded(k, i) == MadeFrom(k, i, built'[i]) /\ GivenUp(k, i)
RecordedAsIs(k, i) == Recorded(k, i) /\ built'[i].ambiguous = ops[k].open.ambiguous

(* Slot k holds the request it held.                                       *)
StillOpen(k) ==
    /\ HasOpen(k) /\ HasOpen(k)'
    /\ ops'[k].open.id = ops[k].open.id /\ ops'[k].open.seq = ops[k].open.seq
    /\ ops'[k].open.cookie = ops[k].open.cookie
    /\ ops'[k].open.ambiguous = ops[k].open.ambiguous

(* What an event that opens no request does to the ones there are.         *)
NoneOpened ==
    /\ \A k \in Keys : HasOpen(k)' => StillOpen(k)
    /\ \A k \in Keys : HasOpen(k) => StillOpen(k) \/ RecordedAsIs(k, ops[k].open.id)
    /\ \A i \in OpIds : built'[i] = built[i] \/ \E k \in Keys : RecordedAsIs(k, i)
    /\ \A k \in Keys : ops'[k] # None => ops[k] # None
    /\ op_counter' = op_counter

LEMMA BuiltFrom ==
    ASSUME LinksTyped, LedgerTyped, NEW k \in Keys, HasOpen(k),
           NEW resp \in {"none", "head", "complete"}
    PROVE  LET r == BuildOp(k, ops[k].open, resp)
           IN  MadeFrom(k, ops[k].open.id, r) /\ r.ambiguous = ops[k].open.ambiguous
<1>1. BuildOp(k, ops[k].open, resp) \in Operation
  BY OpenTyped, BuildOpTyped
<1>2. BuildOp(k, ops[k].open, resp) # None
  BY <1>1, CorrelatorAssumption
<1> QED
  BY <1>2 DEF MadeFrom, BuildOp

LEMMA FlushRecorded ==
    ASSUME LinksTyped, LedgerTyped, OpConserved, NEW K \in SUBSET Keys, NEW k \in K, HasOpen(k)
    PROVE  LET recs == FlushRecords(K)
               i == ops[k].open.id
           IN  /\ i \in DOMAIN recs /\ MadeFrom(k, i, recs[i])
               /\ recs[i].ambiguous = ops[k].open.ambiguous
<1> DEFINE i == ops[k].open.id
           j == CHOOSE l \in Opened(K) : ops[l].open.id = i
           resp == RespOnFlush(ops[k].open)
<1>1. k \in Opened(K) /\ i \in OpIds
  BY OpenTyped DEF Opened
<1>2. j \in Opened(K) /\ ops[j].open.id = i
  BY <1>1
<1>3. j = k
  BY <1>1, <1>2 DEF OpConserved, Opened
<1>4. i \in DOMAIN FlushRecords(K) /\ FlushRecords(K)[i] = BuildOp(k, ops[k].open, resp)
  BY <1>1, <1>3 DEF FlushRecords
<1>5. resp \in {"none", "head", "complete"}
  BY DEF RespOnFlush
<1> QED
  BY <1>4, <1>5, BuiltFrom

LEMMA FlushOpensNone ==
    ASSUME LinksTyped, LedgerTyped, OpConserved, NEW K \in SUBSET Keys, FlushAndDrop(K)
    PROVE  NoneOpened
<1> DEFINE recs == FlushRecords(K)
<1>1. /\ ops' = [k \in Keys |-> IF k \in K THEN None ELSE ops[k]]
      /\ built' = [i \in OpIds |-> IF i \in DOMAIN recs THEN recs[i] ELSE built[i]]
      /\ op_counter' = op_counter
  BY DEF FlushAndDrop, Without, Record, LedgerTyped
<1>2. \A k \in K : HasOpen(k) => RecordedAsIs(k, ops[k].open.id)
  <2> SUFFICES ASSUME NEW k \in K, HasOpen(k) PROVE RecordedAsIs(k, ops[k].open.id)
    OBVIOUS
  <2>1. /\ ops[k].open.id \in DOMAIN recs /\ MadeFrom(k, ops[k].open.id, recs[ops[k].open.id])
        /\ recs[ops[k].open.id].ambiguous = ops[k].open.ambiguous
    BY FlushRecorded
  <2>2. ops[k].open.id \in OpIds
    BY OpenTyped
  <2> HIDE DEF recs
  <2>3. built'[ops[k].open.id] = recs[ops[k].open.id]
    BY <1>1, <2>1, <2>2
  <2>4. GivenUp(k, ops[k].open.id)
    BY <1>1 DEF GivenUp, HasOpen
  <2> QED
    BY <2>1, <2>3, <2>4 DEF Recorded, RecordedAsIs
<1>3. \A k \in Keys \ K : HasOpen(k) => StillOpen(k)
  BY <1>1 DEF StillOpen, HasOpen
<1>4. \A k \in Keys : HasOpen(k)' => k \notin K /\ HasOpen(k)
  BY <1>1 DEF HasOpen
<1>5. \A i \in DOMAIN recs : \E k \in K : HasOpen(k) /\ ops[k].open.id = i
  BY DEF FlushRecords, Opened
<1> HIDE DEF recs
<1>6. \A i \in OpIds : built'[i] = built[i] \/ \E k \in Keys : RecordedAsIs(k, i)
  BY <1>1, <1>2, <1>5
<1>7. \A k \in Keys : ops'[k] # None => ops[k] # None
  BY <1>1
<1> QED
  BY <1>1, <1>2, <1>3, <1>4, <1>6, <1>7 DEF NoneOpened

LEMMA SameOpensNone ==
    ASSUME LedgerTyped, UNCHANGED <<op_counter, built>>,
           \A k \in Keys : /\ HasOpen(k)' <=> HasOpen(k)
                           /\ HasOpen(k) => StillOpen(k)
                           /\ ops'[k] # None => ops[k] # None
    PROVE  NoneOpened
  BY DEF NoneOpened

LEMMA TouchOpensNone ==
    ASSUME LedgerTyped, NEW k \in Keys, NEW ts \in Ts, ops[k] # None, Touch(k, ts)
    PROVE  NoneOpened
<1>1. ops[k] \in ConnOps /\ ops' = [ops EXCEPT ![k].last_ts = ts] /\ UNCHANGED ledger
  BY SlotTyped DEF Touch
<1>2. \A j \in Keys : ops'[j] # None => ops[j] # None /\ ops'[j].open = ops[j].open
  BY <1>1 DEF LedgerTyped, ConnOps
<1>3. ops'[k] # None
  <2> DEFINE slot == [ops[k] EXCEPT !.last_ts = ts]
  <2>1. ops'[k] = slot
    BY <1>1 DEF LedgerTyped
  <2>2. slot \in ConnOps
    BY <1>1 DEF ConnOps
  <2> QED
    BY <2>1, <2>2, CorrelatorAssumption
<1> QED
  BY <1>1, <1>2, <1>3, SameOpensNone DEF StillOpen, HasOpen, ledger

LEMMA TakeOpensNone ==
    ASSUME LinksTyped, LedgerTyped, OpConserved, NEW k \in Keys, NEW ts,
           NEW resp \in {"none", "head", "complete"}, HasOpen(k), TakeOpen(k, ts, resp)
    PROVE  NoneOpened
<1> DEFINE n == ops[k].open.id
           r == BuildOp(k, ops[k].open, resp)
<1>1. ops[k] \in ConnOps /\ n \in OpIds /\ ops[k] # None
  BY OpenTyped DEF HasOpen
<1>2. /\ ops' = [ops EXCEPT ![k].open = None, ![k].last_ts = ts]
      /\ built' = [built EXCEPT ![n] = r] /\ op_counter' = op_counter
  BY DEF TakeOpen
<1>3. ops'[k].open = None
  BY <1>1, <1>2 DEF LedgerTyped, ConnOps
<1>4. \A j \in Keys \ {k} : ops'[j] = ops[j]
  BY <1>2 DEF LedgerTyped
<1>5. RecordedAsIs(k, n)
  <2>1. MadeFrom(k, n, r) /\ r.ambiguous = ops[k].open.ambiguous
    BY BuiltFrom
  <2>2. built'[n] = r
    BY <1>1, <1>2 DEF LedgerTyped
  <2>3. GivenUp(k, n)
    BY <1>3 DEF GivenUp, HasOpen
  <2> HIDE DEF r
  <2> QED
    BY <2>1, <2>2, <2>3 DEF Recorded, RecordedAsIs
<1>6. \A i \in OpIds : built'[i] = built[i] \/ i = n
  BY <1>2 DEF LedgerTyped
<1>7. \A j \in Keys \ {k} : HasOpen(j)' <=> HasOpen(j)
  BY <1>4 DEF HasOpen
<1>8. \A j \in Keys \ {k} : HasOpen(j) => StillOpen(j)
  BY <1>4, <1>7 DEF StillOpen
<1>9. ~HasOpen(k)'
  BY <1>3 DEF HasOpen
<1>10. ASSUME NEW j \in Keys PROVE HasOpen(j) => StillOpen(j) \/ RecordedAsIs(j, ops[j].open.id)
  BY <1>5, <1>8
<1>11. ASSUME NEW j \in Keys PROVE ops'[j] # None => ops[j] # None
  BY <1>1, <1>4
<1>12. ASSUME NEW j \in Keys PROVE HasOpen(j)' => StillOpen(j)
  BY <1>7, <1>8, <1>9
<1>13. ASSUME NEW i \in OpIds PROVE built'[i] = built[i] \/ \E j \in Keys : RecordedAsIs(j, i)
  BY <1>5, <1>6
<1>14. op_counter' = op_counter
  BY <1>2
<1> QED
  BY <1>10, <1>11, <1>12, <1>13, <1>14 DEF NoneOpened

LEMMA RespondOpensNone ==
    ASSUME LedgerTyped, NEW k \in Keys, NEW ts \in Ts, NEW rs \in RespState, HasOpen(k),
           UNCHANGED ledger,
           ops' = [ops EXCEPT ![k] = [ops[k] EXCEPT !.last_ts = ts,
                                        !.open = [ops[k].open EXCEPT !.resp = rs]]]
    PROVE  NoneOpened
<1> DEFINE op   == [ops[k].open EXCEPT !.resp = rs]
           slot == [ops[k] EXCEPT !.last_ts = ts, !.open = op]
<1>1. ops[k] \in ConnOps /\ ops[k].open \in OpenOp
  BY OpenTyped
<1>2. /\ op \in OpenOp /\ op.id = ops[k].open.id /\ op.seq = ops[k].open.seq
      /\ op.cookie = ops[k].open.cookie /\ op.ambiguous = ops[k].open.ambiguous
  BY <1>1 DEF OpenOp
<1>3. slot \in ConnOps /\ slot.open = op
  BY <1>1, <1>2 DEF ConnOps
<1>4. slot # None /\ op # None
  BY <1>2, <1>3, CorrelatorAssumption
<1>5. ops'[k] = slot /\ \A j \in Keys \ {k} : ops'[j] = ops[j]
  BY DEF LedgerTyped
<1> HIDE DEF op, slot
<1>6. StillOpen(k)
  BY <1>2, <1>3, <1>4, <1>5 DEF StillOpen, HasOpen
<1>7. \A j \in Keys \ {k} : /\ HasOpen(j)' <=> HasOpen(j)
                            /\ HasOpen(j) => StillOpen(j)
                            /\ ops'[j] # None => ops[j] # None
  BY <1>5 DEF StillOpen, HasOpen
<1> QED
  BY <1>6, <1>7, SameOpensNone DEF StillOpen, HasOpen, ledger

LEMMA TallyOpensNone ==
    ASSUME LinksTyped, LedgerTyped, OpConserved, NEW k \in Keys, NEW ts \in Ts,
           NEW len \in 1 .. MaxBody, TallyBody(k, ts, len)
    PROVE  NoneOpened
<1>1. ops[k] # None
  BY DEF TallyBody
<1>2. CASE ~HasResp(k)
  BY <1>1, <1>2, TouchOpensNone DEF TallyBody
<1>3. CASE HasResp(k)
  <2> DEFINE rs == ops[k].open.resp
             more == [rs EXCEPT !.seen = @ + len]
  <2>1. HasOpen(k) /\ rs \in RespState /\ ops[k] \in ConnOps /\ ops[k].open \in OpenOp
    BY <1>3, OpenTyped DEF HasResp
  <2>2. CASE rs.seen + len >= rs.target
    <3>1. TakeOpen(k, ts, "complete")
      BY <1>3, <2>2 DEF TallyBody, BodyDone
    <3> QED
      BY <2>1, <3>1, TakeOpensNone
  <2>3. CASE ~(rs.seen + len >= rs.target)
    <3>1. rs.seen \in 0 .. MaxBody /\ rs.target \in 1 .. MaxBody
      BY <2>1 DEF RespState
    <3>2. rs.seen + len \in 0 .. MaxBody
      BY <2>3, <3>1, CorrelatorAssumption
    <3>3. more \in RespState
      BY <2>1, <3>1, <3>2 DEF RespState
    <3>4. ops' = [ops EXCEPT ![k].last_ts = ts, ![k].open.resp.seen = @ + len] /\ UNCHANGED ledger
      BY <1>3, <2>3 DEF TallyBody, BodyDone
    <3>5. ops' = [ops EXCEPT ![k] = [ops[k] EXCEPT !.last_ts = ts,
                                       !.open = [ops[k].open EXCEPT !.resp = more]]]
      BY <2>1, <3>4 DEF LedgerTyped, ConnOps, OpenOp
    <3> HIDE DEF more
    <3> QED
      BY <2>1, <3>3, <3>4, <3>5, RespondOpensNone
  <2> QED
    BY <2>2, <2>3
<1> QED
  BY <1>2, <1>3

LEMMA HeadOpensNone ==
    ASSUME LinksTyped, LedgerTyped, OpConserved, NEW t \in Tgids, NEW f \in Fds, NEW bio,
           NEW ts \in Ts, NEW target \in 0 .. MaxBody, NEW inHead \in 0 .. MaxBody,
           OnTlsReadHead(t, f, bio, ts, target, inHead)
    PROVE  NoneOpened
<1> DEFINE k == <<t, f>>
<1>1. k \in Keys /\ ops[k] # None
  BY DEF Keys, OnTlsReadHead
<1>2. CASE ~HasOpen(k)
  BY <1>1, <1>2, TouchOpensNone DEF OnTlsReadHead
<1>3. CASE HasOpen(k) /\ inHead < target
  <2> DEFINE rs == [target |-> target, seen |-> inHead]
  <2>1. rs \in RespState
    BY <1>3 DEF RespState
  <2>2. ops[k] \in ConnOps /\ ops[k].open \in OpenOp
    BY <1>1, <1>3, OpenTyped
  <2>3. ops' = [ops EXCEPT ![k].last_ts = ts, ![k].open.resp = rs] /\ UNCHANGED ledger
    BY <1>3 DEF OnTlsReadHead
  <2>4. ops' = [ops EXCEPT ![k] = [ops[k] EXCEPT !.last_ts = ts,
                                     !.open = [ops[k].open EXCEPT !.resp = rs]]]
    BY <1>1, <2>2, <2>3 DEF LedgerTyped, ConnOps, OpenOp
  <2> HIDE DEF rs, k
  <2> QED
    BY <1>1, <1>3, <2>1, <2>3, <2>4, RespondOpensNone
<1>4. CASE HasOpen(k) /\ ~(inHead < target)
  <2>1. TakeOpen(k, ts, IF target > 0 THEN "complete" ELSE "head")
    BY <1>4 DEF OnTlsReadHead
  <2>2. (IF target > 0 THEN "complete" ELSE "head") \in {"none", "head", "complete"}
    OBVIOUS
  <2> QED
    BY <1>1, <1>4, <2>1, <2>2, TakeOpensNone
<1> QED
  BY <1>2, <1>3, <1>4

(* What the event that opens request n in slot k does: the request it      *)
(* interrupts is recorded, and both are marked when it was unanswered.     *)
WriteOpened(k, bio) ==
    /\ op_counter' = op_counter + 1 /\ op_counter' \in OpIds
    /\ HasOpen(k)' /\ ops'[k].open.id = op_counter'
    /\ ops'[k].open = OpenSlot(k, bio, 0).open
    /\ HasOpen(k) => /\ Recorded(k, ops[k].open.id)
                     /\ built'[ops[k].open.id].ambiguous
                          = (ops[k].open.ambiguous \/ Overtaken(k, bio))
    /\ \A j \in Keys \ {k} : HasOpen(j)' => StillOpen(j)
    /\ \A j \in Keys \ {k} : HasOpen(j) => StillOpen(j) \/ RecordedAsIs(j, ops[j].open.id)
    /\ \A i \in OpIds : \/ built'[i] = built[i]
                        \/ HasOpen(k) /\ ops[k].open.id = i
                        \/ \E j \in Keys \ {k} : RecordedAsIs(j, i)
    /\ \A j \in Keys \ {k} : ops'[j] # None => ops[j] # None

LEMMA InterruptedRecord ==
    ASSUME LinksTyped, LedgerTyped, NEW k \in Keys, HasOpen(k), NEW bio
    PROVE  LET r == Interrupted(k, bio)
           IN  /\ MadeFrom(k, ops[k].open.id, r)
               /\ r.ambiguous = (ops[k].open.ambiguous \/ Overtaken(k, bio))
<1> DEFINE op  == ops[k].open
           opm == [op EXCEPT !.ambiguous = @ \/ Overtaken(k, bio)]
           r   == BuildOp(k, opm, RespOnFlush(op))
<1>1. op \in OpenOp
  BY OpenTyped
<1>2. Overtaken(k, bio) \in BOOLEAN
  BY DEF Overtaken
<1>3. /\ opm \in OpenOp /\ opm.seq = op.seq /\ opm.cookie = op.cookie
      /\ opm.ambiguous = (op.ambiguous \/ Overtaken(k, bio))
  BY <1>1, <1>2 DEF OpenOp
<1>4. CookieOf(k, opm) = CookieOf(k, op)
  BY <1>3 DEF CookieOf
<1>5. RespOnFlush(op) \in {"none", "head", "complete"}
  BY DEF RespOnFlush
<1>6. r \in Operation
  BY <1>3, <1>5, BuildOpTyped
<1>7. r # None
  BY <1>6, CorrelatorAssumption
<1>8. r.key = k /\ r.seq = op.seq /\ r.cookie = CookieOf(k, op) /\ r.ambiguous = opm.ambiguous
  BY <1>3, <1>4 DEF BuildOp
<1>9. Interrupted(k, bio) = r
  BY DEF Interrupted
<1> HIDE DEF r, opm
<1> QED
  BY <1>3, <1>7, <1>8, <1>9 DEF MadeFrom

LEMMA WriteOpens ==
    ASSUME LinksTyped, LedgerTyped, SeqBounded, OpConserved,
           NEW t \in Tgids, NEW f \in Fds, NEW bio \in Cookies \cup {None},
           NEW ts \in Ts, OnTlsWrite(t, f, bio, ts)
    PROVE  WriteOpened(<<t, f>>, bio)
<1> DEFINE k   == <<t, f>>
           n   == op_counter + 1
           map == [ops EXCEPT ![k] = OpenSlot(k, bio, ts)]
<1>1. k \in Keys /\ op_counter \in Nat /\ op_counter < MaxOps /\ op_counter' = n
  BY DEF Keys, OnTlsWrite, LedgerTyped
<1>2. n \in OpIds
  BY <1>1, CorrelatorAssumption DEF OpIds
<1>3. PICK V \in OpsVictims(k, map) :
        /\ ops' = Without(map, V)
        /\ built' = [i \in OpIds |->
                       IF i \in Finished(k) THEN Interrupted(k, bio)
                       ELSE IF i \in DOMAIN FlushRecords(V) THEN FlushRecords(V)[i]
                       ELSE built[i]]
  BY DEF OnTlsWrite
<1>4. V \in SUBSET (Keys \ {k})
  BY <1>3, VictimsSpareKeep DEF OpsVictims
<1>5. /\ ops'[k] = OpenSlot(k, bio, ts)
      /\ \A j \in Keys \ {k} : ops'[j] = IF j \in V THEN None ELSE ops[j]
  BY <1>1, <1>3, <1>4 DEF Without, LedgerTyped
<1>6. /\ OpenSlot(k, bio, ts) # None /\ OpenSlot(k, bio, ts).open # None
      /\ OpenSlot(k, bio, ts).open.id = n
      /\ OpenSlot(k, bio, ts).open = OpenSlot(k, bio, 0).open
  <2>1. OpenSlot(k, bio, ts) \in ConnOps /\ OpenSlot(k, bio, ts).open \in OpenOp
    BY <1>1, OpenSlotTyped
  <2> QED
    BY <2>1, CorrelatorAssumption DEF OpenSlot
<1>7. HasOpen(k)' /\ ops'[k].open.id = n /\ ops'[k].open = OpenSlot(k, bio, 0).open
  BY <1>5, <1>6 DEF HasOpen
<1>8. ASSUME HasOpen(k)
      PROVE  /\ Recorded(k, ops[k].open.id)
             /\ built'[ops[k].open.id].ambiguous = (ops[k].open.ambiguous \/ Overtaken(k, bio))
  <2> DEFINE p == ops[k].open.id
             r == Interrupted(k, bio)
  <2>1. p \in OpIds /\ p <= op_counter /\ p \in Finished(k)
    BY <1>1, <1>8, OpenTyped DEF OpConserved, InFlight, Finished
  <2>2. built'[p] = r
    BY <1>3, <2>1
  <2>3. MadeFrom(k, p, r) /\ r.ambiguous = (ops[k].open.ambiguous \/ Overtaken(k, bio))
    BY <1>1, <1>8, InterruptedRecord
  <2>4. GivenUp(k, p)
    BY <1>1, <1>7, <2>1 DEF GivenUp, OpIds
  <2> HIDE DEF p, r
  <2>5. MadeFrom(k, p, built'[p])
    BY <2>2, <2>3
  <2>6. Recorded(k, p) /\ built'[p].ambiguous = (ops[k].open.ambiguous \/ Overtaken(k, bio))
    BY <2>2, <2>3, <2>4, <2>5 DEF Recorded
  <2> QED
    BY <2>6 DEF p
<1>9. \A j \in Keys \ {k} : HasOpen(j)' => HasOpen(j) /\ ops'[j] = ops[j]
  BY <1>5 DEF HasOpen
<1>10. \A j \in Keys \ {k} : HasOpen(j)' => StillOpen(j)
  BY <1>9 DEF StillOpen
<1>11. \A j \in (Keys \ {k}) \ V : HasOpen(j) => StillOpen(j)
  BY <1>5 DEF StillOpen, HasOpen
<1>12. ASSUME NEW j \in V, HasOpen(j) PROVE RecordedAsIs(j, ops[j].open.id)
  <2> DEFINE i == ops[j].open.id
             recs == FlushRecords(V)
  <2>1. /\ i \in DOMAIN recs /\ MadeFrom(j, i, recs[i])
        /\ recs[i].ambiguous = ops[j].open.ambiguous
    BY <1>4, <1>12, FlushRecorded
  <2>2. i \in OpIds /\ j \in Keys /\ j # k
    BY <1>4, <1>12, OpenTyped
  <2>3. i \notin Finished(k)
    BY <1>1, <1>12, <2>2 DEF OpConserved, Finished
  <2>4. built'[i] = recs[i]
    BY <1>3, <2>1, <2>2, <2>3
  <2>5. ~HasOpen(j)'
    BY <1>5, <2>2 DEF HasOpen
  <2> HIDE DEF i, recs
  <2>6. RecordedAsIs(j, i)
    BY <2>1, <2>4, <2>5 DEF Recorded, RecordedAsIs, GivenUp
  <2> QED
    BY <2>6 DEF i
<1>13. \A i \in DOMAIN FlushRecords(V) : \E j \in V : HasOpen(j) /\ ops[j].open.id = i
  BY DEF FlushRecords, Opened
<1>14. ASSUME NEW i \in OpIds
       PROVE  \/ built'[i] = built[i]
              \/ HasOpen(k) /\ ops[k].open.id = i
              \/ \E j \in Keys \ {k} : RecordedAsIs(j, i)
  <2>1. CASE i \in Finished(k)
    BY <2>1 DEF Finished
  <2>2. CASE i \notin Finished(k) /\ i \in DOMAIN FlushRecords(V)
    BY <1>4, <1>12, <1>13, <2>2
  <2>3. CASE i \notin Finished(k) /\ i \notin DOMAIN FlushRecords(V)
    BY <1>3, <2>3
  <2> QED
    BY <2>1, <2>2, <2>3
<1>15. \A j \in Keys \ {k} : ops'[j] # None => ops[j] # None
  BY <1>5
<1>16. \A j \in Keys \ {k} : HasOpen(j) => StillOpen(j) \/ RecordedAsIs(j, ops[j].open.id)
  BY <1>11, <1>12
<1> HIDE DEF k
<1>17. WriteOpened(k, bio)
  BY <1>1, <1>2, <1>7, <1>8, <1>10, <1>14, <1>15, <1>16 DEF WriteOpened
<1> QED
  BY <1>17 DEF k

(* Every event opens no request or one.                                    *)
LEMMA NextRecords ==
    Inv /\ [Next]_vars =>
        NoneOpened \/ \E k \in Keys, bio \in Cookies \cup {None} : WriteOpened(k, bio)
<1> SUFFICES ASSUME Inv, [Next]_vars
             PROVE  NoneOpened \/ \E k \in Keys, bio \in Cookies \cup {None} : WriteOpened(k, bio)
  OBVIOUS
<1> USE InvParts
<1>a. ASSUME UNCHANGED <<ops, op_counter, built>> PROVE NoneOpened
  BY <1>a, SameOpensNone DEF StillOpen, HasOpen
<1>1. CASE ConnNext
  <2>1. ASSUME NEW c \in Cookies, NEW t \in Tgids, NEW ts \in Ts, NEW latency \in Ts,
               OnConnect(c, t, ts, latency)
        PROVE  NoneOpened
    BY <2>1, ConnectLinks, FlushOpensNone
  <2>2. ASSUME NEW c \in Cookies, NEW ts \in Ts, OnClose(c, ts)
        PROVE  NoneOpened
    BY <2>2, CloseLinks, FlushOpensNone
  <2>3. ASSUME NEW t \in Tgids, NEW f \in Fds, NEW c \in Cookies, NEW ts \in Ts,
               OnConnId(t, f, c, ts)
        PROVE  NoneOpened
    BY <2>3, ConnIdLinks, FlushOpensNone
  <2> QED
    BY <1>1, <1>a, <2>1, <2>2, <2>3 DEF ConnNext, OnTlsHandshake, OnTlsServer, ledger
<1>2. CASE OpNext
  <2>1. PICK t \in Tgids, f \in Fds, ts \in Ts, bio \in Cookies \cup {None} :
        \/ OnTlsWrite(t, f, bio, ts)
        \/ OnTlsReadInterim(t, f, bio, ts)
        \/ \E len \in 1 .. MaxBody : OnTlsReadBody(t, f, bio, ts, len)
        \/ \E len \in 1 .. MaxBody : OnTlsReadAsBody(t, f, bio, ts, len)
        \/ \E target, inHead \in 0 .. MaxBody : OnTlsReadHead(t, f, bio, ts, target, inHead)
    BY <1>2 DEF OpNext, BioCookies
  <2>2. <<t, f>> \in Keys
    BY DEF Keys
  <2>3. CASE OnTlsWrite(t, f, bio, ts)
    BY <2>2, <2>3, WriteOpens
  <2>4. CASE OnTlsReadInterim(t, f, bio, ts)
    BY <2>2, <2>4, TouchOpensNone DEF OnTlsReadInterim
  <2>5. CASE \E len \in 1 .. MaxBody : OnTlsReadBody(t, f, bio, ts, len)
    BY <2>2, <2>5, TallyOpensNone DEF OnTlsReadBody
  <2>6. CASE \E len \in 1 .. MaxBody : OnTlsReadAsBody(t, f, bio, ts, len)
    BY <2>2, <2>6, TallyOpensNone DEF OnTlsReadAsBody
  <2>7. CASE \E target, inHead \in 0 .. MaxBody : OnTlsReadHead(t, f, bio, ts, target, inHead)
    BY <2>7, HeadOpensNone
  <2> QED
    BY <2>1, <2>3, <2>4, <2>5, <2>6, <2>7
<1>3. CASE TakeFlushedOps
  BY <1>3, <1>a DEF TakeFlushedOps
<1>4. CASE FlushOpenOps
  BY <1>4, FlushOpensNone DEF FlushOpenOps
<1>5. CASE UNCHANGED vars
  BY <1>5, <1>a DEF vars
<1> QED
  BY <1>1, <1>2, <1>3, <1>4, <1>5 DEF Next

(* A request that has its record is in flight no more: a record is final.  *)
RecordIsFinal == \A i \in OpIds : built[i] # None => i <= op_counter /\ ~InFlight(i)

LEMMA RecordStays ==
    Inv /\ RecordIsFinal /\ [Next]_vars =>
        /\ RecordIsFinal'
        /\ \A i \in OpIds : built[i] # None => built'[i] = built[i]
<1> SUFFICES ASSUME Inv, RecordIsFinal, [Next]_vars
             PROVE  /\ RecordIsFinal'
                    /\ \A i \in OpIds : built[i] # None => built'[i] = built[i]
  OBVIOUS
<1>1. LedgerTyped /\ OpConserved /\ op_counter \in Nat /\ OpIds \subseteq Nat
  BY InvParts DEF LedgerTyped, OpIds
<1>2. CASE NoneOpened
  <2>1. ASSUME NEW i \in OpIds, built[i] # None PROVE built'[i] = built[i]
    BY <1>2, <2>1 DEF NoneOpened, RecordedAsIs, Recorded, MadeFrom, RecordIsFinal, InFlight
  <2>2. ASSUME NEW i \in OpIds, built'[i] # None, NEW k \in Keys, HasOpen(k)', ops'[k].open.id = i
        PROVE  FALSE
    <3>1. HasOpen(k) /\ ops[k].open.id = i
      BY <1>2, <2>2 DEF NoneOpened, StillOpen
    <3>2. built[i] = None
      BY <3>1 DEF RecordIsFinal, InFlight
    <3>3. PICK j \in Keys : RecordedAsIs(j, i)
      BY <1>2, <2>2, <3>2 DEF NoneOpened
    <3>4. HasOpen(j) /\ ops[j].open.id = i /\ GivenUp(j, i)
      BY <3>3 DEF RecordedAsIs, Recorded, MadeFrom
    <3>5. j = k
      BY <1>1, <3>1, <3>4 DEF OpConserved
    <3> QED
      BY <2>2, <3>4, <3>5 DEF GivenUp
  <2>3. ASSUME NEW i \in OpIds, built'[i] # None PROVE i <= op_counter'
    <3>1. op_counter' = op_counter /\ (built'[i] = built[i] \/ \E k \in Keys : RecordedAsIs(k, i))
      BY <1>2 DEF NoneOpened
    <3>2. built[i] # None \/ \E k \in Keys : HasOpen(k) /\ ops[k].open.id = i
      BY <2>3, <3>1 DEF RecordedAsIs, Recorded, MadeFrom
    <3>3. built[i] # None \/ InFlight(i)
      BY <3>2 DEF InFlight
    <3> QED
      BY <1>1, <3>1, <3>3 DEF RecordIsFinal, OpConserved
  <2> QED
    BY <2>1, <2>2, <2>3 DEF RecordIsFinal, InFlight
<1>3. ASSUME NEW k \in Keys, NEW bio, WriteOpened(k, bio)
      PROVE  /\ RecordIsFinal'
             /\ \A i \in OpIds : built[i] # None => built'[i] = built[i]
  <2>0. ASSUME NEW i \in OpIds
        PROVE  built'[i] = built[i] \/ \E j \in Keys : Recorded(j, i) 
    BY <1>3 DEF WriteOpened, RecordedAsIs
  <2>1. ASSUME NEW i \in OpIds, built[i] # None PROVE built'[i] = built[i]
    BY <2>0, <2>1 DEF Recorded, MadeFrom, RecordIsFinal, InFlight
  <2>2. ASSUME NEW i \in OpIds, built'[i] # None PROVE i <= op_counter
    <3>1. built[i] # None \/ \E j \in Keys : HasOpen(j) /\ ops[j].open.id = i
      BY <2>0, <2>2 DEF Recorded, MadeFrom
    <3> QED
      BY <1>1, <3>1 DEF RecordIsFinal, OpConserved, InFlight
  <2>3. op_counter' = op_counter + 1
    BY <1>3 DEF WriteOpened
  <2>4. ASSUME NEW i \in OpIds, built'[i] # None, NEW l \in Keys, HasOpen(l)', ops'[l].open.id = i
        PROVE  FALSE
    <3>1. i <= op_counter
      BY <2>2, <2>4
    <3>2. l # k
      BY <1>1, <1>3, <2>3, <2>4, <3>1 DEF WriteOpened
    <3>3. HasOpen(l) /\ ops[l].open.id = i
      BY <1>3, <2>4, <3>2 DEF WriteOpened, StillOpen
    <3>4. built[i] = None
      BY <3>3 DEF RecordIsFinal, InFlight
    <3>5. PICK j \in Keys : Recorded(j, i)
      BY <2>0, <2>4, <3>4
    <3>6. HasOpen(j) /\ ops[j].open.id = i /\ GivenUp(j, i)
      BY <3>5 DEF Recorded, MadeFrom
    <3>7. j = l
      BY <1>1, <3>3, <3>6 DEF OpConserved
    <3> QED
      BY <2>4, <3>6, <3>7 DEF GivenUp
  <2>5. \A i \in OpIds : built'[i] # None => i <= op_counter'
    BY <1>1, <2>2, <2>3
  <2> QED
    BY <2>1, <2>4, <2>5 DEF RecordIsFinal, InFlight
<1> QED
  BY <1>2, <1>3, NextRecords

(* An op once ambiguous stays so, in flight and in its record.             *)
LEMMA AmbiguousStays ==
    ASSUME Inv, RecordIsFinal, [Next]_vars, NEW i \in OpIds, NEW k \in Keys, AmbiguousOn(i, k)
    PROVE  AmbiguousOn(i, k)'
<1>1. CASE built[i] # None /\ built[i].ambiguous /\ built[i].key = k
  BY <1>1, RecordStays DEF AmbiguousOn
<1>2. CASE HasOpen(k) /\ ops[k].open.id = i /\ ops[k].open.ambiguous
  <2>1. StillOpen(k) \/ (Recorded(k, i) /\ built'[i].ambiguous)
    <3>1. CASE NoneOpened
      BY <1>2, <3>1 DEF NoneOpened, RecordedAsIs
    <3>2. ASSUME NEW l \in Keys, NEW bio, WriteOpened(l, bio), l = k
          PROVE  Recorded(k, i) /\ built'[i].ambiguous
      BY <1>2, <3>2 DEF WriteOpened, Recorded, MadeFrom
    <3>3. ASSUME NEW l \in Keys, NEW bio, WriteOpened(l, bio), l # k
          PROVE  StillOpen(k) \/ (Recorded(k, i) /\ built'[i].ambiguous)
      BY <1>2, <3>3 DEF WriteOpened, RecordedAsIs
    <3> QED
      BY <3>1, <3>2, <3>3, NextRecords
  <2> QED
    BY <1>2, <2>1 DEF AmbiguousOn, StillOpen, Recorded, MadeFrom
<1> QED
  BY <1>1, <1>2 DEF AmbiguousOn

(* Two requests overlapped on one connection only if both say so: a        *)
(* request becomes ambiguous when a write finds another one unanswered in  *)
(* its slot, in the step that marks that one, and no later event takes the *)
(* mark from either.                                                       *)
THEOREM AmbiguityMutual == Spec => []AmbiguityIsMutual
<1>1. Init => RecordIsFinal /\ AmbiguityIsMutual
  BY DEF Init, RecordIsFinal, AmbiguityIsMutual, AmbiguousOn, HasOpen
<1>2. Inv /\ RecordIsFinal /\ AmbiguityIsMutual /\ [Next]_vars => AmbiguityIsMutual'
  <2> SUFFICES ASSUME Inv, RecordIsFinal, AmbiguityIsMutual, [Next]_vars,
                      NEW i \in OpIds, NEW k \in Keys, AmbiguousOn(i, k)'
               PROVE  \E j \in OpIds \ {i} : AmbiguousOn(j, k)'
    BY DEF AmbiguityIsMutual
  <2>1. CASE AmbiguousOn(i, k)
    <3>1. PICK j \in OpIds \ {i} : AmbiguousOn(j, k)
      BY <2>1 DEF AmbiguityIsMutual
    <3> QED
      BY <3>1, AmbiguousStays
  <2>2. CASE ~AmbiguousOn(i, k)
    <3>1. ~NoneOpened
      <4> SUFFICES ASSUME NoneOpened PROVE FALSE
        OBVIOUS
      <4>1. CASE HasOpen(k)' /\ ops'[k].open.id = i /\ ops'[k].open.ambiguous
        BY <2>2, <4>1 DEF NoneOpened, StillOpen, AmbiguousOn
      <4>2. CASE built'[i] # None /\ built'[i].ambiguous /\ built'[i].key = k
        BY <2>2, <4>2 DEF NoneOpened, RecordedAsIs, Recorded, MadeFrom, AmbiguousOn
      <4> QED
        BY <4>1, <4>2 DEF AmbiguousOn
    <3>2. PICK l \in Keys, bio \in Cookies \cup {None} : WriteOpened(l, bio)
      BY <3>1, NextRecords
    <3>a. PICK p, n : p = ops[l].open.id /\ n = op_counter + 1
      OBVIOUS
    <3>3. /\ op_counter' = n /\ n \in OpIds /\ HasOpen(l)' /\ ops'[l].open.id = n
          /\ ops'[l].open.ambiguous = Overtaken(l, bio)
      BY <3>a, <3>2 DEF WriteOpened, OpenSlot
    <3>4. (i = n \/ i = p) /\ l = k /\ Overtaken(k, bio)
      <4>1. CASE HasOpen(k)' /\ ops'[k].open.id = i /\ ops'[k].open.ambiguous
        BY <2>2, <3>2, <3>3, <4>1 DEF WriteOpened, StillOpen, AmbiguousOn
      <4>2. CASE built'[i] # None /\ built'[i].ambiguous /\ built'[i].key = k
        <5>1. built'[i] # built[i]
          BY <2>2, <4>2 DEF AmbiguousOn
        <5>2. ~(\E j \in Keys \ {l} : RecordedAsIs(j, i))
          BY <2>2, <4>2 DEF RecordedAsIs, Recorded, MadeFrom, AmbiguousOn
        <5>3. HasOpen(l) /\ i = p
          BY <3>a, <3>2, <5>1, <5>2 DEF WriteOpened
        <5>4. /\ built'[i].key = l
              /\ built'[i].ambiguous = (ops[l].open.ambiguous \/ Overtaken(l, bio))
          BY <3>a, <3>2, <5>3 DEF WriteOpened, Recorded, MadeFrom
        <5> QED
          BY <3>a, <2>2, <4>2, <5>3, <5>4 DEF AmbiguousOn
      <4> QED
        BY <4>1, <4>2 DEF AmbiguousOn
    <3>5. HasOpen(k) /\ p \in OpIds /\ p # n
      <4>1. HasOpen(k)
        BY <3>4 DEF Overtaken
      <4>2. p \in OpIds /\ p <= op_counter
        BY <3>a, <3>4, <4>1, InvParts, OpenTyped DEF OpConserved, InFlight
      <4> QED
        BY <3>a, <4>1, <4>2, InvParts DEF OpIds, LedgerTyped
    <3>6. AmbiguousOn(n, k)'
      BY <3>3, <3>4 DEF AmbiguousOn
    <3>7. AmbiguousOn(p, k)'
      <4>1. Recorded(k, p) /\ built'[p].ambiguous
        BY <3>a, <3>2, <3>4, <3>5 DEF WriteOpened
      <4> QED
        BY <4>1 DEF Recorded, MadeFrom, AmbiguousOn
    <3> QED
      BY <3>3, <3>4, <3>5, <3>6, <3>7
  <2> QED
    BY <2>1, <2>2
<1>3. Inv /\ RecordIsFinal /\ [Next]_vars => RecordIsFinal'
  BY RecordStays
<1> QED
  BY <1>1, <1>2, <1>3, InvHolds, PTL DEF Spec
=============================================================================
