-------------------------- MODULE AgentLoopProofs --------------------------
(***************************************************************************)
(* The event loops for every number of connections and every bound of      *)
(* ring, batch, chunk and queue: no wakeup is lost, no served request is   *)
(* reported as aborted, a clean exit has left nothing behind, and what the *)
(* reader of stdout gets is the record stream.                             *)
(***************************************************************************)
EXTENDS AgentLoop, SequenceTheorems, FiniteSetTheorems, TLAPS

Quiet == UNCHANGED <<ring, open, life, emitted>>

(* Each ring carries its own kinds of events.                              *)
Closes  == [kind : {"close"}, conn : Conns]
Calls   == [kind : {"open", "answer", "body"}, conn : Conns]
Samples == [kind : {"sample"}, conn : Nat]

Routed ==
    /\ ring["events"] \in Seq(Closes)
    /\ ring["tls_events"] \in Seq(Calls)
    /\ ring["sample_events"] \in Seq(Samples)

(* A loop that drains a ring has its readiness.                            *)
Wakeups == WakeupKept /\ (pc = "drain" => ready[at])

AfterLoop == pc \in {"final", "flush", "finish", "join"}

(* What the shutdown has established up to each of its steps.              *)
Closing ==
    /\ AfterLoop => IF Workload THEN driver # "running" ELSE ~attached
    /\ pc = "final" /\ at = "events" => ring["tls_events"] = <<>>
    /\ pc = "final" /\ at = "sample_events" =>
          ~Workload /\ ring["tls_events"] = <<>> /\ ring["events"] = <<>>
    /\ pc \in {"flush", "finish", "join"} =>
          ring["tls_events"] = <<>> /\ (~Workload => \A r \in Rings : ring[r] = <<>>)
    /\ pc \in {"finish", "join"} => open = {}
    /\ pc = "join" => ~Workload /\ pending = <<>> /\ buf = <<>>
    /\ closed => pc = "join"
    /\ writer = "done" => closed /\ queue = <<>>
    /\ Workload => pending = <<>> /\ buf = <<>> /\ queue = <<>>

(* The plaintext ring T and the open ops O tell the life l of a connection *)
(* in its order: it is asked once, and answered after that.                *)
Has(T, k, c) == \E i \in DOMAIN T : T[i].kind = k /\ T[i].conn = c

AskedFirst(T, c) ==
    \A i, j \in DOMAIN T :
        T[i].kind = "open" /\ T[i].conn = c /\ T[j].conn = c =>
            (T[j].kind = "open" => i = j) /\ (T[j].kind = "answer" => i < j)

InOrder(T, O, l, c) ==
    /\ l = "idle" => c \notin O /\ ~Has(T, "open", c) /\ ~Has(T, "answer", c)
    /\ c \in O => ~Has(T, "open", c)
    /\ AskedFirst(T, c)

Over(T, O, c) == c \notin O /\ ~Has(T, "open", c)

IsAborted(E, c) == \E i \in DOMAIN E : E[i].of = "aborted" /\ E[i].conn = c

Requests ==
    \A c \in Conns :
        /\ InOrder(ring["tls_events"], open, life[c], c)
        /\ IsAborted(emitted, c) => life[c] # "idle" /\ Over(ring["tls_events"], open, c)

(* An answer that was queued when the loop ended is found, or was.         *)
Answering(T, O, c) == Has(T, "answer", c) /\ (c \in O \/ Has(T, "open", c))

Answers ==
    \A c \in owed :
        /\ AfterLoop
        /\ ~IsAborted(emitted, c)
        /\ \/ Over(ring["tls_events"], open, c)
           \/ pc = "final" /\ at = "tls_events" /\ Answering(ring["tls_events"], open, c)

Inv == TypeOK /\ Routed /\ Wakeups /\ Closing /\ NothingLeftBehind /\ Requests /\ Answers

-----------------------------------------------------------------------------
(* What the helpers return.                                                *)

LEMMA ParamTypes ==
    /\ Conns \subseteq Nat /\ IsFiniteSet(Conns)
    /\ RingCap \in Nat \ {0} /\ DRAIN_BATCH \in Nat \ {0}
    /\ RECORD_CHUNK \in Nat \ {0} /\ OUTPUT_QUEUE \in Nat \ {0}
    /\ "done" \notin WriteErrors
BY AgentAssumption DEF AgentAssumption

LEMMA FragmentsTyped ==
    ASSUME NEW records \in Seq(Record)
    PROVE  /\ Fragments(records) \in Seq(Record \cup {NEWLINE})
           /\ Workload => Fragments(records) = <<>>
<1>1. CASE Workload
  BY <1>1 DEF Fragments
<1>2. CASE ~Workload
  <2> DEFINE n == 2 * Len(records)
             f == [i \in 1 .. n |-> IF i % 2 = 1 THEN records[(i + 1) \div 2] ELSE NEWLINE]
  <2>1. n \in Nat /\ Len(records) \in Nat
    BY LenProperties
  <2>2. \A i \in 1 .. n : (IF i % 2 = 1 THEN records[(i + 1) \div 2] ELSE NEWLINE) \in Record \cup {NEWLINE}
    <3>1. TAKE i \in 1 .. n
    <3>2. CASE i % 2 = 1
      <4>1. (i + 1) \div 2 \in 1 .. Len(records)
        BY <2>1, <3>2
      <4> QED BY <4>1, <3>2, ElementOfSeq
    <3> QED BY <3>2
  <2>3. f \in [1 .. n -> Record \cup {NEWLINE}]
    BY <2>2
  <2>4. f \in Seq(Record \cup {NEWLINE})
    <3> HIDE DEF f
    <3> QED BY <2>1, <2>3, SeqDef
  <2> QED BY <2>4, <1>2 DEF Fragments
<1> QED BY <1>1, <1>2

LEMMA RecordsTyped ==
    ASSUME NEW e \in Event
    PROVE  /\ RecordsOf(e) \in Seq(Record)
           /\ OpenAfter(e) \in SUBSET (open \cup Conns)
           /\ \A c : IsAborted(RecordsOf(e), c) => e.kind = "close" /\ e.conn = c /\ c \in open
<1>1. /\ [of |-> "answered", conn |-> e.conn] \in Record /\ [of |-> "connection", conn |-> e.conn] \in Record
      /\ [of |-> "aborted", conn |-> e.conn] \in Record /\ [of |-> "sample", conn |-> e.conn] \in Record
      /\ e.conn \in Nat
  BY ParamTypes DEF Event, Record
<1>2. CASE e.kind = "answer"
  BY <1>1, <1>2 DEF RecordsOf, OpenAfter, IsAborted
<1>3. CASE e.kind = "close"
  <2>1. e.conn \in Conns
    BY <1>3 DEF Event
  <2>2. RecordsOf(e) = IF e.conn \in open
                       THEN <<[of |-> "connection", conn |-> e.conn], [of |-> "aborted", conn |-> e.conn]>>
                       ELSE <<[of |-> "connection", conn |-> e.conn]>>
    <3> DEFINE a == [of |-> "connection", conn |-> e.conn]
               b == [of |-> "aborted", conn |-> e.conn]
    <3>1. RecordsOf(e) = <<a>> \o (IF e.conn \in open THEN <<b>> ELSE <<>>)
      BY <1>3 DEF RecordsOf
    <3>2. a \in Record /\ b \in Record
      BY <1>1
    <3> HIDE DEF a, b
    <3>3. <<a>> \o <<b>> = <<a, b>> /\ <<a>> \o <<>> = <<a>>
      <4>1. <<a>> \in Seq(Record)
        BY <3>2
      <4>2. <<b>> \in Seq(Record) /\ <<a, b>> \in Seq(Record)
        BY <3>2
      <4> DEFINE ab == <<a>> \o <<b>>
      <4>3. ab \in Seq(Record) /\ Len(ab) = 2 /\ ab[1] = a /\ ab[2] = b
        BY <4>1, <4>2, ConcatProperties
      <4> HIDE DEF ab
      <4>4. ab = <<a, b>>
        BY <4>2, <4>3, SeqEqual
      <4> QED BY <4>1, <4>4, ConcatEmptySeq DEF ab
    <3>4. RecordsOf(e) = IF e.conn \in open THEN <<a, b>> ELSE <<a>>
      BY <3>1, <3>3
    <3> QED BY <3>4 DEF a, b
  <2>3. OpenAfter(e) \in SUBSET (open \cup Conns)
    BY <1>3 DEF OpenAfter
  <2>4. CASE e.conn \in open
    <3>1. RecordsOf(e) = <<[of |-> "connection", conn |-> e.conn], [of |-> "aborted", conn |-> e.conn]>>
      BY <2>2, <2>4
    <3> QED BY <1>1, <1>3, <2>3, <2>4, <3>1 DEF IsAborted
  <2>5. CASE e.conn \notin open
    <3>1. RecordsOf(e) = <<[of |-> "connection", conn |-> e.conn]>>
      BY <2>2, <2>5
    <3> QED BY <1>1, <1>3, <2>3, <2>5, <3>1 DEF IsAborted
  <2> QED BY <2>4, <2>5
<1>4. CASE e.kind = "sample"
  BY <1>1, <1>4 DEF RecordsOf, OpenAfter, IsAborted
<1>5. CASE e.kind \notin {"answer", "close", "sample"}
  <2>1. RecordsOf(e) = <<>>
    BY <1>5 DEF RecordsOf
  <2>2. OpenAfter(e) \in SUBSET (open \cup Conns)
    BY <1>5 DEF OpenAfter, Event
  <2> QED BY <2>1, <2>2 DEF IsAborted
<1> QED BY <1>2, <1>3, <1>4, <1>5

LEMMA SubmitTyped ==
    ASSUME TypeOK, Routed, NEW r \in Rings, NEW e \in Event, Submit(r, e),
           \/ r = "events" /\ e \in Closes
           \/ r = "tls_events" /\ e \in Calls
           \/ r = "sample_events" /\ e \in Samples
    PROVE  ring' \in [Rings -> Seq(Event)] /\ edge' \in [Rings -> BOOLEAN] /\ Routed'
<1>1. ring[r] \in Seq(Event) /\ Append(ring[r], e) \in Seq(Event)
  BY AppendProperties DEF TypeOK
<1>2. (edge[r] \/ CaughtUp(r)) \in BOOLEAN
  OBVIOUS
<1>3. CASE UNCHANGED <<ring, edge>>
  BY <1>3 DEF TypeOK, Routed
<1>4. CASE /\ ring' = [ring EXCEPT ![r] = Append(@, e)]
           /\ edge' = [edge EXCEPT ![r] = @ \/ CaughtUp(r)]
  <2>1. ring' \in [Rings -> Seq(Event)] /\ ring'[r] = Append(ring[r], e)
    BY <1>1, <1>4 DEF TypeOK
  <2>2. edge' \in [Rings -> BOOLEAN]
    BY <1>4 DEF TypeOK
  <2>3. \A q \in Rings : q # r => ring'[q] = ring[q]
    BY <1>4 DEF TypeOK
  <2>4. Routed'
    <3>1. CASE r = "events"
      <4>1. ring'["events"] \in Seq(Closes)
        BY <2>1, <3>1, AppendProperties, e \in Closes DEF Routed
      <4> QED BY <2>3, <3>1, <4>1 DEF Routed, Rings
    <3>2. CASE r = "tls_events"
      <4>1. ring'["tls_events"] \in Seq(Calls)
        BY <2>1, <3>2, AppendProperties, e \in Calls DEF Routed
      <4> QED BY <2>3, <3>2, <4>1 DEF Routed, Rings
    <3>3. CASE r = "sample_events"
      <4>1. ring'["sample_events"] \in Seq(Samples)
        BY <2>1, <3>3, AppendProperties, e \in Samples DEF Routed
      <4> QED BY <2>3, <3>3, <4>1 DEF Routed, Rings
    <3> QED BY <3>1, <3>2, <3>3 DEF Rings
  <2> QED BY <2>1, <2>2, <2>4
<1> QED BY <1>3, <1>4 DEF Submit


(* Where the events come from.                                             *)
LEMMA KernelSubmits ==
    ASSUME TypeOK, Kernel
    PROVE  \E r \in Rings, e \in Event :
              /\ Submit(r, e)
              /\ \/ r = "events" /\ e \in Closes
                 \/ r = "tls_events" /\ e \in Calls
                 \/ r = "sample_events" /\ e \in Samples
<1>1. CASE Sample
  <2> DEFINE e == [kind |-> "sample", conn |-> samples']
  <2>1. e \in Event /\ e \in Samples /\ Submit("sample_events", e)
    BY <1>1 DEF Sample, TypeOK, Event, Samples
  <2> QED BY <2>1 DEF Rings
<1>2. ASSUME NEW c \in Conns, Traffic(c)
      PROVE  \E r \in Rings, e \in Event :
                /\ Submit(r, e)
                /\ (r = "events" /\ e \in Closes) \/ (r = "tls_events" /\ e \in Calls)
  <2>1. \A k \in {"open", "answer", "body"} : [kind |-> k, conn |-> c] \in Event /\ [kind |-> k, conn |-> c] \in Calls
    BY DEF Event, Calls
  <2>2. [kind |-> "close", conn |-> c] \in Event /\ [kind |-> "close", conn |-> c] \in Closes
    BY DEF Event, Closes
  <2>3. CASE Submit("events", [kind |-> "close", conn |-> c])
    <3> DEFINE e == [kind |-> "close", conn |-> c]
    <3>1. e \in Event /\ e \in Closes /\ Submit("events", e)
      BY <2>2, <2>3
    <3> QED BY <3>1 DEF Rings
  <2>4. ASSUME NEW k \in {"open", "answer", "body"}, Submit("tls_events", [kind |-> k, conn |-> c])
        PROVE  \E e \in Event : Submit("tls_events", e) /\ e \in Calls
    BY <2>1, <2>4
  <2>5. \/ Submit("events", [kind |-> "close", conn |-> c])
        \/ \E k \in {"open", "answer", "body"} : Submit("tls_events", [kind |-> k, conn |-> c])
    BY <1>2 DEF Traffic, Produce
  <2> QED BY <2>3, <2>4, <2>5 DEF Rings
<1> QED BY <1>1, <1>2 DEF Kernel

LEMMA FoldTyped ==
    ASSUME TypeOK, Routed, NEW r \in Rings, ring[r] # <<>>, Fold(r)
    PROVE  /\ ring' \in [Rings -> Seq(Event)] /\ Routed'
           /\ Head(ring[r]) \in Event /\ Len(ring[r]) \in Nat \ {0}
           /\ ring'[r] = Tail(ring[r]) /\ \A q \in Rings : q # r => ring'[q] = ring[q]
           /\ open' \subseteq Conns /\ emitted' \in Seq(Record)
           /\ pending' \in Seq(Record \cup {NEWLINE}) /\ (Workload => pending' = <<>>)
           /\ UNCHANGED <<edge, life, samples, attached>>
           /\ open' = OpenAfter(Head(ring[r])) /\ emitted' = emitted \o RecordsOf(Head(ring[r]))
<1> DEFINE e == Head(ring[r])
<1>1. /\ ring' = [ring EXCEPT ![r] = Tail(@)]
      /\ open' = OpenAfter(e) /\ emitted' = emitted \o RecordsOf(e)
      /\ pending' = Fragments(RecordsOf(e))
      /\ UNCHANGED <<edge, life, samples, attached>>
  BY DEF Fold
<1>2. ring[r] \in Seq(Event) /\ e \in Event /\ Tail(ring[r]) \in Seq(Event) /\ Len(ring[r]) \in Nat \ {0}
  BY EmptySeq, HeadTailProperties DEF TypeOK
<1>3. /\ ring' \in [Rings -> Seq(Event)] /\ ring'[r] = Tail(ring[r])
      /\ \A q \in Rings : q # r => ring'[q] = ring[q]
  BY <1>1, <1>2 DEF TypeOK
<1>4. Routed'
  <2>1. \A S : ring[r] \in Seq(S) => ring'[r] \in Seq(S)
    BY <1>3, HeadTailProperties
  <2> QED BY <1>3, <2>1 DEF Routed, Rings
<1> HIDE DEF e
<1>5. RecordsOf(e) \in Seq(Record) /\ open' \subseteq Conns
  BY <1>1, <1>2, RecordsTyped DEF TypeOK
<1>6. emitted' \in Seq(Record)
  BY <1>1, <1>5, ConcatProperties DEF TypeOK
<1>7. pending' \in Seq(Record \cup {NEWLINE}) /\ (Workload => pending' = <<>>)
  BY <1>1, <1>5, FragmentsTyped
<1> QED BY <1>1, <1>2, <1>3, <1>4, <1>5, <1>6, <1>7 DEF e

LEMMA AbortedConcat ==
    ASSUME NEW E \in Seq(Record), NEW F \in Seq(Record), NEW c, IsAborted(E \o F, c)
    PROVE  IsAborted(E, c) \/ IsAborted(F, c)
<1> DEFINE G == E \o F
<1>1. /\ DOMAIN E = 1 .. Len(E) /\ Len(E) \in Nat /\ DOMAIN F = 1 .. Len(F) /\ Len(F) \in Nat
      /\ DOMAIN G = 1 .. Len(E) + Len(F)
      /\ \A i \in 1 .. Len(E) + Len(F) : G[i] = IF i <= Len(E) THEN E[i] ELSE F[i - Len(E)]
  BY ConcatProperties, LenProperties
<1> HIDE DEF G
<1>2. PICK i \in DOMAIN G : G[i].of = "aborted" /\ G[i].conn = c
  BY DEF IsAborted, G
<1>3. CASE i <= Len(E)
  BY <1>1, <1>2, <1>3 DEF IsAborted
<1>4. CASE i > Len(E)
  <2>1. i - Len(E) \in DOMAIN F /\ G[i] = F[i - Len(E)]
    BY <1>1, <1>4
  <2> QED BY <1>2, <2>1 DEF IsAborted
<1> QED BY <1>1, <1>3, <1>4

LEMMA FlushOpenOpsTyped ==
    ASSUME TypeOK, FlushOpenOps
    PROVE  /\ emitted' \in Seq(Record)
           /\ pending' \in Seq(Record \cup {NEWLINE}) /\ (Workload => pending' = <<>>)
           /\ \A c : IsAborted(emitted', c) => IsAborted(emitted, c) \/ c \in open
<1>1. PICK order \in SetToSeqs(open) :
         LET aborted == [i \in DOMAIN order |-> [of |-> "aborted", conn |-> order[i]]]
         IN  emitted' = emitted \o aborted /\ pending' = Fragments(aborted)
  BY DEF FlushOpenOps
<1> DEFINE n == Cardinality(open)
           aborted == [i \in DOMAIN order |-> [of |-> "aborted", conn |-> order[i]]]
<1>2. emitted' = emitted \o aborted /\ pending' = Fragments(aborted)
  BY <1>1
<1>3. n \in Nat /\ order \in [1 .. n -> open]
  <2>1. IsFiniteSet(open) /\ n \in Nat
    BY ParamTypes, FS_Subset, FS_CardinalityType DEF TypeOK
  <2> QED BY <2>1 DEF SetToSeqs
<1>4. aborted \in Seq(Record)
  <2>1. \A i \in 1 .. n : order[i] \in Nat
    BY <1>3, ParamTypes DEF TypeOK
  <2>2. \A i \in 1 .. n : [of |-> "aborted", conn |-> order[i]] \in Record
    BY <2>1 DEF Record
  <2>3. aborted \in [1 .. n -> Record]
    BY <1>3, <2>2
  <2> HIDE DEF aborted
  <2> QED BY <1>3, <2>3, SeqDef
<1>5. \A c : IsAborted(aborted, c) => c \in open
  BY <1>3 DEF IsAborted
<1> HIDE DEF aborted
<1>6. emitted' \in Seq(Record)
  BY <1>2, <1>4, ConcatProperties DEF TypeOK
<1>7. \A c : IsAborted(emitted', c) => IsAborted(emitted, c) \/ c \in open
  BY <1>2, <1>4, <1>5, AbortedConcat DEF TypeOK
<1>8. pending' \in Seq(Record \cup {NEWLINE}) /\ (Workload => pending' = <<>>)
  BY <1>2, <1>4, FragmentsTyped
<1> QED BY <1>6, <1>7, <1>8

-----------------------------------------------------------------------------
(* The types, and which events a ring carries.                             *)

LEMMA TypeInit == Init => TypeOK /\ Routed
<1> SUFFICES ASSUME Init PROVE TypeOK /\ Routed
  OBVIOUS
<1>1. \A S : <<>> \in Seq(S)
  BY EmptySeq
<1>2. ring \in [Rings -> Seq(Event)] /\ Routed
  BY <1>1 DEF Init, Routed, Rings
<1>3. /\ edge \in [Rings -> BOOLEAN] /\ ready \in [Rings -> BOOLEAN]
      /\ emitted \in Seq(Record) /\ pending \in Seq(Record \cup {NEWLINE})
  BY <1>1 DEF Init
<1>4. /\ life \in [Conns -> {"idle", "asking", "answered", "closed"}]
      /\ samples \in Nat /\ folded \in 0 .. DRAIN_BATCH /\ at \in Rings
  BY ParamTypes DEF Init, Rings
<1>5. mode \in Modes /\ open \subseteq Conns /\ owed \subseteq Conns
  BY DEF Init
<1>6. /\ attached \in BOOLEAN /\ reap \in BOOLEAN /\ signal \in BOOLEAN /\ blocking \in BOOLEAN
      /\ closed \in BOOLEAN /\ stop \in BOOLEAN /\ deadline \in BOOLEAN
  BY Zenon DEF Init
<1>7. pc = "select" /\ writer = "running" /\ exit = "none" /\ driver = "running"
  BY DEF Init
<1> QED BY <1>2, <1>3, <1>4, <1>5, <1>6, <1>7 DEF TypeOK

LEMMA NextRingIs ==
    ASSUME TypeOK, Closing, NextRing
    PROVE  \/ at = "tls_events" /\ at' = "events" /\ pc' = pc
           \/ at = "events" /\ ~Workload /\ at' = "sample_events" /\ pc' = pc
           \/ at = "events" /\ Workload /\ at' = at /\ pc' = "flush"
           \/ at = "sample_events" /\ ~Workload /\ at' = at /\ pc' = "flush"
<1> DEFINE i == CHOOSE j \in DOMAIN FinalOrder : FinalOrder[j] = at
<1>1. \/ i < Len(FinalOrder) /\ at' = FinalOrder[i + 1] /\ pc' = pc
      \/ ~(i < Len(FinalOrder)) /\ pc' = "flush" /\ at' = at
  BY DEF NextRing
<1>2. pc = "final" /\ at \in Rings
  BY DEF NextRing, TypeOK
<1>3. CASE Workload
  <2>1. FinalOrder = <<"tls_events", "events">> /\ at \in {"tls_events", "events"}
    BY <1>2, <1>3 DEF FinalOrder, Closing, Rings
  <2>2. i = IF at = "tls_events" THEN 1 ELSE 2
    BY <2>1
  <2> QED BY <1>1, <1>3, <2>1, <2>2
<1>4. CASE ~Workload
  <2>1. FinalOrder = <<"tls_events", "events", "sample_events">>
    BY <1>4 DEF FinalOrder
  <2>2. i = IF at = "tls_events" THEN 1 ELSE IF at = "events" THEN 2 ELSE 3
    BY <1>2, <2>1 DEF Rings
  <2> QED BY <1>1, <1>2, <1>4, <2>1, <2>2 DEF Rings
<1> QED BY <1>3, <1>4

LEMMA TypeStep ==
    ASSUME TypeOK, Routed, Closing, Next
    PROVE  TypeOK' /\ Routed'
<1>1. CASE Kernel
  <2>1. ring' \in [Rings -> Seq(Event)] /\ edge' \in [Rings -> BOOLEAN] /\ Routed'
    BY <1>1, KernelSubmits, SubmitTyped
  <2>2. life' \in [Conns -> {"idle", "asking", "answered", "closed"}] /\ samples' \in Nat /\ attached' \in BOOLEAN
    <3>1. CASE Sample
      BY <3>1 DEF Sample, TypeOK
    <3>2. ASSUME NEW c \in Conns, Traffic(c)
          PROVE  /\ life' \in [Conns -> {"idle", "asking", "answered", "closed"}]
                 /\ UNCHANGED <<samples, attached>>
      BY <3>2 DEF Traffic, Produce, TypeOK
    <3> QED BY <1>1, <3>1, <3>2 DEF Kernel, TypeOK
  <2>3. UNCHANGED <<mode, poll, engine, pc, at, folded, sink, output, exit, work, owed>>
    BY <1>1 DEF Kernel
  <2> QED BY <2>1, <2>2, <2>3 DEF TypeOK, poll, engine, sink, output, work
<1>2. CASE Outside \/ DriverEnds
  <2>1. reap' \in BOOLEAN /\ signal' \in BOOLEAN /\ stop' \in BOOLEAN /\ deadline' \in BOOLEAN
    BY <1>2, Zenon DEF Outside, DriverEnds, TypeOK, work, poll
  <2>2. driver' \in {driver, "finished"}
    BY <1>2 DEF Outside, DriverEnds, work
  <2>3. UNCHANGED <<mode, kernel, ready, engine, pc, at, folded, sink, output, exit, owed>>
    BY <1>2 DEF Outside, DriverEnds, poll
  <2> QED BY <2>1, <2>2, <2>3 DEF TypeOK, Routed, kernel, engine, sink, output
<1>3. CASE Writer
  BY <1>3 DEF Writer, WriteChunk, WriteFails, WriterEnds, TypeOK, Routed, kernel, poll, engine, sink, work
<1>4. CASE PollDriver
  BY <1>4 DEF PollDriver, TypeOK, Routed, engine, sink, output, work
<1>5. CASE Arms
  <2>1. CASE Reap \/ TakeResult
    <3>1. reap' \in BOOLEAN /\ deadline' \in BOOLEAN
      BY <2>1, Zenon DEF Reap, TakeResult, TypeOK, work, poll
    <3>2. driver' \in {driver, "joined"}
      BY <2>1 DEF Reap, TakeResult, work
    <3>3. UNCHANGED <<mode, kernel, ready, signal, engine, pc, at, folded, sink, output, exit, stop, owed>>
      BY <2>1 DEF Reap, TakeResult, work, poll
    <3> QED BY <3>1, <3>2, <3>3 DEF TypeOK, Routed, kernel, engine, sink, output
  <2>2. CASE StopOnSignal \/ StopOnDeadline \/ StopOnProof
    <3>1. signal' \in BOOLEAN /\ blocking' \in BOOLEAN /\ stop' \in BOOLEAN
      BY <2>2, Zenon DEF StopOnSignal, StopOnDeadline, StopOnProof, Leave, Workload, TypeOK
    <3>2. /\ pc' = "leaving"
          /\ UNCHANGED <<mode, kernel, ready, reap, engine, at, folded, buf, dropped, queue, output, exit,
                         driver, deadline, owed>>
      BY <2>2 DEF StopOnSignal, StopOnDeadline, StopOnProof, Leave
    <3> QED BY <3>1, <3>2 DEF TypeOK, Routed, kernel, engine, output
  <2>3. CASE \E r \in Rings : StartBatch(r)
    BY <2>3, ParamTypes DEF StartBatch, TypeOK, Routed, kernel, poll, engine, sink, output, work
  <2> QED BY <1>5, <2>1, <2>2, <2>3 DEF Arms
<1>6. CASE Batch
  <2>1. CASE FoldNext
    <3>1. at \in Rings /\ ring[at] # <<>> /\ Fold(at) /\ folded # DRAIN_BATCH /\ folded' = folded + 1
      BY <2>1 DEF FoldNext, TypeOK, BatchOver, Counted
    <3>2. folded' \in 0 .. DRAIN_BATCH
      BY <3>1, ParamTypes DEF TypeOK
    <3>3. UNCHANGED <<mode, poll, pc, at, sink, output, exit, work, owed>>
      BY <2>1 DEF FoldNext
    <3>4. /\ ring' \in [Rings -> Seq(Event)] /\ Routed' /\ open' \subseteq Conns /\ emitted' \in Seq(Record)
          /\ pending' \in Seq(Record \cup {NEWLINE}) /\ UNCHANGED <<edge, life, samples, attached>>
      BY <3>1, FoldTyped
    <3> QED BY <3>2, <3>3, <3>4 DEF TypeOK, poll, sink, output, work
  <2>2. CASE Write
    <3>1. pending \in Seq(Record \cup {NEWLINE}) /\ pending # <<>>
      BY <2>2 DEF Write, TypeOK
    <3>2. Tail(pending) \in Seq(Record \cup {NEWLINE})
      BY <3>1, HeadTailProperties
    <3>3. /\ pending' = Tail(pending) \/ pending' = pending
          /\ exit' \in {exit, "ok"}
          /\ UNCHANGED <<mode, ring, edge, life, samples, poll, open, emitted, blocking, pc, at, folded,
                         output, work, owed>>
      BY <2>2 DEF Write, BrokenPipe, Exit
    <3>4. attached' \in BOOLEAN
      BY <2>2, Zenon DEF Write, BrokenPipe, Exit, TypeOK
    <3>5. pending' \in Seq(Record \cup {NEWLINE})
      BY <3>1, <3>2, <3>3
    <3>6. /\ exit' \in {exit, "ok"}
          /\ UNCHANGED <<mode, ring, edge, life, samples, poll, open, emitted, blocking, pc, at, folded,
                         output, work, owed>>
      BY <3>3
    <3> QED BY <3>4, <3>5, <3>6 DEF TypeOK, Routed, poll, output, work
  <2>3. CASE EndBatch
    <3>1. ReadinessAfter \in BOOLEAN
      BY DEF ReadinessAfter, TypeOK
    <3>2. /\ ready' = ready \/ ready' = [ready EXCEPT ![at] = ReadinessAfter]
          /\ pc' \in {pc, "select"} /\ exit' \in {exit, "ok"}
          /\ UNCHANGED <<mode, ring, edge, life, samples, reap, signal, engine, at, folded, blocking, output,
                         work, owed>>
      BY <2>3 DEF EndBatch, BrokenPipe, Exit
    <3>3. ready' \in [Rings -> BOOLEAN]
      BY <3>1, <3>2 DEF TypeOK
    <3>4. attached' \in BOOLEAN
      BY <2>3, Zenon DEF EndBatch, BrokenPipe, Exit, TypeOK
    <3> QED BY <3>2, <3>3, <3>4 DEF TypeOK, Routed, engine, output, work
  <2> QED BY <1>6, <2>1, <2>2, <2>3 DEF Batch
<1>7. CASE Shutdown
  <2>1. CASE BeginFinal
    <3>1. FinalOrder[1] \in Rings /\ Answerable \subseteq Conns /\ Workload \in BOOLEAN
      BY DEF FinalOrder, Rings, Answerable, Workload
    <3> QED BY <2>1, <3>1 DEF BeginFinal, TypeOK, Routed, poll, engine, sink, output, work
  <2>2. CASE FoldFinal
    <3>1. at \in Rings /\ ring[at] # <<>> /\ Fold(at)
      BY <2>2 DEF FoldFinal, TypeOK
    <3>2. UNCHANGED <<mode, poll, pc, at, folded, sink, output, exit, work, owed>>
      BY <2>2 DEF FoldFinal
    <3>3. /\ ring' \in [Rings -> Seq(Event)] /\ Routed' /\ open' \subseteq Conns /\ emitted' \in Seq(Record)
          /\ pending' \in Seq(Record \cup {NEWLINE}) /\ UNCHANGED <<edge, life, samples, attached>>
      BY <3>1, FoldTyped
    <3> QED BY <3>2, <3>3 DEF TypeOK, poll, sink, output, work
  <2>3. CASE NextRing
    <3>1. at' \in Rings /\ pc' \in {pc, "flush"}
      BY <2>3, NextRingIs DEF Rings
    <3> QED BY <2>3, <3>1 DEF NextRing, TypeOK, Routed, kernel, poll, engine, sink, output, work
  <2>4. CASE FlushOpenOps
    <3>1. emitted' \in Seq(Record) /\ pending' \in Seq(Record \cup {NEWLINE})
      BY <2>4, FlushOpenOpsTyped
    <3> QED BY <2>4, <3>1 DEF FlushOpenOps, TypeOK, Routed, kernel, poll, sink, output, work
  <2>5. CASE CloseSink
    <3>1. /\ pc' \in {pc, "join"} /\ exit' \in {exit, "ok"}
          /\ UNCHANGED <<mode, ring, edge, life, samples, poll, engine, at, folded, blocking, writer, stdout,
                         work, owed>>
      BY <2>5 DEF CloseSink, BrokenPipe, Exit
    <3>2. closed' \in BOOLEAN /\ attached' \in BOOLEAN
      BY <2>5, Zenon DEF CloseSink, BrokenPipe, Exit, TypeOK
    <3> QED BY <3>1, <3>2 DEF TypeOK, Routed, poll, engine, work
  <2>6. CASE Join \/ Return
    <3>1. exit' \in {"ok", "nothing", "failure"} /\ attached' \in BOOLEAN
      <4>1. ASSUME Join PROVE exit' \in {"ok", "nothing", "failure"} /\ attached' \in BOOLEAN
        BY <4>1, Zenon DEF Join, Exit
      <4>2. ASSUME Return PROVE exit' \in {"ok", "nothing", "failure"} /\ attached' \in BOOLEAN
        BY <4>2, Zenon DEF Return, Exit
      <4> QED BY <2>6, <4>1, <4>2
    <3>2. UNCHANGED <<mode, ring, edge, life, samples, poll, engine, pc, at, folded, sink, output, work, owed>>
      BY <2>6 DEF Join, Return
    <3> QED BY <3>1, <3>2 DEF TypeOK, Routed, poll, engine, sink, output, work
  <2> QED BY <1>7, <2>1, <2>2, <2>3, <2>4, <2>5, <2>6 DEF Shutdown
<1> QED BY <1>1, <1>2, <1>3, <1>4, <1>5, <1>6, <1>7 DEF Next

-----------------------------------------------------------------------------
(* No wakeup is lost.                                                      *)

LEMMA WakeupsStep ==
    ASSUME TypeOK, Wakeups, Next
    PROVE  Wakeups'
<1>1. CASE Kernel
  <2>1. PICK r \in Rings, e \in Event : Submit(r, e)
    BY <1>1, KernelSubmits
  <2>2. UNCHANGED <<pc, at, ready, exit, pending>>
    BY <1>1 DEF Kernel, poll, engine
  <2>3. ASSUME Running, pc \in {"select", "drain"}, NEW q \in Rings, ring'[q] # <<>>
        PROVE  edge'[q] \/ ready[q]
    <3>1. CASE q = r /\ ring[r] = <<>> /\ ~Held(r)
      BY <2>1, <2>3, <3>1 DEF Submit, CaughtUp, TypeOK
    <3>2. CASE q = r /\ ring[r] = <<>> /\ Held(r)
      BY <3>2 DEF Held, Wakeups
    <3>3. CASE q # r \/ ring[r] # <<>>
      <4>1. ring[q] # <<>>
        BY <2>1, <2>3, <3>3 DEF Submit, TypeOK
      <4>2. edge[q] \/ ready[q]
        BY <2>3, <4>1 DEF Wakeups, WakeupKept
      <4>3. edge[q] => edge'[q]
        BY <2>1 DEF Submit, TypeOK
      <4> QED BY <4>2, <4>3
    <3> QED BY <3>1, <3>2, <3>3
  <2> QED BY <2>2, <2>3 DEF Wakeups, WakeupKept, Running
<1>2. CASE Outside \/ DriverEnds
  BY <1>2 DEF Outside, DriverEnds, kernel, poll, Wakeups, WakeupKept, Running
<1>3. CASE Writer
  BY <1>3 DEF Writer, WriteChunk, WriteFails, WriterEnds, kernel, poll, Wakeups, WakeupKept, Running
<1>4. CASE PollDriver
  BY <1>4 DEF PollDriver, Tested, TypeOK, Wakeups, WakeupKept, Running
<1>5. CASE Arms
  <2>1. CASE Reap \/ TakeResult
    BY <2>1 DEF Reap, TakeResult, kernel, poll, Wakeups, WakeupKept, Running
  <2>2. CASE StopOnSignal \/ StopOnDeadline \/ StopOnProof
    BY <2>2 DEF StopOnSignal, StopOnDeadline, StopOnProof, Leave, Wakeups, WakeupKept
  <2>3. CASE \E r \in Rings : StartBatch(r)
    BY <2>3 DEF StartBatch, Tested, kernel, poll, Wakeups, WakeupKept, Running
  <2> QED BY <1>5, <2>1, <2>2, <2>3 DEF Arms
<1>6. CASE Batch
  <2>1. CASE FoldNext
    <3>1. /\ pc = "drain" /\ ring[at] # <<>> /\ at \in Rings /\ ring' = [ring EXCEPT ![at] = Tail(@)]
          /\ Running /\ UNCHANGED <<pc, at, ready, exit, edge>>
      BY <2>1 DEF FoldNext, Fold, poll, TypeOK
    <3>2. \A q \in Rings : ring'[q] # <<>> => ring[q] # <<>>
      BY <3>1 DEF TypeOK
    <3> QED BY <3>1, <3>2 DEF Wakeups, WakeupKept, Running
  <2>2. CASE Write
    BY <2>2 DEF Write, BrokenPipe, Exit, poll, Wakeups, WakeupKept, Running
  <2>3. CASE EndBatch
    <3>1. CASE exit' = exit /\ pc' = "select"
      <4>1. /\ ready' = [ready EXCEPT ![at] = ReadinessAfter]
            /\ Running /\ pc = "drain" /\ UNCHANGED <<ring, edge>>
        BY <2>3, <3>1 DEF EndBatch, BrokenPipe, Exit, Running
      <4>2. \A q \in Rings : ring[q] # <<>> => (ready[q] => ready'[q])
        BY <4>1 DEF ReadinessAfter, TypeOK
      <4> QED BY <3>1, <4>1, <4>2 DEF Wakeups, WakeupKept
    <3>2. CASE exit' # "none"
      <4>1. (pc' = pc /\ ready' = ready /\ at' = at) \/ pc' = "select"
        BY <2>3 DEF EndBatch
      <4> QED BY <3>2, <4>1 DEF Wakeups, WakeupKept, Running
    <3> QED BY <2>3, <3>1, <3>2 DEF EndBatch, BrokenPipe, Exit
  <2> QED BY <1>6, <2>1, <2>2, <2>3 DEF Batch
<1>7. CASE Shutdown
  <2>1. pc' \notin {"select", "drain"}
    BY <1>7 DEF Shutdown, BeginFinal, FoldFinal, NextRing, FlushOpenOps, CloseSink, Join, Return, TypeOK
  <2> QED BY <2>1 DEF Wakeups, WakeupKept
<1> QED BY <1>1, <1>2, <1>3, <1>4, <1>5, <1>6, <1>7 DEF Next

-----------------------------------------------------------------------------
(* The shutdown leaves nothing behind.                                     *)

LEMMA AfterLoopTraffic ==
    ASSUME TypeOK, Closing, AfterLoop, Kernel
    PROVE  /\ Workload /\ ring'["tls_events"] = ring["tls_events"]
           /\ \A c \in Conns : life'[c] # life[c] => life[c] # "idle" /\ life'[c] = "closed"
<1>1. ~Driving /\ (~Workload => ~attached)
  BY DEF Closing, Driving
<1>2. PICK c \in Conns : Produce(c, {"asking", "answered"}, "closed", "events", "close") /\ attached
  BY <1>1 DEF Kernel, Traffic, Sample, Workload
<1>3. life' = [life EXCEPT ![c] = "closed"] /\ life[c] # "idle"
  BY <1>2 DEF Produce
<1>4. ring'["tls_events"] = ring["tls_events"]
  BY <1>2 DEF Produce, Submit, TypeOK, Rings
<1> QED BY <1>1, <1>2, <1>3, <1>4 DEF TypeOK

LEMMA ClosingInit == Init => Wakeups /\ Closing /\ NothingLeftBehind
BY DEF Init, Wakeups, WakeupKept, Closing, NothingLeftBehind, AfterLoop

LEMMA NothingStep ==
    ASSUME TypeOK, Closing, Next, exit' # "none"
    PROVE  NothingLeftBehind'
<1>1. Running
  BY DEF Next, Kernel, Outside, DriverEnds, Writer, WriteChunk, WriteFails, WriterEnds, PollDriver, Arms,
         Reap, TakeResult, StopOnSignal, StopOnDeadline, StopOnProof, StartBatch, Tested, Batch, FoldNext,
         Write, EndBatch, Shutdown, BeginFinal, FoldFinal, NextRing, FlushOpenOps, CloseSink, Join, Return
<1>2. exit' = exit \/ Write \/ EndBatch \/ CloseSink \/ Join \/ Return
  BY DEF Next, Kernel, Outside, DriverEnds, Writer, WriteChunk, WriteFails, WriterEnds, PollDriver, Arms,
         Reap, TakeResult, StopOnSignal, StopOnDeadline, StopOnProof, StartBatch, Leave, Batch, FoldNext,
         Shutdown, BeginFinal, FoldFinal, NextRing, FlushOpenOps
<1>3. CASE Write \/ EndBatch \/ CloseSink
  <2>1. (WriterGone /\ ~Workload /\ pc # "join") \/ exit' = exit
    <3>1. CASE Write
      BY <3>1 DEF Write, Closing
    <3>2. CASE EndBatch
      BY <3>2 DEF EndBatch, FlushFails
    <3>3. CASE CloseSink
      BY <3>3 DEF CloseSink, FlushFails
    <3> QED BY <1>3, <3>1, <3>2, <3>3
  <2>2. writer' = writer /\ mode' = mode
    BY <1>3 DEF Write, EndBatch, CloseSink, output
  <2>3. writer # "done" \/ exit' = exit
    BY <2>1 DEF Closing
  <2> QED BY <1>1, <2>1, <2>2, <2>3 DEF NothingLeftBehind, Running, Workload
<1>4. CASE Join
  <2>1. UNCHANGED <<mode, ring, open, pending, buf, queue, writer>> /\ pc = "join"
    BY <1>4 DEF Join, engine, sink, output
  <2> QED BY <2>1 DEF NothingLeftBehind, Closing, Workload, Rings
<1>5. CASE Return
  <2>1. UNCHANGED <<mode, ring, open, pending, buf, queue, writer>> /\ pc = "finish" /\ Workload
    BY <1>5 DEF Return, engine, sink, output
  <2> QED BY <2>1 DEF NothingLeftBehind, Closing, Workload, Rings
<1> QED BY <1>1, <1>2, <1>3, <1>4, <1>5 DEF Running

LEMMA ClosingStep ==
    ASSUME TypeOK, Routed, Closing, Next
    PROVE  Closing'
<1>1. CASE Kernel
  <2>1. /\ UNCHANGED <<mode, pc, at, open, pending, buf, queue, closed, writer, driver>>
        /\ attached' = attached
    BY <1>1 DEF Kernel, engine, sink, output, work, Traffic, Produce, Sample
  <2>2. AfterLoop => Workload /\ ring'["tls_events"] = ring["tls_events"]
    BY <1>1, AfterLoopTraffic
  <2> QED BY <2>1, <2>2 DEF Closing, AfterLoop, Workload
<1>2. CASE Outside \/ DriverEnds
  <2>1. /\ UNCHANGED <<mode, pc, at, ring, open, pending, buf, queue, closed, writer, attached>>
        /\ driver' \in {driver, "finished"}
    BY <1>2 DEF Outside, DriverEnds, kernel, engine, sink, output, work
  <2> QED BY <2>1 DEF Closing, AfterLoop, Workload
<1>3. CASE Writer
  <2>1. /\ UNCHANGED <<mode, pc, at, ring, open, pending, buf, closed, driver, attached>>
        /\ queue = <<>> => queue' = <<>>
        /\ writer' = "done" => closed /\ queue' = <<>>
    <3>1. CASE WriteChunk
      BY <3>1 DEF WriteChunk, kernel, engine, work
    <3>2. CASE WriteFails
      BY <3>2, ParamTypes DEF WriteFails, kernel, engine, work
    <3>3. CASE WriterEnds
      BY <3>3 DEF WriterEnds, kernel, engine, sink, work
    <3> QED BY <1>3, <3>1, <3>2, <3>3 DEF Writer
  <2> QED BY <2>1 DEF Closing, AfterLoop, Workload
<1>4. CASE PollDriver
  BY <1>4 DEF PollDriver, engine, sink, output, work, Closing, AfterLoop, Workload
<1>5. CASE Arms
  <2>1. CASE Reap \/ TakeResult
    BY <2>1 DEF Reap, TakeResult, kernel, engine, sink, output, work, Closing, AfterLoop, Workload
  <2>2. CASE StopOnSignal \/ StopOnDeadline \/ StopOnProof
    BY <2>2 DEF StopOnSignal, StopOnDeadline, StopOnProof, Tested, Leave, kernel, engine, output, Closing,
                AfterLoop, Workload
  <2>3. CASE \E r \in Rings : StartBatch(r)
    BY <2>3 DEF StartBatch, Tested, kernel, engine, sink, output, work, Closing, AfterLoop, Workload
  <2> QED BY <1>5, <2>1, <2>2, <2>3 DEF Arms
<1>6. CASE Batch
  <2>1. CASE FoldNext
    <3>1. pc = "drain" /\ at \in Rings /\ ring[at] # <<>> /\ Fold(at)
      BY <2>1 DEF FoldNext, TypeOK
    <3>2. UNCHANGED <<mode, pc, at, buf, queue, closed, writer, driver>>
      BY <2>1 DEF FoldNext, sink, output, work
    <3>3. Workload => pending' = <<>>
      BY <3>1, FoldTyped
    <3> QED BY <3>1, <3>2, <3>3 DEF Closing, AfterLoop, Workload
  <2>2. CASE Write
    <3>1. pending # <<>> /\ ~Workload /\ pc # "join" /\ ~closed
      BY <2>2 DEF Write, Closing
    <3>2. /\ UNCHANGED <<mode, ring, pc, at, open, closed, writer, driver>>
          /\ attached' => attached
      BY <2>2 DEF Write, BrokenPipe, Exit, output, work
    <3> QED BY <3>1, <3>2 DEF Closing, AfterLoop, Workload
  <2>3. CASE EndBatch
    <3>1. pc = "drain" /\ pc' \in {"drain", "select"} /\ UNCHANGED <<mode, closed, writer, pending>>
      BY <2>3 DEF EndBatch, engine, output
    <3>2. Workload => buf' = <<>> /\ queue' = <<>>
      BY <2>3 DEF EndBatch, Flush, Closing
    <3> QED BY <3>1, <3>2 DEF Closing, AfterLoop, Workload
  <2> QED BY <1>6, <2>1, <2>2, <2>3 DEF Batch
<1>7. CASE Shutdown
  <2>1. CASE BeginFinal
    <3>1. at' = "tls_events" /\ pc = "leaving" /\ pc' = "final" /\ attached' = Workload
      BY <2>1 DEF BeginFinal, FinalOrder
    <3>2. Workload => driver # "running"
      BY <2>1 DEF BeginFinal, Quiescent
    <3>3. UNCHANGED <<mode, pending, buf, queue, closed, writer, driver>>
      BY <2>1 DEF BeginFinal, engine, sink, output, work
    <3> QED BY <3>1, <3>2, <3>3 DEF Closing, AfterLoop, Workload
  <2>2. CASE FoldFinal
    <3>1. pc = "final" /\ at \in Rings /\ ring[at] # <<>> /\ Fold(at)
      BY <2>2 DEF FoldFinal, TypeOK
    <3>2. UNCHANGED <<mode, pc, at, buf, queue, closed, writer, driver>>
      BY <2>2 DEF FoldFinal, sink, output, work
    <3>3. (Workload => pending' = <<>>) /\ attached' = attached /\ \A q \in Rings : q # at => ring'[q] = ring[q]
      BY <3>1, FoldTyped
    <3> QED BY <3>1, <3>2, <3>3 DEF Closing, AfterLoop, Workload, Rings
  <2>3. CASE NextRing
    <3>1. /\ pc = "final" /\ ring[at] = <<>>
          /\ UNCHANGED <<mode, ring, attached, open, pending, buf, queue, closed, writer, driver>>
      BY <2>3 DEF NextRing, kernel, engine, sink, output, work
    <3> QED BY <2>3, <3>1, NextRingIs DEF Closing, AfterLoop, Workload, Rings
  <2>4. CASE FlushOpenOps
    <3>1. /\ pc = "flush" /\ pc' = "finish" /\ open' = {}
          /\ UNCHANGED <<mode, ring, attached, at, buf, queue, closed, writer, driver>>
      BY <2>4 DEF FlushOpenOps, kernel, sink, output, work
    <3>2. Workload => pending' = <<>>
      BY <2>4, FlushOpenOpsTyped
    <3> QED BY <3>1, <3>2 DEF Closing, AfterLoop, Workload
  <2>5. CASE CloseSink
    <3>1. /\ pc = "finish" /\ ~Workload /\ pending = <<>>
          /\ UNCHANGED <<mode, ring, at, open, pending, writer, driver>>
      BY <2>5 DEF CloseSink, engine, work
    <3>2. \/ UNCHANGED <<pc, buf, queue, closed>> /\ attached' = FALSE
          \/ pc' = "join" /\ closed' = TRUE /\ buf' = <<>> /\ attached' = attached
      BY <2>5 DEF CloseSink, BrokenPipe, Exit, Flush
    <3>3. writer # "done"
      BY <3>1 DEF Closing
    <3> QED BY <3>1, <3>2, <3>3 DEF Closing, AfterLoop, Workload
  <2>6. CASE Join \/ Return
    <3>1. UNCHANGED <<mode, ring, open, pending, pc, at, buf, queue, closed, writer, driver>> /\ attached' = FALSE
      BY <2>6 DEF Join, Return, Exit, engine, sink, output, work
    <3> QED BY <3>1 DEF Closing, AfterLoop, Workload
  <2> QED BY <1>7, <2>1, <2>2, <2>3, <2>4, <2>5, <2>6 DEF Shutdown
<1> QED BY <1>1, <1>2, <1>3, <1>4, <1>5, <1>6, <1>7 DEF Next

-----------------------------------------------------------------------------
(* The plaintext ring tells of a request in its order.                     *)

LEMMA HasAppend ==
    ASSUME NEW C, NEW T \in Seq(C), NEW e \in C, NEW k, NEW c
    PROVE  Has(Append(T, e), k, c) <=> Has(T, k, c) \/ (e.kind = k /\ e.conn = c)
<1> DEFINE A == Append(T, e)
<1>1. /\ DOMAIN T = 1 .. Len(T) /\ Len(T) \in Nat /\ DOMAIN A = 1 .. Len(T) + 1
      /\ A[Len(T) + 1] = e /\ \A i \in 1 .. Len(T) : A[i] = T[i]
  BY AppendProperties, LenProperties
<1> HIDE DEF A
<1>2. Has(A, k, c) <=> Has(T, k, c) \/ (e.kind = k /\ e.conn = c)
  BY <1>1 DEF Has
<1> QED BY <1>2 DEF A

LEMMA HasTail ==
    ASSUME NEW C, NEW T \in Seq(C), T # <<>>, NEW k, NEW c
    PROVE  Has(T, k, c) <=> Has(Tail(T), k, c) \/ (Head(T).kind = k /\ Head(T).conn = c)
<1> DEFINE A == Tail(T)
<1>1. /\ Len(T) \in Nat \ {0} /\ DOMAIN T = 1 .. Len(T) /\ A \in Seq(C) /\ Len(A) = Len(T) - 1
      /\ DOMAIN A = 1 .. Len(T) - 1 /\ Head(T) = T[1]
      /\ \A i \in 1 .. Len(T) - 1 : A[i] = T[i + 1]
  BY EmptySeq, HeadTailProperties, LenProperties
<1> HIDE DEF A
<1>2. ASSUME Has(T, k, c) PROVE Has(A, k, c) \/ (Head(T).kind = k /\ Head(T).conn = c)
  <2>1. PICK i \in DOMAIN T : T[i].kind = k /\ T[i].conn = c
    BY <1>2 DEF Has
  <2>2. CASE i = 1
    BY <1>1, <2>1, <2>2
  <2>3. CASE i # 1
    <3>1. i - 1 \in DOMAIN A /\ A[i - 1] = T[i]
      BY <1>1, <2>3
    <3> QED BY <2>1, <3>1 DEF Has
  <2> QED BY <2>2, <2>3
<1>3. ASSUME Has(A, k, c) PROVE Has(T, k, c)
  <2>1. PICK i \in DOMAIN A : A[i].kind = k /\ A[i].conn = c
    BY <1>3 DEF Has
  <2>2. i + 1 \in DOMAIN T /\ T[i + 1] = A[i]
    BY <1>1
  <2> QED BY <2>1, <2>2 DEF Has
<1>4. ASSUME Head(T).kind = k, Head(T).conn = c PROVE Has(T, k, c)
  BY <1>1, <1>4 DEF Has
<1> QED BY <1>2, <1>3, <1>4 DEF A

LEMMA AskedAppend ==
    ASSUME NEW C, NEW T \in Seq(C), NEW e \in C, NEW c, AskedFirst(T, c),
           e.kind = "open" /\ e.conn = c => ~Has(T, "open", c) /\ ~Has(T, "answer", c)
    PROVE  AskedFirst(Append(T, e), c)
<1> DEFINE A == Append(T, e)
<1>1. /\ DOMAIN T = 1 .. Len(T) /\ Len(T) \in Nat /\ DOMAIN A = 1 .. Len(T) + 1
      /\ A[Len(T) + 1] = e /\ \A i \in 1 .. Len(T) : A[i] = T[i]
  BY AppendProperties, LenProperties
<1> HIDE DEF A
<1>2. ASSUME NEW i \in DOMAIN A, NEW j \in DOMAIN A,
             A[i].kind = "open", A[i].conn = c, A[j].conn = c
      PROVE  (A[j].kind = "open" => i = j) /\ (A[j].kind = "answer" => i < j)
  <2>1. CASE i \in DOMAIN T /\ j \in DOMAIN T
    BY <1>1, <1>2, <2>1 DEF AskedFirst
  <2>2. CASE i \in DOMAIN T /\ j = Len(T) + 1
    <3>1. Has(T, "open", c)
      BY <1>1, <1>2, <2>2 DEF Has
    <3> QED BY <1>1, <1>2, <2>2, <3>1
  <2>3. CASE i = Len(T) + 1
    <3>1. ~Has(T, "open", c) /\ ~Has(T, "answer", c)
      BY <1>1, <1>2, <2>3
    <3>2. CASE j = i
      BY <1>2, <3>2
    <3>3. CASE j # i
      BY <1>1, <1>2, <2>3, <3>1, <3>3 DEF Has
    <3> QED BY <3>2, <3>3
  <2> QED BY <1>1, <2>1, <2>2, <2>3
<1>3. AskedFirst(A, c)
  BY <1>2 DEF AskedFirst
<1> QED BY <1>3 DEF A

LEMMA AskedTail ==
    ASSUME NEW C, NEW T \in Seq(C), T # <<>>, NEW c, AskedFirst(T, c)
    PROVE  /\ AskedFirst(Tail(T), c)
           /\ Head(T).kind = "open" /\ Head(T).conn = c => ~Has(Tail(T), "open", c)
           /\ Head(T).kind = "answer" /\ Head(T).conn = c => ~Has(T, "open", c)
<1> DEFINE A == Tail(T)
<1>1. /\ Len(T) \in Nat \ {0} /\ DOMAIN T = 1 .. Len(T) /\ A \in Seq(C) /\ Len(A) = Len(T) - 1
      /\ DOMAIN A = 1 .. Len(T) - 1 /\ Head(T) = T[1]
      /\ \A i \in 1 .. Len(T) - 1 : A[i] = T[i + 1] /\ i + 1 \in DOMAIN T
  BY EmptySeq, HeadTailProperties, LenProperties
<1> HIDE DEF A
<1>2. AskedFirst(A, c)
  <2> SUFFICES ASSUME NEW i \in DOMAIN A, NEW j \in DOMAIN A,
                      A[i].kind = "open", A[i].conn = c, A[j].conn = c
               PROVE  (A[j].kind = "open" => i = j) /\ (A[j].kind = "answer" => i < j)
    BY DEF AskedFirst
  <2>1. (T[j + 1].kind = "open" => i + 1 = j + 1) /\ (T[j + 1].kind = "answer" => i + 1 < j + 1)
    BY <1>1 DEF AskedFirst
  <2> QED BY <1>1, <2>1
<1>3. ASSUME Head(T).kind = "open", Head(T).conn = c, Has(A, "open", c) PROVE FALSE
  <2>1. PICK i \in DOMAIN A : A[i].kind = "open" /\ A[i].conn = c
    BY <1>3 DEF Has
  <2>2. 1 \in DOMAIN T /\ i + 1 \in DOMAIN T /\ T[i + 1].kind = "open" /\ T[i + 1].conn = c /\ i \in Nat \ {0}
    BY <1>1, <2>1
  <2>3. 1 = i + 1
    BY <1>1, <1>3, <2>2 DEF AskedFirst
  <2> QED BY <2>2, <2>3
<1>4. ASSUME Head(T).kind = "answer", Head(T).conn = c, Has(T, "open", c) PROVE FALSE
  <2>1. PICK i \in DOMAIN T : T[i].kind = "open" /\ T[i].conn = c
    BY <1>4 DEF Has
  <2>2. i < 1
    BY <1>1, <1>4, <2>1 DEF AskedFirst
  <2> QED BY <1>1, <2>1, <2>2
<1> QED BY <1>2, <1>3, <1>4 DEF A

(* A step of the kernel in the life of a connection.                       *)
LEMMA KernelTells ==
    ASSUME TypeOK, Routed, Kernel, NEW c \in Conns
    PROVE  LET T == ring["tls_events"]
           IN  /\ life'[c] = life[c] \/ life'[c] # "idle"
               /\ \/ ring'["tls_events"] = T
                  \/ \E e \in Calls :
                        /\ ring'["tls_events"] = Append(T, e)
                        /\ e.conn = c /\ e.kind = "open" => life[c] = "idle" /\ life'[c] # "idle"
                        /\ e.conn = c /\ e.kind = "answer" => life[c] # "idle"
<1> DEFINE T == ring["tls_events"]
<1>1. CASE Sample
  <2>1. ring'["tls_events"] = T /\ life' = life
    BY <1>1 DEF Sample, Submit, TypeOK, Rings
  <2> QED BY <2>1
<1>2. ASSUME NEW d \in Conns, Traffic(d)
      PROVE  /\ life'[c] = life[c] \/ life'[c] # "idle"
             /\ \/ ring'["tls_events"] = T
                \/ \E e \in Calls :
                      /\ ring'["tls_events"] = Append(T, e)
                      /\ e.conn = c /\ e.kind = "open" => life[c] = "idle" /\ life'[c] # "idle"
                      /\ e.conn = c /\ e.kind = "answer" => life[c] # "idle"
  <2>1. CASE Produce(d, {"asking", "answered"}, "closed", "events", "close")
    <3>1. ring'["tls_events"] = T
      BY <2>1 DEF Produce, Submit, TypeOK, Rings
    <3>2. life'[c] = life[c] \/ life'[c] # "idle"
      BY <2>1 DEF Produce, TypeOK
    <3> QED BY <3>1, <3>2
  <2>2. ASSUME NEW from, NEW to \in {"asking", "answered"}, NEW k \in {"open", "answer", "body"},
               Produce(d, from, to, "tls_events", k),
               k = "open" => from = {"idle"}, k # "open" => from = {"asking"}
        PROVE  /\ life'[c] = life[c] \/ life'[c] # "idle"
               /\ \/ ring'["tls_events"] = T
                  \/ \E e \in Calls :
                        /\ ring'["tls_events"] = Append(T, e)
                        /\ e.conn = c /\ e.kind = "open" => life[c] = "idle" /\ life'[c] # "idle"
                        /\ e.conn = c /\ e.kind = "answer" => life[c] # "idle"
    <3> DEFINE e == [kind |-> k, conn |-> d]
    <3>1. e \in Calls /\ e.kind = k /\ e.conn = d
      BY DEF Calls
    <3>2. life[d] \in from /\ life' = [life EXCEPT ![d] = to] /\ Submit("tls_events", e)
      BY <2>2 DEF Produce
    <3>3. life'[c] = life[c] \/ life'[c] # "idle"
      BY <3>2 DEF TypeOK
    <3> HIDE DEF e
    <3>4. ring'["tls_events"] = T \/ ring'["tls_events"] = Append(T, e)
      BY <3>2 DEF Submit, TypeOK, Rings
    <3>5. /\ e.conn = c /\ e.kind = "open" => life[c] = "idle" /\ life'[c] # "idle"
          /\ e.conn = c /\ e.kind = "answer" => life[c] # "idle"
      BY <2>2, <3>1, <3>2 DEF TypeOK
    <3> QED BY <3>1, <3>3, <3>4, <3>5
  <2> QED BY <1>2, <2>1, <2>2 DEF Traffic
<1> QED BY <1>1, <1>2 DEF Kernel

(* A folded event in the life of a connection.                             *)
LEMMA FoldTells ==
    ASSUME TypeOK, Routed, NEW r \in Rings, ring[r] # <<>>, Fold(r), NEW c \in Conns,
           InOrder(ring["tls_events"], open, life[c], c)
    PROVE  LET T == ring["tls_events"]
               S == ring'["tls_events"]
           IN  /\ InOrder(S, open', life[c], c)
               /\ Over(T, open, c) => Over(S, open', c)
               /\ IsAborted(emitted', c) =>
                     IsAborted(emitted, c) \/ (r = "events" /\ c \in open /\ Over(S, open', c))
               /\ r = "tls_events" /\ Answering(T, open, c) =>
                     Answering(S, open', c) \/ Over(S, open', c)
<1> DEFINE T == ring["tls_events"]
           S == ring'["tls_events"]
           e == Head(ring[r])
<1>1. /\ e \in Event /\ ring'[r] = Tail(ring[r]) /\ (r # "tls_events" => S = T)
      /\ open' = OpenAfter(e) /\ emitted' = emitted \o RecordsOf(e)
      /\ r = "tls_events" => S = Tail(T)
  BY FoldTyped DEF Rings
<1>2. IsAborted(emitted', c) => IsAborted(emitted, c) \/ (e.kind = "close" /\ e.conn = c /\ c \in open)
  BY <1>1, RecordsTyped, AbortedConcat DEF TypeOK
<1>3. CASE r = "tls_events"
  <2>1. T \in Seq(Calls) /\ T # <<>> /\ e \in Calls /\ e = Head(T) /\ S = Tail(T)
    BY <1>1, <1>3, HeadTailProperties DEF Routed
  <2>2. e.kind \in {"open", "answer", "body"}
    BY <2>1 DEF Calls
  <2>3. /\ Has(T, "open", c) <=> Has(S, "open", c) \/ (e.kind = "open" /\ e.conn = c)
        /\ Has(T, "answer", c) <=> Has(S, "answer", c) \/ (e.kind = "answer" /\ e.conn = c)
    <3> HIDE DEF T, S, e
    <3> QED BY <2>1, HasTail
  <2>4. /\ AskedFirst(S, c)
        /\ e.kind = "open" /\ e.conn = c => ~Has(S, "open", c)
        /\ e.kind = "answer" /\ e.conn = c => ~Has(T, "open", c)
    <3>1. AskedFirst(T, c)
      BY DEF InOrder
    <3> HIDE DEF T, S, e
    <3> QED BY <2>1, <3>1, AskedTail
  <2>5. c \in open' <=> IF e.kind = "open" /\ e.conn = c THEN TRUE
                        ELSE c \in open /\ ~(e.kind = "answer" /\ e.conn = c)
    BY <1>1, <2>2 DEF OpenAfter
  <2> HIDE DEF T, S, e
  <2>6. InOrder(T, open, life[c], c)
    BY DEF T
  <2>7. InOrder(S, open', life[c], c)
    BY <2>3, <2>4, <2>5, <2>6 DEF InOrder
  <2>8. Over(T, open, c) => Over(S, open', c)
    BY <2>3, <2>5 DEF Over
  <2>9. Answering(T, open, c) => Answering(S, open', c) \/ Over(S, open', c)
    BY <2>3, <2>4, <2>5, <2>6 DEF InOrder, Over, Answering
  <2>10. IsAborted(emitted', c) => IsAborted(emitted, c)
    BY <1>2, <2>2
  <2> QED BY <2>7, <2>8, <2>9, <2>10 DEF T, S
<1>4. CASE r = "events"
  <2>1. e.kind = "close" /\ S = T
    <3>1. ring["events"] \in Seq(Closes) /\ ring["events"] # <<>> /\ e = Head(ring["events"])
      BY <1>4 DEF Routed
    <3>2. e \in Closes
      <4> HIDE DEF e
      <4> QED BY <3>1, HeadTailProperties
    <3> QED BY <1>1, <1>4, <3>2 DEF Closes
  <2>2. c \in open' <=> c \in open /\ e.conn # c
    BY <1>1, <2>1 DEF OpenAfter
  <2> HIDE DEF T, S, e
  <2>3. InOrder(T, open, life[c], c)
    BY DEF T
  <2>4. InOrder(S, open', life[c], c) /\ (Over(T, open, c) => Over(S, open', c))
    BY <2>1, <2>2, <2>3 DEF InOrder, Over
  <2>5. IsAborted(emitted', c) => IsAborted(emitted, c) \/ (c \in open /\ Over(S, open', c))
    BY <1>2, <2>1, <2>2, <2>3 DEF InOrder, Over
  <2> QED BY <1>4, <2>4, <2>5 DEF T, S
<1>5. CASE r = "sample_events"
  <2>1. e.kind = "sample" /\ S = T
    <3>1. ring["sample_events"] \in Seq(Samples) /\ ring["sample_events"] # <<>> /\ e = Head(ring["sample_events"])
      BY <1>5 DEF Routed
    <3>2. e \in Samples
      <4> HIDE DEF e
      <4> QED BY <3>1, HeadTailProperties
    <3> QED BY <1>1, <1>5, <3>2 DEF Samples
  <2>2. open' = open
    BY <1>1, <2>1 DEF OpenAfter
  <2>3. IsAborted(emitted', c) => IsAborted(emitted, c)
    BY <1>2, <2>1
  <2> QED BY <1>5, <2>1, <2>2, <2>3
<1> QED BY <1>3, <1>4, <1>5 DEF Rings

LEMMA RequestsInit == Init => Requests /\ Answers
<1> SUFFICES ASSUME Init PROVE Requests /\ Answers
  OBVIOUS
<1>1. ring["tls_events"] = <<>> /\ open = {} /\ emitted = <<>> /\ owed = {}
  BY DEF Init, Rings
<1>2. \A c : InOrder(<<>>, {}, life[c], c) /\ ~IsAborted(<<>>, c)
  BY DEF InOrder, Has, AskedFirst, IsAborted
<1> QED BY <1>1, <1>2 DEF Requests, Answers

LEMMA RequestsStep ==
    ASSUME TypeOK, Routed, Requests, Next
    PROVE  Requests'
<1> SUFFICES ASSUME NEW c \in Conns
             PROVE  /\ InOrder(ring'["tls_events"], open', life'[c], c)
                    /\ IsAborted(emitted', c) => life'[c] # "idle" /\ Over(ring'["tls_events"], open', c)
  BY DEF Requests
<1> DEFINE T == ring["tls_events"]
           S == ring'["tls_events"]
<1>1. /\ InOrder(T, open, life[c], c)
      /\ IsAborted(emitted, c) => life[c] # "idle" /\ Over(T, open, c)
  BY DEF Requests
<1>2. CASE Kernel
  <2>1. open' = open /\ emitted' = emitted
    BY <1>2 DEF Kernel, engine
  <2>2. life'[c] = life[c] \/ life'[c] # "idle"
    BY <1>2, KernelTells
  <2>3. CASE S = T
    <3> HIDE DEF S, T
    <3>1. InOrder(S, open, life'[c], c)
      BY <1>1, <2>2, <2>3 DEF InOrder
    <3> QED BY <1>1, <2>1, <2>2, <2>3, <3>1 DEF S, T
  <2>4. ASSUME NEW e \in Calls, S = Append(T, e),
               e.conn = c /\ e.kind = "open" => life[c] = "idle" /\ life'[c] # "idle",
               e.conn = c /\ e.kind = "answer" => life[c] # "idle"
        PROVE  /\ InOrder(S, open, life'[c], c)
               /\ IsAborted(emitted, c) => life'[c] # "idle" /\ Over(S, open, c)
    <3>1. T \in Seq(Calls)
      BY DEF Routed
    <3> HIDE DEF T, S
    <3>2. /\ Has(S, "open", c) <=> Has(T, "open", c) \/ (e.kind = "open" /\ e.conn = c)
          /\ Has(S, "answer", c) <=> Has(T, "answer", c) \/ (e.kind = "answer" /\ e.conn = c)
      BY <2>4, <3>1, HasAppend
    <3>3. AskedFirst(S, c)
      <4>1. AskedFirst(T, c)
        BY <1>1 DEF InOrder
      <4>2. e.kind = "open" /\ e.conn = c => ~Has(T, "open", c) /\ ~Has(T, "answer", c)
        BY <1>1, <2>4 DEF InOrder
      <4> QED BY <2>4, <3>1, <4>1, <4>2, AskedAppend
    <3> QED BY <1>1, <2>2, <2>4, <3>2, <3>3 DEF InOrder, Over
  <2>5. S = T \/ \E e \in Calls :
                    /\ S = Append(T, e)
                    /\ e.conn = c /\ e.kind = "open" => life[c] = "idle" /\ life'[c] # "idle"
                    /\ e.conn = c /\ e.kind = "answer" => life[c] # "idle"
    BY <1>2, KernelTells
  <2> HIDE DEF S, T
  <2> QED BY <2>1, <2>3, <2>4, <2>5 DEF S
<1>3. CASE FoldNext \/ FoldFinal
  <2>1. at \in Rings /\ ring[at] # <<>> /\ Fold(at)
    BY <1>3 DEF FoldNext, FoldFinal, TypeOK
  <2>2. life' = life
    BY <2>1 DEF Fold
  <2>3. /\ InOrder(S, open', life[c], c)
        /\ Over(T, open, c) => Over(S, open', c)
        /\ IsAborted(emitted', c) => IsAborted(emitted, c) \/ (c \in open /\ Over(S, open', c))
    BY <1>1, <2>1, FoldTells
  <2>4. c \in open => life[c] # "idle"
    BY <1>1 DEF InOrder
  <2> HIDE DEF S, T
  <2> QED BY <1>1, <2>2, <2>3, <2>4 DEF S
<1>4. CASE FlushOpenOps
  <2>1. ring' = ring /\ life' = life /\ open' = {}
    BY <1>4 DEF FlushOpenOps, kernel
  <2>2. IsAborted(emitted', c) => IsAborted(emitted, c) \/ c \in open
    BY <1>4, FlushOpenOpsTyped
  <2> QED BY <1>1, <2>1, <2>2 DEF InOrder, Over
<1>5. CASE Quiet
  BY <1>1, <1>5 DEF Quiet
<1>6. Kernel \/ FoldNext \/ FoldFinal \/ FlushOpenOps \/ Quiet
  BY DEF Next, Outside, DriverEnds, Writer, WriteChunk, WriteFails, WriterEnds, PollDriver, Arms, Reap,
         TakeResult, StopOnSignal, StopOnDeadline, StopOnProof, StartBatch, Leave, Batch, Write, EndBatch,
         Shutdown, BeginFinal, NextRing, CloseSink, Join, Return, Quiet, kernel, engine
<1> QED BY <1>2, <1>3, <1>4, <1>5, <1>6

LEMMA AnswersStep ==
    ASSUME TypeOK, Routed, Closing, Requests, Answers, Next
    PROVE  Answers'
<1> DEFINE T == ring["tls_events"]
           S == ring'["tls_events"]
<1>1. owed' = owed \/ BeginFinal
  BY DEF Next, Kernel, Outside, DriverEnds, Writer, WriteChunk, WriteFails, WriterEnds, PollDriver, Arms,
         Reap, TakeResult, StopOnSignal, StopOnDeadline, StopOnProof, StartBatch, Leave, Batch, FoldNext,
         Write, EndBatch, Shutdown, FoldFinal, NextRing, FlushOpenOps, CloseSink, Join, Return
<1>2. CASE BeginFinal
  <2>1. /\ UNCHANGED <<ring, open, emitted>> /\ owed' = Answerable
        /\ pc' = "final" /\ at' = "tls_events"
    BY <1>2 DEF BeginFinal, FinalOrder, engine
  <2> SUFFICES ASSUME NEW c \in Answerable
               PROVE  ~IsAborted(emitted, c) /\ Answering(T, open, c)
    BY <2>1 DEF Answers, AfterLoop
  <2>2. c \in Conns /\ Has(T, "answer", c) /\ (c \in open \/ Has(T, "open", c))
    BY DEF Answerable, Kinds, Has
  <2>3. ~Over(T, open, c) /\ Answering(T, open, c)
    BY <2>2 DEF Over, Answering
  <2> QED BY <2>2, <2>3 DEF Requests
<1>3. ASSUME ~BeginFinal, NEW c \in owed
      PROVE  /\ AfterLoop'
             /\ ~IsAborted(emitted', c)
             /\ \/ Over(S, open', c)
                \/ pc' = "final" /\ at' = "tls_events" /\ Answering(S, open', c)
  <2>1. /\ AfterLoop /\ ~IsAborted(emitted, c) /\ c \in Conns
        /\ Over(T, open, c) \/ (pc = "final" /\ at = "tls_events" /\ Answering(T, open, c))
    BY <1>3 DEF Answers, TypeOK
  <2>2. CASE Kernel
    <3>1. S = T /\ UNCHANGED <<open, emitted, pc, at>>
      BY <2>1, <2>2, AfterLoopTraffic DEF Kernel, engine
    <3> QED BY <2>1, <3>1 DEF AfterLoop
  <2>3. CASE FoldFinal
    <3>1. at \in Rings /\ ring[at] # <<>> /\ Fold(at) /\ pc = "final" /\ pc' = pc /\ at' = at
      BY <2>3 DEF FoldFinal, TypeOK
    <3>2. InOrder(T, open, life[c], c)
      BY <2>1 DEF Requests
    <3>3. /\ Over(T, open, c) => Over(S, open', c)
          /\ IsAborted(emitted', c) => IsAborted(emitted, c) \/ (at = "events" /\ c \in open)
          /\ at = "tls_events" /\ Answering(T, open, c) => Answering(S, open', c) \/ Over(S, open', c)
      BY <2>1, <3>1, <3>2, FoldTells
    <3>4. at = "events" => c \notin open
      BY <2>1 DEF Over
    <3> HIDE DEF S, T
    <3> QED BY <2>1, <3>1, <3>3, <3>4 DEF AfterLoop
  <2>4. CASE NextRing
    <3>1. UNCHANGED <<ring, open, emitted>> /\ ring[at] = <<>> /\ pc' \in {"final", "flush"}
      BY <2>1, <2>4, NextRingIs DEF NextRing, kernel, engine
    <3>2. Over(T, open, c)
      BY <2>1, <3>1 DEF Answering, Has
    <3> QED BY <2>1, <3>1, <3>2 DEF AfterLoop
  <2>5. CASE FlushOpenOps
    <3>1. ring' = ring /\ open' = {} /\ pc = "flush" /\ pc' = "finish"
      BY <2>5 DEF FlushOpenOps, kernel
    <3>2. IsAborted(emitted', c) => IsAborted(emitted, c) \/ c \in open
      BY <2>5, FlushOpenOpsTyped
    <3> QED BY <2>1, <3>1, <3>2 DEF AfterLoop, Over
  <2>6. ASSUME Quiet, AfterLoop', (pc' = pc /\ at' = at) \/ pc # "final"
        PROVE  /\ ~IsAborted(emitted', c)
               /\ \/ Over(S, open', c)
                  \/ pc' = "final" /\ at' = "tls_events" /\ Answering(S, open', c)
    BY <2>1, <2>6 DEF Quiet
  <2>7. CASE Outside \/ DriverEnds \/ Writer \/ PollDriver \/ Write \/ CloseSink \/ Join \/ Return
    <3>1. /\ Quiet
          /\ (pc' = pc /\ at' = at) \/ (pc = "finish" /\ pc' = "join")
      BY <2>7 DEF Outside, DriverEnds, Writer, WriteChunk, WriteFails, WriterEnds, PollDriver, Write,
                  CloseSink, Join, Return, Quiet, kernel, engine
    <3> QED BY <2>1, <2>6, <3>1 DEF AfterLoop
  <2>8. ~Arms /\ ~FoldNext /\ ~EndBatch
    BY <2>1 DEF Arms, Reap, TakeResult, StopOnSignal, StopOnDeadline, StopOnProof, StartBatch, Tested,
                FoldNext, EndBatch, AfterLoop
  <2> QED BY <1>3, <2>2, <2>3, <2>4, <2>5, <2>7, <2>8 DEF Next, Batch, Shutdown
<1> HIDE DEF S, T
<1>4. CASE ~BeginFinal
  BY <1>1, <1>3, <1>4 DEF Answers, S
<1> QED BY <1>2, <1>4

-----------------------------------------------------------------------------
(* The inductive invariant of the event loops.                             *)
THEOREM AgentInv == Spec => []Inv
<1>1. Init => Inv
  BY TypeInit, ClosingInit, RequestsInit DEF Inv
<1>2. Inv /\ [Next]_vars => Inv'
  <2> SUFFICES ASSUME Inv, [Next]_vars PROVE Inv'
    OBVIOUS
  <2>1. CASE Next
    <3>1. TypeOK' /\ Routed' /\ Wakeups' /\ Closing' /\ Requests' /\ Answers'
      BY <2>1, TypeStep, WakeupsStep, ClosingStep, RequestsStep, AnswersStep DEF Inv
    <3>2. NothingLeftBehind'
      BY <2>1, NothingStep DEF Inv, NothingLeftBehind
    <3> QED BY <3>1, <3>2 DEF Inv
  <2>2. CASE UNCHANGED vars
    BY <2>2 DEF vars, kernel, poll, engine, sink, output, work, Inv, TypeOK, Routed, Wakeups, WakeupKept,
                Running, Closing, AfterLoop, Workload, NothingLeftBehind, Requests, Answers
  <2> QED BY <2>1, <2>2
<1> QED BY <1>1, <1>2, PTL DEF Spec

(* Every variable of the loops has its type.                               *)
THEOREM AgentTyped == Spec => []TypeOK
BY AgentInv, PTL DEF Inv

(* No event is stranded in a ring of a running loop (drain_batch).         *)
THEOREM NoLostWakeup == Spec => []WakeupKept
BY AgentInv, PTL DEF Inv, Wakeups

(* A run that ends well has folded, reported and handed over everything.   *)
THEOREM CleanExit == Spec => []NothingLeftBehind
BY AgentInv, PTL DEF Inv

(* The order of the shutdown reports no request as aborted whose answer    *)
(* was queued when the loop ended.                                         *)
THEOREM ServedIsAnswered == Spec => []ServedNotAborted
<1>1. Inv => ServedNotAborted
  BY DEF Inv, Answers, ServedNotAborted, IsAborted
<1> QED BY <1>1, AgentInv, PTL

-----------------------------------------------------------------------------
(* A text of whole lines: the records at some places of a sequence, each   *)
(* followed by its newline.                                                *)
Token == Record \cup {NEWLINE}

IsText(t, E, p) ==
    /\ Len(t) = 2 * Len(p)
    /\ \A k \in DOMAIN p : t[2 * k - 1] = E[p[k]] /\ t[2 * k] = NEWLINE

LEMMA NoRecordIsNewline == NEWLINE \notin Record
BY DEF NEWLINE, Record

LEMMA FunctionIsSeq ==
    ASSUME NEW S, NEW n \in Nat, NEW f \in [1 .. n -> S]
    PROVE  f \in Seq(S) /\ Len(f) = n /\ DOMAIN f = 1 .. n
<1>1. f \in Seq(S)
  BY SeqDef
<1>2. DOMAIN f = 1 .. n
  OBVIOUS
<1> QED BY <1>1, <1>2, LenProperties

LEMMA TextAssociative ==
    ASSUME NEW t \in Seq(Token), NEW u \in Seq(Token), NEW v \in Seq(Token)
    PROVE  (t \o u) \o v = t \o (u \o v)
BY ConcatAssociative

LEMMA TextConcat ==
    ASSUME NEW E, NEW t \in Seq(Token), NEW u \in Seq(Token), NEW p \in Seq(Nat), NEW q \in Seq(Nat),
           IsText(t, E, p), IsText(u, E, q)
    PROVE  IsText(t \o u, E, p \o q)
<1> DEFINE v == t \o u
           r == p \o q
<1>1. /\ Len(t) \in Nat /\ Len(u) \in Nat /\ Len(p) \in Nat /\ Len(q) \in Nat
      /\ Len(t) = 2 * Len(p) /\ Len(u) = 2 * Len(q)
      /\ Len(v) = Len(t) + Len(u) /\ Len(r) = Len(p) + Len(q)
      /\ DOMAIN p = 1 .. Len(p) /\ DOMAIN q = 1 .. Len(q) /\ DOMAIN r = 1 .. Len(p) + Len(q)
  <2>1. /\ Len(t) \in Nat /\ Len(u) \in Nat /\ Len(p) \in Nat /\ Len(q) \in Nat
        /\ Len(t) = 2 * Len(p) /\ Len(u) = 2 * Len(q)
        /\ DOMAIN p = 1 .. Len(p) /\ DOMAIN q = 1 .. Len(q)
    BY LenProperties DEF IsText
  <2>2. r \in Seq(Nat) /\ Len(r) = Len(p) + Len(q) /\ Len(v) = Len(t) + Len(u)
    BY ConcatProperties
  <2> HIDE DEF v, r
  <2> QED BY <2>1, <2>2, LenProperties
<1>2. /\ \A i \in 1 .. Len(t) + Len(u) : v[i] = IF i <= Len(t) THEN t[i] ELSE u[i - Len(t)]
      /\ \A i \in 1 .. Len(p) + Len(q) : r[i] = IF i <= Len(p) THEN p[i] ELSE q[i - Len(p)]
  BY ConcatProperties
<1> HIDE DEF v, r
<1>3. ASSUME NEW k \in DOMAIN r PROVE v[2 * k - 1] = E[r[k]] /\ v[2 * k] = NEWLINE
  <2>1. CASE k <= Len(p)
    <3>0. k \in 1 .. Len(p) + Len(q)
      BY <1>1
    <3>1. k \in DOMAIN p /\ 2 * k - 1 \in 1 .. Len(t) /\ 2 * k \in 1 .. Len(t)
      <4>1. Len(p) \in Nat /\ Len(q) \in Nat /\ Len(t) = 2 * Len(p)
        BY <1>1
      <4>2. k \in 1 .. Len(p)
        BY <2>1, <3>0, <4>1
      <4>3. 2 * k - 1 \in 1 .. Len(t) /\ 2 * k \in 1 .. Len(t)
        BY <4>1, <4>2
      <4>4. DOMAIN p = 1 .. Len(p)
        BY <1>1
      <4> QED BY <4>2, <4>3, <4>4
    <3>2. v[2 * k - 1] = t[2 * k - 1] /\ v[2 * k] = t[2 * k] /\ r[k] = p[k]
      <4>1. r[k] = p[k]
        BY <1>2, <2>1, <3>0
      <4>2. ASSUME NEW i \in 1 .. Len(t) PROVE v[i] = t[i]
        <5>1. i \in 1 .. Len(t) + Len(u) /\ i <= Len(t)
          <6>1. Len(t) \in Nat /\ Len(u) \in Nat
            BY <1>1
          <6> QED BY <6>1
        <5> QED BY <1>2, <5>1
      <4> QED BY <3>1, <4>1, <4>2
    <3> QED BY <3>1, <3>2 DEF IsText
  <2>2. CASE k > Len(p)
    <3> DEFINE j == k - Len(p)
    <3>0. k \in 1 .. Len(p) + Len(q)
      BY <1>1
    <3>1. /\ j \in DOMAIN q
          /\ 2 * k - 1 \in 1 .. Len(t) + Len(u) /\ 2 * k \in 1 .. Len(t) + Len(u)
          /\ ~(2 * k - 1 <= Len(t)) /\ ~(2 * k <= Len(t))
          /\ 2 * k - 1 - Len(t) = 2 * j - 1 /\ 2 * k - Len(t) = 2 * j
      <4>1. Len(p) < k /\ k <= Len(p) + Len(q) /\ k \in Int /\ Len(p) \in Nat /\ Len(q) \in Nat
        BY <1>1, <2>2, <3>0
      <4>2. j \in 1 .. Len(q) /\ DOMAIN q = 1 .. Len(q)
        BY <1>1, <4>1
      <4>3. Len(t) = 2 * Len(p) /\ Len(u) = 2 * Len(q)
        BY <1>1
      <4>4. 2 * k - 1 - Len(t) = 2 * j - 1 /\ 2 * k - Len(t) = 2 * j
        BY <4>1, <4>3
      <4>5. 2 * j - 1 \in 1 .. Len(u) /\ 2 * j \in 1 .. Len(u)
        <5> HIDE DEF j
        <5> QED BY <4>1, <4>2, <4>3
      <4>6. 2 * k - 1 = Len(t) + (2 * j - 1) /\ 2 * k = Len(t) + 2 * j /\ Len(t) \in Nat /\ Len(u) \in Nat
        BY <4>1, <4>3, <1>1
      <4> HIDE DEF j
      <4>7. /\ 2 * k - 1 \in 1 .. Len(t) + Len(u) /\ 2 * k \in 1 .. Len(t) + Len(u)
            /\ ~(2 * k - 1 <= Len(t)) /\ ~(2 * k <= Len(t))
        BY <4>2, <4>5, <4>6
      <4> QED BY <4>2, <4>4, <4>7
    <3>2. v[2 * k - 1] = u[2 * j - 1] /\ v[2 * k] = u[2 * j]
      BY <1>2, <3>1
    <3>3. r[k] = q[j]
      BY <1>1, <1>2, <2>2, <3>0
    <3> HIDE DEF j
    <3> QED BY <3>1, <3>2, <3>3 DEF IsText
  <2> QED BY <1>1, <2>1, <2>2
<1>4. IsText(v, E, r)
  BY <1>1, <1>3 DEF IsText
<1> QED BY <1>4 DEF v, r

LEMMA TextGrow ==
    ASSUME NEW E \in Seq(Record), NEW F \in Seq(Record), NEW t, NEW p \in Seq(DOMAIN E), IsText(t, E, p)
    PROVE  /\ IsText(t, E \o F, p)
           /\ p \in Seq(DOMAIN (E \o F))
<1> DEFINE G == E \o F
<1>1. /\ Len(E) \in Nat /\ Len(F) \in Nat /\ DOMAIN E = 1 .. Len(E) /\ DOMAIN G = 1 .. Len(E) + Len(F)
      /\ \A i \in 1 .. Len(E) : G[i] = E[i]
  BY ConcatProperties, LenProperties
<1> HIDE DEF G
<1>2. Len(p) \in Nat /\ p \in [1 .. Len(p) -> DOMAIN E] /\ DOMAIN p = 1 .. Len(p)
  BY LenProperties
<1>3. \A k \in DOMAIN p : p[k] \in 1 .. Len(E) /\ p[k] \in DOMAIN G
  BY <1>1, <1>2
<1>4. IsText(t, G, p)
  BY <1>1, <1>3 DEF IsText
<1>5. p \in [1 .. Len(p) -> DOMAIN G]
  BY <1>2, <1>3
<1>6. p \in Seq(DOMAIN G)
  BY <1>2, <1>5, FunctionIsSeq
<1> QED BY <1>4, <1>6 DEF G

LEMMA TextFragments ==
    ASSUME ~Workload, NEW E \in Seq(Record), NEW F \in Seq(Record)
    PROVE  LET p == [i \in 1 .. Len(F) |-> Len(E) + i]
           IN  p \in Seq(DOMAIN (E \o F)) /\ Len(p) = Len(F) /\ IsText(Fragments(F), E \o F, p)
<1> DEFINE G == E \o F
           p == [i \in 1 .. Len(F) |-> Len(E) + i]
           n == 2 * Len(F)
           t == [i \in 1 .. n |-> IF i % 2 = 1 THEN F[(i + 1) \div 2] ELSE NEWLINE]
<1>1. /\ Len(E) \in Nat /\ Len(F) \in Nat /\ n \in Nat
      /\ DOMAIN G = 1 .. Len(E) + Len(F)
      /\ \A i \in 1 .. Len(F) : G[Len(E) + i] = F[i]
  <2>1. /\ Len(E) \in Nat /\ Len(F) \in Nat
        /\ DOMAIN G = 1 .. Len(E) + Len(F)
        /\ \A i \in 1 .. Len(E) + Len(F) : G[i] = IF i <= Len(E) THEN E[i] ELSE F[i - Len(E)]
    BY ConcatProperties, LenProperties
  <2> HIDE DEF G
  <2> QED BY <2>1
<1> HIDE DEF G
<1>2. p \in [1 .. Len(F) -> DOMAIN G]
  BY <1>1
<1>3. p \in Seq(DOMAIN G) /\ Len(p) = Len(F) /\ DOMAIN p = 1 .. Len(F)
  <2>1. DOMAIN p = 1 .. Len(F)
    OBVIOUS
  <2> HIDE DEF p
  <2>2. p \in Seq(DOMAIN G)
    BY <1>1, <1>2, SeqDef
  <2> QED BY <1>1, <2>1, <2>2, LenProperties
<1>4. Fragments(F) = t /\ DOMAIN t = 1 .. n
  BY DEF Fragments
<1>5. Len(t) = n
  <2>1. t \in Seq(Token)
    BY <1>4, FragmentsTyped DEF Token
  <2> HIDE DEF t
  <2> QED BY <1>1, <1>4, <2>1, LenProperties
<1>6. ASSUME NEW k \in DOMAIN p PROVE t[2 * k - 1] = G[p[k]] /\ t[2 * k] = NEWLINE
  <2>1. /\ 2 * k - 1 \in 1 .. n /\ 2 * k \in 1 .. n
        /\ (2 * k - 1) % 2 = 1 /\ (2 * k) % 2 # 1 /\ (2 * k - 1 + 1) \div 2 = k
    BY <1>1, <1>3
  <2>2. t[2 * k - 1] = F[k] /\ t[2 * k] = NEWLINE
    BY <2>1
  <2>3. G[p[k]] = F[k]
    BY <1>1, <1>3
  <2> QED BY <2>2, <2>3
<1> HIDE DEF t
<1>7. IsText(t, G, p)
  BY <1>3, <1>5, <1>6 DEF IsText
<1> QED BY <1>3, <1>4, <1>7 DEF G

LEMMA Halves ==
    ASSUME NEW i \in Nat \ {0}
    PROVE  \/ \E k \in Nat \ {0} : i = 2 * k - 1
           \/ \E k \in Nat \ {0} : i = 2 * k
<1>1. CASE i % 2 = 0
  <2>1. i \div 2 \in Nat \ {0} /\ i = 2 * (i \div 2)
    BY <1>1
  <2> QED BY <2>1
<1>2. CASE i % 2 = 1
  <2>1. (i + 1) \div 2 \in Nat \ {0} /\ i = 2 * ((i + 1) \div 2) - 1
    BY <1>2
  <2> QED BY <2>1
<1> QED BY <1>1, <1>2

(* The newlines of a text of whole lines are at its even places.           *)
LEMMA NewlinesEven ==
    ASSUME NEW E \in Seq(Record), NEW t \in Seq(Token), NEW p \in Seq(DOMAIN E), IsText(t, E, p)
    PROVE  \A i \in DOMAIN t : t[i] = NEWLINE <=> \E k \in 1 .. Len(p) : i = 2 * k
<1>1. /\ Len(p) \in Nat /\ Len(t) \in Nat /\ DOMAIN t = 1 .. Len(t) /\ Len(t) = 2 * Len(p)
      /\ DOMAIN p = 1 .. Len(p) /\ \A k \in 1 .. Len(p) : p[k] \in DOMAIN E
      /\ \A x \in DOMAIN E : E[x] \in Record
  BY LenProperties DEF IsText
<1> SUFFICES ASSUME NEW i \in DOMAIN t PROVE t[i] = NEWLINE <=> \E k \in 1 .. Len(p) : i = 2 * k
  OBVIOUS
<1>2. i \in Nat \ {0} /\ i <= Len(t)
  BY <1>1
<1>3. ASSUME NEW k \in Nat \ {0}, i = 2 * k - 1 PROVE t[i] # NEWLINE /\ \A j \in 1 .. Len(p) : i # 2 * j
  <2>1. k \in 1 .. Len(p) /\ \A j \in 1 .. Len(p) : 2 * k - 1 # 2 * j
    BY <1>1, <1>2, <1>3
  <2>2. t[2 * k - 1] = E[p[k]] /\ E[p[k]] \in Record
    BY <1>1, <2>1 DEF IsText
  <2> QED BY <1>3, <2>1, <2>2, NoRecordIsNewline
<1>4. ASSUME NEW k \in Nat \ {0}, i = 2 * k PROVE t[i] = NEWLINE /\ k \in 1 .. Len(p)
  <2>1. k \in 1 .. Len(p)
    BY <1>1, <1>2, <1>4
  <2> QED BY <1>1, <1>4, <2>1 DEF IsText
<1> QED BY <1>2, <1>3, <1>4, Halves

LEMMA LastNewlineIs ==
    ASSUME NEW t \in Seq(Token), NEW n \in Nat,
           \A i \in DOMAIN t : t[i] = NEWLINE <=> \E k \in 1 .. n : i = 2 * k,
           LastNewline(t) > 0
    PROVE  LastNewline(t) \in DOMAIN t /\ t[LastNewline(t)] = NEWLINE
<1> DEFINE I == { i \in 1 .. Len(t) : t[i] = NEWLINE }
           m == 2 * (Len(t) \div 2)
<1>1. DOMAIN t = 1 .. Len(t) /\ Len(t) \in Nat
  BY LenProperties
<1>2. LastNewline(t) = IF I # {} THEN Max(I) ELSE 0
  BY DEF LastNewline, SelectLastInSeq
<1>3. I # {} /\ LastNewline(t) = CHOOSE x \in I : \A y \in I : x >= y
  <2> HIDE DEF I
  <2>1. I # {}
    BY <1>2
  <2>2. LastNewline(t) = Max(I)
    BY <1>2, <2>1
  <2> QED BY <2>1, <2>2 DEF Max
<1>4. \E x \in I : \A y \in I : x >= y
  <2>1. PICK i \in I : TRUE
    BY <1>3
  <2>2. PICK k \in 1 .. n : i = 2 * k
    BY <1>1
  <2>3. i \in 1 .. Len(t) /\ Len(t) \div 2 \in Nat /\ k <= Len(t) \div 2 /\ m <= Len(t) /\ m \in 1 .. Len(t)
    BY <1>1, <2>1, <2>2
  <2>4. ASSUME NEW y \in I PROVE y <= m
    <3>1. PICK j \in 1 .. n : y = 2 * j
      BY <1>1
    <3>2. y \in 1 .. Len(t)
      OBVIOUS
    <3> QED BY <1>1, <3>1, <3>2
  <2>5. PICK x \in I : \A y \in I : x >= y
    <3>1. CASE m \in I
      BY <2>3, <2>4, <3>1
    <3>2. CASE m \notin I
      <4>1. ~\E j \in 1 .. n : m = 2 * j
        BY <1>1, <2>3, <3>2
      <4>2. Len(t) \div 2 > n
        BY <2>3, <4>1
      <4>3. n \in Nat \ {0} /\ 2 * n \in 1 .. Len(t)
        BY <1>1, <2>2, <2>3, <4>2
      <4>4. 2 * n \in I
        BY <1>1, <4>3
      <4>5. ASSUME NEW y \in I PROVE y <= 2 * n
        <5>1. PICK j \in 1 .. n : y = 2 * j
          BY <1>1
        <5> QED BY <5>1
      <4> QED BY <4>3, <4>4, <4>5
    <3> QED BY <3>1, <3>2
  <2> QED BY <2>5
<1>5. LastNewline(t) \in I
  BY <1>3, <1>4
<1> QED BY <1>1, <1>5

LEMMA Split ==
    ASSUME NEW S, NEW t \in Seq(S), NEW c \in 1 .. Len(t)
    PROVE  /\ SubSeq(t, 1, c) \in Seq(S) /\ Len(SubSeq(t, 1, c)) = c
           /\ SubSeq(t, c + 1, Len(t)) \in Seq(S)
           /\ t = SubSeq(t, 1, c) \o SubSeq(t, c + 1, Len(t))
<1>1. Len(t) \in Nat /\ c \in Nat /\ 1 <= c /\ c <= Len(t) /\ \A i \in 1 .. Len(t) : t[i] \in S
  BY LenProperties, ElementOfSeq
<1>2. SubSeq(t, 1, c) \in Seq(S) /\ Len(SubSeq(t, 1, c)) = c
  <2>1. 1 \in Int /\ c \in Int /\ \A i \in 1 .. c : t[i] \in S
    BY <1>1
  <2>2. Len(SubSeq(t, 1, c)) = IF 1 <= c THEN c - 1 + 1 ELSE 0
    BY <2>1, SubSeqProperties
  <2> QED BY <1>1, <2>1, <2>2, SubSeqProperties
<1>3. SubSeq(t, c + 1, Len(t)) \in Seq(S)
  <2>1. c + 1 \in Int /\ Len(t) \in Int /\ \A i \in c + 1 .. Len(t) : t[i] \in S
    BY <1>1
  <2> QED BY <2>1, SubSeqProperties
<1>4. SubSeq(t, 1, c) \o SubSeq(t, c + 1, Len(t)) = SubSeq(t, 1, Len(t))
  <2>1. 1 \in 1 .. Len(t) + 1 /\ c \in 1 - 1 .. Len(t) /\ Len(t) \in c .. Len(t)
    BY <1>1
  <2> QED BY <2>1, ConcatAdjacentSubSeq
<1> QED BY <1>2, <1>3, <1>4, SubSeqFull

LEMMA TextSplit ==
    ASSUME NEW E, NEW t \in Seq(Token), NEW u \in Seq(Token), NEW S, NEW p \in Seq(S), NEW q \in Seq(S),
           IsText(t \o u, E, p \o q), Len(t) = 2 * Len(p)
    PROVE  IsText(t, E, p) /\ IsText(u, E, q)
<1> DEFINE v == t \o u
           r == p \o q
<1>1. /\ Len(t) \in Nat /\ Len(u) \in Nat /\ Len(p) \in Nat /\ Len(q) \in Nat
      /\ DOMAIN p = 1 .. Len(p) /\ DOMAIN q = 1 .. Len(q)
  BY LenProperties
<1>2. /\ Len(v) = Len(t) + Len(u) /\ Len(r) = Len(p) + Len(q) /\ r \in Seq(S)
      /\ \A i \in 1 .. Len(t) + Len(u) : v[i] = IF i <= Len(t) THEN t[i] ELSE u[i - Len(t)]
      /\ \A i \in 1 .. Len(p) + Len(q) : r[i] = IF i <= Len(p) THEN p[i] ELSE q[i - Len(p)]
  BY ConcatProperties
<1>3. IsText(v, E, r)
  OBVIOUS
<1> HIDE DEF v, r
<1>4. DOMAIN r = 1 .. Len(p) + Len(q)
  BY <1>2, LenProperties
<1>5. Len(u) = 2 * Len(q)
  BY <1>1, <1>2, <1>3 DEF IsText
<1>6. ASSUME NEW k \in DOMAIN p PROVE t[2 * k - 1] = E[p[k]] /\ t[2 * k] = NEWLINE
  <2>1. /\ k \in 1 .. Len(p) + Len(q) /\ k <= Len(p)
        /\ 2 * k - 1 \in 1 .. Len(t) /\ 2 * k \in 1 .. Len(t)
    BY <1>1
  <2>2. \A i \in 1 .. Len(t) : v[i] = t[i]
    BY <1>1, <1>2
  <2>3. v[2 * k - 1] = E[r[k]] /\ v[2 * k] = NEWLINE /\ r[k] = p[k]
    BY <1>2, <1>3, <1>4, <2>1 DEF IsText
  <2> QED BY <2>1, <2>2, <2>3
<1>7. ASSUME NEW k \in DOMAIN q PROVE u[2 * k - 1] = E[q[k]] /\ u[2 * k] = NEWLINE
  <2> DEFINE j == Len(p) + k
  <2>1. k \in Nat /\ 1 <= k /\ k <= Len(q)
    BY <1>1
  <2>2. j \in 1 .. Len(p) + Len(q) /\ ~(j <= Len(p)) /\ j - Len(p) = k
    BY <1>1, <2>1
  <2>3. 2 * k - 1 \in 1 .. Len(u) /\ 2 * k \in 1 .. Len(u)
    BY <1>1, <1>5, <2>1
  <2>4. \A i \in 1 .. Len(u) : v[Len(t) + i] = u[i]
    <3> SUFFICES ASSUME NEW i \in 1 .. Len(u) PROVE v[Len(t) + i] = u[i]
      OBVIOUS
    <3>1. Len(t) + i \in 1 .. Len(t) + Len(u) /\ ~(Len(t) + i <= Len(t)) /\ Len(t) + i - Len(t) = i
      <4>1. Len(t) \in Nat /\ Len(u) \in Nat
        BY <1>1
      <4> QED BY <4>1
    <3> QED BY <1>2, <3>1
  <2>5. Len(t) + (2 * k - 1) = 2 * j - 1 /\ Len(t) + 2 * k = 2 * j
    BY <1>1, <2>1
  <2>6. r[j] = q[k]
    BY <1>2, <2>2
  <2> HIDE DEF j
  <2>7. v[2 * j - 1] = E[r[j]] /\ v[2 * j] = NEWLINE
    BY <1>3, <1>4, <2>2 DEF IsText
  <2> QED BY <2>3, <2>4, <2>5, <2>6, <2>7
<1> QED BY <1>5, <1>6, <1>7 DEF IsText

CutInto(E, p, t, u) ==
    \E a, b \in Seq(DOMAIN E) : p = a \o b /\ IsText(t, E, a) /\ IsText(u, E, b)

(* Cutting at the last newline leaves whole lines on both sides.           *)
LEMMA TextCut ==
    ASSUME NEW E \in Seq(Record), NEW t \in Seq(Token), NEW u \in Seq(Token), NEW p \in Seq(DOMAIN E),
           IsText(t \o u, E, p), LastNewline(t) > 0
    PROVE  LET c == LastNewline(t)
           IN  /\ SubSeq(t, 1, c) \in Seq(Token) /\ SubSeq(t, c + 1, Len(t)) \in Seq(Token)
               /\ CutInto(E, p, SubSeq(t, 1, c), SubSeq(t, c + 1, Len(t)) \o u)
<1> DEFINE v == t \o u
           c == LastNewline(t)
<1>1. /\ v \in Seq(Token) /\ Len(v) = Len(t) + Len(u)
      /\ \A i \in 1 .. Len(t) + Len(u) : v[i] = IF i <= Len(t) THEN t[i] ELSE u[i - Len(t)]
      /\ IsText(v, E, p)
  BY ConcatProperties
<1> HIDE DEF v
<1>2. /\ Len(t) \in Nat /\ Len(u) \in Nat /\ Len(p) \in Nat
      /\ DOMAIN t = 1 .. Len(t) /\ DOMAIN v = 1 .. Len(t) + Len(u)
  BY <1>1, LenProperties
<1>3. \A i \in DOMAIN t : i \in DOMAIN v /\ v[i] = t[i]
  BY <1>1, <1>2
<1>4. \A i \in DOMAIN t : t[i] = NEWLINE <=> \E k \in 1 .. Len(p) : i = 2 * k
  BY <1>1, <1>3, NewlinesEven
<1>5. c \in DOMAIN t /\ t[c] = NEWLINE
  BY <1>2, <1>4, LastNewlineIs
<1> HIDE DEF c
<1>6. PICK n \in 1 .. Len(p) : c = 2 * n
  BY <1>4, <1>5
<1> DEFINE chunk == SubSeq(t, 1, c)
           rest == SubSeq(t, c + 1, Len(t))
           a == SubSeq(p, 1, n)
           b == SubSeq(p, n + 1, Len(p))
<1>7. chunk \in Seq(Token) /\ Len(chunk) = c /\ rest \in Seq(Token) /\ t = chunk \o rest
  BY <1>2, <1>5, Split
<1>8. a \in Seq(DOMAIN E) /\ Len(a) = n /\ b \in Seq(DOMAIN E) /\ p = a \o b
  BY Split
<1> HIDE DEF chunk, rest, a, b
<1>9. v = chunk \o (rest \o u) /\ rest \o u \in Seq(Token)
  <2>1. rest \o u \in Seq(Token)
    BY <1>7, ConcatProperties
  <2>2. (chunk \o rest) \o u = chunk \o (rest \o u)
    <3>1. chunk \in Seq(Token) /\ rest \in Seq(Token)
      BY <1>7
    <3> QED BY <3>1, TextAssociative
  <2> QED BY <1>7, <2>1, <2>2 DEF v
<1>10. IsText(chunk, E, a) /\ IsText(rest \o u, E, b)
  BY <1>1, <1>6, <1>7, <1>8, <1>9, TextSplit
<1> QED BY <1>7, <1>8, <1>10 DEF CutInto, c, chunk, rest, a, b

LEMMA Evens ==
    ASSUME NEW n \in Nat
    PROVE  Cardinality({ 2 * i : i \in 1 .. n }) = n
<1> DEFINE S == { 2 * i : i \in 1 .. n }
           f == [i \in 1 .. n |-> 2 * i]
<1>1. f \in [1 .. n -> S]
  OBVIOUS
<1>2. f \in Injection(1 .. n, S)
  <2>1. \A a, b \in 1 .. n : f[a] = f[b] => a = b
    OBVIOUS
  <2> HIDE DEF f, S
  <2> QED BY <1>1, <2>1 DEF Injection, IsInjective
<1>3. f \in Surjection(1 .. n, S)
  <2>1. \A s \in S : \E i \in 1 .. n : f[i] = s
    OBVIOUS
  <2> HIDE DEF f, S
  <2> QED BY <1>1, <2>1 DEF Surjection
<1>4. ExistsBijection(1 .. n, S)
  BY <1>2, <1>3 DEF ExistsBijection, Bijection
<1> QED BY <1>4, FS_CountingElements

(* The lines of a text of whole lines are its records.                     *)
LEMMA TextLines ==
    ASSUME NEW E \in Seq(Record), NEW t \in Seq(Token), NEW p \in Seq(DOMAIN E), IsText(t, E, p)
    PROVE  LinesIn(t) = [k \in DOMAIN p |-> <<E[p[k]]>>]
<1> DEFINE n == Len(p)
           N == Newlines(t)
           upto(i) == { j \in N : j <= i }
           end(k) == CHOOSE i \in N : Cardinality(upto(i)) = k
           start(k) == IF k = 1 THEN 1 ELSE end(k - 1) + 1
<1>1. /\ n \in Nat /\ DOMAIN p = 1 .. n /\ DOMAIN t = 1 .. 2 * n /\ Len(t) = 2 * n
      /\ \A k \in 1 .. n : t[2 * k - 1] = E[p[k]] /\ t[2 * k] = NEWLINE
  BY LenProperties DEF IsText
<1>2. \A i \in 1 .. 2 * n : t[i] = NEWLINE <=> \E k \in 1 .. n : i = 2 * k
  <2>1. \A i \in DOMAIN t : t[i] = NEWLINE <=> \E k \in 1 .. Len(p) : i = 2 * k
    BY NewlinesEven
  <2> QED BY <1>1, <2>1
<1> HIDE DEF n
<1>3. N = { 2 * i : i \in 1 .. n }
  <2>1. \A i \in 1 .. n : 2 * i \in 1 .. 2 * n
    BY <1>1
  <2> QED BY <1>1, <1>2, <2>1 DEF Newlines
<1>4. Cardinality(N) = n
  BY <1>1, <1>3, Evens
<1> HIDE DEF N
<1>5. ASSUME NEW k \in 1 .. n PROVE Cardinality(upto(2 * k)) = k /\ 2 * k \in N
  <2>1. upto(2 * k) = { 2 * i : i \in 1 .. k }
    <3>1. ASSUME NEW j \in upto(2 * k) PROVE j \in { 2 * i : i \in 1 .. k }
      <4>1. PICK i \in 1 .. n : j = 2 * i
        BY <1>3
      <4>2. i \in 1 .. k
        BY <1>1, <4>1
      <4> QED BY <4>1, <4>2
    <3>2. ASSUME NEW i \in 1 .. k PROVE 2 * i \in upto(2 * k)
      <4>1. i \in 1 .. n /\ 2 * i <= 2 * k
        BY <1>1
      <4> QED BY <1>3, <4>1
    <3> QED BY <3>1, <3>2
  <2>2. k \in Nat /\ 2 * k \in N
    <3>1. k \in Nat
      BY <1>1
    <3> HIDE DEF n
    <3> QED BY <1>3, <3>1
  <2> HIDE DEF upto
  <2> QED BY <2>1, <2>2, Evens
<1> HIDE DEF upto
<1>6. ASSUME NEW k \in 1 .. n PROVE end(k) = 2 * k
  <2>1. end(k) \in N /\ Cardinality(upto(end(k))) = k
    BY <1>5
  <2>2. PICK i \in 1 .. n : end(k) = 2 * i
    BY <1>3, <2>1
  <2> HIDE DEF end
  <2>3. i = k
    BY <1>5, <2>1, <2>2
  <2> QED BY <2>2, <2>3
<1> HIDE DEF end
<1>7. ASSUME NEW k \in 1 .. n PROVE SubSeq(t, start(k), end(k) - 1) = <<E[p[k]]>>
  <2>1. start(k) = 2 * k - 1 /\ end(k) - 1 = 2 * k - 1
    <3>1. CASE k = 1
      BY <1>6, <3>1
    <3>2. CASE k # 1
      <4>1. k - 1 \in 1 .. n
        BY <1>1, <3>2
      <4>2. end(k - 1) = 2 * (k - 1)
        BY <1>6, <4>1
      <4> QED BY <1>1, <1>6, <3>2, <4>2
    <3> QED BY <3>1, <3>2
  <2> DEFINE m == 2 * k - 1
  <2>2. m \in Int /\ m \in 1 .. 2 * n /\ m + 1 - 1 = m /\ m - m + 1 = 1
    BY <1>1
  <2>3. t[m] = E[p[k]]
    BY <1>1
  <2>4. \A i \in m .. m : t[i] \in Token
    BY <1>1, <2>2, ElementOfSeq
  <2> HIDE DEF m
  <2>5. /\ SubSeq(t, m, m) \in Seq(Token) /\ Len(SubSeq(t, m, m)) = 1
        /\ \A i \in 1 .. 1 : SubSeq(t, m, m)[i] = t[m + i - 1]
    BY <2>2, <2>4, SubSeqProperties
  <2>6. SubSeq(t, m, m)[1] = E[p[k]]
    BY <2>2, <2>3, <2>5
  <2> DEFINE q == SubSeq(t, m, m)
  <2>7. q \in Seq(Token) /\ Len(q) = 1 /\ q[1] = E[p[k]]
    BY <2>5, <2>6
  <2> HIDE DEF q
  <2>8. q = <<E[p[k]]>>
    <3>1. q \in [1 .. 1 -> Token]
      BY <2>7, LenProperties
    <3>2. q = [i \in 1 .. 1 |-> E[p[k]]]
      BY <2>7, <3>1
    <3> QED BY <3>2
  <2> QED BY <2>1, <2>8 DEF q, m
<1>8. LinesIn(t) = [k \in 1 .. Cardinality(N) |-> SubSeq(t, start(k), end(k) - 1)]
  BY DEF LinesIn, N, start, end, upto
<1> HIDE DEF start
<1> QED BY <1>1, <1>4, <1>7, <1>8

-----------------------------------------------------------------------------
(* The places of the lines that the reader has (s), that are queued (q, by *)
(* chunk), that are still with the sink or the fold (r), that are dropped  *)
(* (d).                                                                    *)
Rising(p) == \A i, j \in DOMAIN p : i < j => p[i] < p[j]
Ahead(p, q) == \A x \in Range(p), y \in Range(q) : x < y
Queued(x, q) == \E k \in DOMAIN q : x \in Range(q[k])

InSequence(s, q, r) ==
    /\ Rising(s) /\ Rising(r) /\ Ahead(s, r)
    /\ \A k \in DOMAIN q : Rising(q[k]) /\ Ahead(s, q[k]) /\ Ahead(q[k], r)
    /\ \A k, l \in DOMAIN q : k < l => Ahead(q[k], q[l])

Apart(s, d, q, r) ==
    \A x \in Range(d) : x \notin Range(s) /\ x \notin Range(r) /\ ~Queued(x, q)

Covers(n, s, d, q, r) ==
    \A x \in 1 .. n : x \in Range(s) \/ x \in Range(d) \/ x \in Range(r) \/ Queued(x, q)

LEMMA RangeConcat ==
    ASSUME NEW S, NEW p \in Seq(S), NEW q \in Seq(S)
    PROVE  Range(p \o q) = Range(p) \cup Range(q)
<1> DEFINE r == p \o q
<1>1. /\ Len(p) \in Nat /\ Len(q) \in Nat /\ DOMAIN p = 1 .. Len(p) /\ DOMAIN q = 1 .. Len(q)
      /\ DOMAIN r = 1 .. Len(p) + Len(q)
      /\ \A i \in 1 .. Len(p) + Len(q) : r[i] = IF i <= Len(p) THEN p[i] ELSE q[i - Len(p)]
  <2>1. r \in Seq(S) /\ Len(r) = Len(p) + Len(q)
    BY ConcatProperties
  <2>2. \A i \in 1 .. Len(p) + Len(q) : r[i] = IF i <= Len(p) THEN p[i] ELSE q[i - Len(p)]
    BY ConcatProperties
  <2> HIDE DEF r
  <2> QED BY <2>1, <2>2, LenProperties
<1> HIDE DEF r
<1>2. ASSUME NEW x \in Range(r) PROVE x \in Range(p) \cup Range(q)
  <2>1. PICK i \in 1 .. Len(p) + Len(q) : x = r[i]
    BY <1>1 DEF Range
  <2>2. CASE i <= Len(p)
    <3>1. i \in DOMAIN p /\ x = p[i]
      BY <1>1, <2>1, <2>2
    <3> QED BY <3>1 DEF Range
  <2>3. CASE ~(i <= Len(p))
    <3>1. i - Len(p) \in DOMAIN q /\ x = q[i - Len(p)]
      BY <1>1, <2>1, <2>3
    <3> QED BY <3>1 DEF Range
  <2> QED BY <2>2, <2>3
<1>3. ASSUME NEW x \in Range(p) PROVE x \in Range(r)
  <2>1. PICK i \in 1 .. Len(p) : x = p[i]
    BY <1>1 DEF Range
  <2>2. i \in DOMAIN r /\ r[i] = x
    BY <1>1, <2>1
  <2> QED BY <2>2 DEF Range
<1>4. ASSUME NEW x \in Range(q) PROVE x \in Range(r)
  <2>1. PICK i \in 1 .. Len(q) : x = q[i]
    BY <1>1 DEF Range
  <2>2. Len(p) + i \in DOMAIN r /\ ~(Len(p) + i <= Len(p)) /\ Len(p) + i - Len(p) = i
    BY <1>1
  <2>3. r[Len(p) + i] = x
    BY <1>1, <2>1, <2>2
  <2> QED BY <2>2, <2>3 DEF Range
<1>5. Range(r) = Range(p) \cup Range(q)
  BY <1>2, <1>3, <1>4
<1> QED BY <1>5 DEF r

LEMMA RisingConcat ==
    ASSUME NEW S \in SUBSET Nat, NEW p \in Seq(S), NEW q \in Seq(S)
    PROVE  Rising(p \o q) <=> Rising(p) /\ Rising(q) /\ Ahead(p, q)
<1> DEFINE r == p \o q
<1>1. /\ Len(p) \in Nat /\ Len(q) \in Nat /\ DOMAIN p = 1 .. Len(p) /\ DOMAIN q = 1 .. Len(q)
      /\ DOMAIN r = 1 .. Len(p) + Len(q)
      /\ \A i \in 1 .. Len(p) : r[i] = p[i]
      /\ \A i \in 1 .. Len(q) : r[Len(p) + i] = q[i]
  <2>1. r \in Seq(S) /\ Len(r) = Len(p) + Len(q) /\ Len(p) \in Nat /\ Len(q) \in Nat
    BY ConcatProperties, LenProperties
  <2>2. \A i \in 1 .. Len(p) + Len(q) : r[i] = IF i <= Len(p) THEN p[i] ELSE q[i - Len(p)]
    BY ConcatProperties
  <2> HIDE DEF r
  <2>3. \A i \in 1 .. Len(p) : r[i] = p[i]
    BY <2>1, <2>2
  <2>4. ASSUME NEW i \in 1 .. Len(q) PROVE r[Len(p) + i] = q[i]
    <3>1. Len(p) + i \in 1 .. Len(p) + Len(q) /\ ~(Len(p) + i <= Len(p)) /\ Len(p) + i - Len(p) = i
      BY <2>1
    <3> QED BY <2>2, <3>1
  <2> QED BY <2>1, <2>3, <2>4, LenProperties
<1> HIDE DEF r
<1>2. ASSUME Rising(r) PROVE Rising(p) /\ Rising(q) /\ Ahead(p, q)
  <2>1. Rising(p)
    BY <1>1, <1>2 DEF Rising
  <2>2. ASSUME NEW i \in 1 .. Len(q), NEW j \in 1 .. Len(q), i < j PROVE q[i] < q[j]
    <3>1. Len(p) + i \in DOMAIN r /\ Len(p) + j \in DOMAIN r /\ Len(p) + i < Len(p) + j
      BY <1>1, <2>2
    <3> QED BY <1>1, <1>2, <3>1 DEF Rising
  <2>3. ASSUME NEW i \in 1 .. Len(p), NEW j \in 1 .. Len(q) PROVE p[i] < q[j]
    <3>1. i \in DOMAIN r /\ Len(p) + j \in DOMAIN r /\ i < Len(p) + j
      BY <1>1
    <3> QED BY <1>1, <1>2, <3>1 DEF Rising
  <2> QED BY <1>1, <2>1, <2>2, <2>3 DEF Rising, Ahead, Range
<1>3. ASSUME Rising(p), Rising(q), Ahead(p, q) PROVE Rising(r)
  <2> SUFFICES ASSUME NEW i \in DOMAIN r, NEW j \in DOMAIN r, i < j PROVE r[i] < r[j]
    BY DEF Rising
  <2>1. \A x \in DOMAIN r : x \in 1 .. Len(p) \/ \E y \in 1 .. Len(q) : x = Len(p) + y
    <3> SUFFICES ASSUME NEW x \in DOMAIN r, x \notin 1 .. Len(p)
                 PROVE  \E y \in 1 .. Len(q) : x = Len(p) + y
      OBVIOUS
    <3>1. x - Len(p) \in 1 .. Len(q) /\ x = Len(p) + (x - Len(p))
      BY <1>1
    <3> QED BY <3>1
  <2>2. CASE i \in 1 .. Len(p) /\ j \in 1 .. Len(p)
    BY <1>1, <1>3, <2>2 DEF Rising
  <2>3. CASE i \in 1 .. Len(p) /\ j \notin 1 .. Len(p)
    <3>1. PICK y \in 1 .. Len(q) : j = Len(p) + y
      BY <2>1, <2>3
    <3>2. r[i] = p[i] /\ r[j] = q[y] /\ p[i] \in Range(p) /\ q[y] \in Range(q)
      BY <1>1, <2>3, <3>1 DEF Range
    <3> QED BY <1>3, <3>2 DEF Ahead
  <2>4. CASE i \notin 1 .. Len(p)
    <3>1. PICK x \in 1 .. Len(q) : i = Len(p) + x
      BY <2>1, <2>4
    <3>2. j \notin 1 .. Len(p)
      BY <1>1, <3>1
    <3>3. PICK y \in 1 .. Len(q) : j = Len(p) + y
      BY <2>1, <3>2
    <3>4. x < y
      BY <1>1, <3>1, <3>3
    <3> QED BY <1>1, <1>3, <3>1, <3>3, <3>4 DEF Rising
  <2> QED BY <2>2, <2>3, <2>4
<1> QED BY <1>2, <1>3 DEF r

LEMMA RangeIn ==
    ASSUME NEW S, NEW p \in Seq(S)
    PROVE  Range(p) \subseteq S
BY ElementOfSeq, LenProperties DEF Range

LEMMA RisingNew ==
    ASSUME NEW m \in Nat, NEW n \in Nat
    PROVE  LET p == [i \in 1 .. n |-> m + i]
           IN  Rising(p) /\ Range(p) = m + 1 .. m + n
<1> DEFINE p == [i \in 1 .. n |-> m + i]
<1>1. Rising(p)
  BY DEF Rising
<1>2. ASSUME NEW x \in m + 1 .. m + n PROVE x \in Range(p)
  <2>1. x - m \in DOMAIN p /\ p[x - m] = x
    OBVIOUS
  <2> QED BY <2>1 DEF Range
<1>3. \A x \in Range(p) : x \in m + 1 .. m + n
  BY DEF Range
<1> QED BY <1>1, <1>2, <1>3
(* A chunk is cut off the front of the text at hand.                       *)
LEMMA SendKeeps ==
    ASSUME NEW S \in SUBSET Nat, NEW s \in Seq(S), NEW d \in Seq(S), NEW q \in Seq(Seq(S)),
           NEW a \in Seq(S), NEW b \in Seq(S),
           InSequence(s, q, a \o b), Apart(s, d, q, a \o b)
    PROVE  /\ Append(q, a) \in Seq(Seq(S))
           /\ InSequence(s, Append(q, a), b)
           /\ Apart(s, d, Append(q, a), b)
           /\ \A n : Covers(n, s, d, q, a \o b) => Covers(n, s, d, Append(q, a), b)
<1> DEFINE h == Append(q, a)
<1>1. /\ h \in Seq(Seq(S)) /\ Len(q) \in Nat /\ DOMAIN q = 1 .. Len(q) /\ DOMAIN h = 1 .. Len(q) + 1
      /\ h[Len(q) + 1] = a /\ \A k \in 1 .. Len(q) : h[k] = q[k]
  <2>1. h \in Seq(Seq(S)) /\ Len(h) = Len(q) + 1 /\ h[Len(q) + 1] = a /\ \A k \in 1 .. Len(q) : h[k] = q[k]
    BY AppendProperties
  <2> HIDE DEF h
  <2> QED BY <2>1, LenProperties
<1> HIDE DEF h
<1>2. Range(a \o b) = Range(a) \cup Range(b)
  BY RangeConcat
<1>3. Rising(a) /\ Rising(b) /\ Ahead(a, b)
  BY RisingConcat DEF InSequence
<1>4. Ahead(s, a) /\ Ahead(s, b) /\ \A k \in 1 .. Len(q) : Ahead(q[k], a) /\ Ahead(q[k], b)
  BY <1>1, <1>2 DEF InSequence, Ahead
<1>5. \A k \in 1 .. Len(q) : Rising(q[k]) /\ Ahead(s, q[k])
  BY <1>1 DEF InSequence
<1>6. \A k \in DOMAIN h : k \in 1 .. Len(q) \/ k = Len(q) + 1
  BY <1>1
<1>7. \A k \in DOMAIN h : Rising(h[k]) /\ Ahead(s, h[k]) /\ Ahead(h[k], b)
  BY <1>1, <1>3, <1>4, <1>5, <1>6
<1>8. ASSUME NEW k \in DOMAIN h, NEW l \in DOMAIN h, k < l PROVE Ahead(h[k], h[l])
  <2>1. CASE l \in 1 .. Len(q)
    <3>1. k \in 1 .. Len(q)
      BY <1>1, <1>8, <2>1
    <3> QED BY <1>1, <1>8, <2>1, <3>1 DEF InSequence
  <2>2. CASE l = Len(q) + 1
    <3>1. k \in 1 .. Len(q)
      BY <1>1, <1>8, <2>2
    <3> QED BY <1>1, <1>4, <2>2, <3>1
  <2> QED BY <1>6, <2>1, <2>2
<1>9. InSequence(s, h, b)
  BY <1>3, <1>4, <1>7, <1>8 DEF InSequence
<1>10. \A x : Queued(x, h) <=> Queued(x, q) \/ x \in Range(a)
  <2> SUFFICES ASSUME NEW x PROVE Queued(x, h) <=> Queued(x, q) \/ x \in Range(a)
    OBVIOUS
  <2>1. ASSUME Queued(x, h) PROVE Queued(x, q) \/ x \in Range(a)
    <3>1. PICK k \in DOMAIN h : x \in Range(h[k])
      BY <2>1 DEF Queued
    <3> QED BY <1>1, <1>6, <3>1 DEF Queued
  <2>2. ASSUME Queued(x, q) PROVE Queued(x, h)
    <3>1. PICK k \in 1 .. Len(q) : x \in Range(q[k])
      BY <1>1, <2>2 DEF Queued
    <3>2. k \in DOMAIN h
      BY <1>1
    <3> QED BY <1>1, <3>1, <3>2 DEF Queued
  <2>3. ASSUME x \in Range(a) PROVE Queued(x, h)
    <3>1. Len(q) + 1 \in DOMAIN h
      BY <1>1
    <3> QED BY <1>1, <2>3, <3>1 DEF Queued
  <2> QED BY <2>1, <2>2, <2>3
<1>11. Apart(s, d, h, b)
  BY <1>2, <1>10 DEF Apart
<1>12. \A n : Covers(n, s, d, q, a \o b) => Covers(n, s, d, h, b)
  BY <1>2, <1>10 DEF Covers
<1> QED BY <1>1, <1>9, <1>11, <1>12 DEF h

(* ... and dropped, when the queue is full.                                *)
LEMMA DropKeeps ==
    ASSUME NEW S \in SUBSET Nat, NEW s \in Seq(S), NEW d \in Seq(S), NEW q \in Seq(Seq(S)),
           NEW a \in Seq(S), NEW b \in Seq(S),
           InSequence(s, q, a \o b), Apart(s, d, q, a \o b)
    PROVE  /\ InSequence(s, q, b)
           /\ Apart(s, d \o a, q, b)
           /\ \A n : Covers(n, s, d, q, a \o b) => Covers(n, s, d \o a, q, b)
<1>1. Range(a \o b) = Range(a) \cup Range(b) /\ Range(d \o a) = Range(d) \cup Range(a)
  BY RangeConcat
<1>2. Rising(a) /\ Rising(b) /\ Ahead(a, b)
  BY RisingConcat DEF InSequence
<1>3. Ahead(s, a) /\ Ahead(s, b) /\ \A k \in DOMAIN q : Ahead(q[k], a) /\ Ahead(q[k], b)
  BY <1>1 DEF InSequence, Ahead
<1>4. InSequence(s, q, b)
  BY <1>2, <1>3 DEF InSequence
<1>5. ASSUME NEW x \in Range(a) PROVE x \notin Range(s) /\ x \notin Range(b) /\ ~Queued(x, q)
  <2>1. ~(x < x)
    <3>1. x \in Nat
      BY RangeIn
    <3> QED BY <3>1
  <2> QED BY <1>2, <1>3, <2>1 DEF Ahead, Queued
<1>6. Apart(s, d \o a, q, b)
  BY <1>1, <1>5 DEF Apart
<1>7. \A n : Covers(n, s, d, q, a \o b) => Covers(n, s, d \o a, q, b)
  BY <1>1 DEF Covers
<1> QED BY <1>4, <1>6, <1>7

(* The reader gets the first chunk of the queue.                           *)
LEMMA WriteKeeps ==
    ASSUME NEW S \in SUBSET Nat, NEW s \in Seq(S), NEW d \in Seq(S), NEW q \in Seq(Seq(S)), NEW r \in Seq(S),
           q # <<>>, InSequence(s, q, r), Apart(s, d, q, r)
    PROVE  /\ s \o q[1] \in Seq(S) /\ q[1] \in Seq(S) /\ Tail(q) \in Seq(Seq(S))
           /\ InSequence(s \o q[1], Tail(q), r)
           /\ Apart(s \o q[1], d, Tail(q), r)
           /\ \A n : Covers(n, s, d, q, r) => Covers(n, s \o q[1], d, Tail(q), r)
           /\ Rising(s \o q[1])
           /\ \A x \in Range(q[1]) : \A y : (y \in Range(r) \/ Queued(y, Tail(q))) => x < y
<1> DEFINE h == Tail(q)
           a == q[1]
<1>1. /\ h \in Seq(Seq(S)) /\ Len(q) \in Nat \ {0} /\ DOMAIN q = 1 .. Len(q) /\ DOMAIN h = 1 .. Len(q) - 1
      /\ \A k \in 1 .. Len(q) - 1 : h[k] = q[k + 1]
  <2>1. h \in Seq(Seq(S)) /\ Len(h) = Len(q) - 1 /\ \A k \in 1 .. Len(h) : h[k] = q[k + 1]
    BY HeadTailProperties
  <2>2. Len(q) \in Nat \ {0}
    BY EmptySeq, LenProperties
  <2> HIDE DEF h
  <2> QED BY <2>1, <2>2, LenProperties
<1> HIDE DEF h
<1>2. 1 \in DOMAIN q /\ a \in Seq(S)
  BY <1>1, ElementOfSeq
<1> HIDE DEF a
<1>3. s \o a \in Seq(S) /\ Range(s \o a) = Range(s) \cup Range(a)
  BY <1>2, RangeConcat, ConcatProperties
<1>4. Rising(s) /\ Rising(a) /\ Ahead(s, a) /\ Ahead(a, r)
  BY <1>2 DEF InSequence, a
<1>5. Rising(s \o a)
  BY <1>2, <1>4, RisingConcat
<1>6. \A k \in DOMAIN h : k + 1 \in DOMAIN q /\ 1 < k + 1 /\ h[k] = q[k + 1]
  BY <1>1
<1>7. \A k \in DOMAIN h : Rising(h[k]) /\ Ahead(s, h[k]) /\ Ahead(a, h[k]) /\ Ahead(h[k], r)
  BY <1>2, <1>6 DEF InSequence, a
<1>8. \A k, l \in DOMAIN h : k < l => Ahead(h[k], h[l])
  <2> SUFFICES ASSUME NEW k \in DOMAIN h, NEW l \in DOMAIN h, k < l PROVE Ahead(h[k], h[l])
    OBVIOUS
  <2>1. k + 1 < l + 1
    BY <1>1
  <2> QED BY <1>6, <2>1 DEF InSequence
<1>9. Ahead(s, r)
  BY DEF InSequence
<1>10. InSequence(s \o a, h, r)
  BY <1>3, <1>4, <1>5, <1>7, <1>8, <1>9 DEF InSequence, Ahead
<1>11. \A x : Queued(x, q) <=> Queued(x, h) \/ x \in Range(a)
  <2> SUFFICES ASSUME NEW x PROVE Queued(x, q) <=> Queued(x, h) \/ x \in Range(a)
    OBVIOUS
  <2>1. ASSUME Queued(x, q) PROVE Queued(x, h) \/ x \in Range(a)
    <3>1. PICK k \in 1 .. Len(q) : x \in Range(q[k])
      BY <1>1, <2>1 DEF Queued
    <3>2. CASE k = 1
      BY <3>1, <3>2 DEF a
    <3>3. CASE k # 1
      <4>1. k - 1 \in DOMAIN h /\ h[k - 1] = q[k]
        BY <1>1, <3>3
      <4> QED BY <3>1, <4>1 DEF Queued
    <3> QED BY <3>2, <3>3
  <2>2. ASSUME Queued(x, h) PROVE Queued(x, q)
    BY <1>6, <2>2 DEF Queued
  <2>3. ASSUME x \in Range(a) PROVE Queued(x, q)
    BY <1>2, <2>3 DEF Queued, a
  <2> QED BY <2>1, <2>2, <2>3
<1>12. Apart(s \o a, d, h, r)
  BY <1>3, <1>11 DEF Apart
<1>13. \A n : Covers(n, s, d, q, r) => Covers(n, s \o a, d, h, r)
  BY <1>3, <1>11 DEF Covers
<1>14. \A x \in Range(a) : \A y : (y \in Range(r) \/ Queued(y, h)) => x < y
  BY <1>4, <1>7 DEF Ahead, Queued
<1> QED BY <1>1, <1>2, <1>3, <1>5, <1>10, <1>12, <1>13, <1>14 DEF a, h

(* New lines come last.                                                    *)
LEMMA EmitKeeps ==
    ASSUME NEW m \in Nat, NEW n \in Nat, NEW s \in Seq(1 .. m), NEW d \in Seq(1 .. m),
           NEW q \in Seq(Seq(1 .. m)), NEW r \in Seq(1 .. m), NEW p \in Seq(1 .. m + n),
           Rising(p), Range(p) = m + 1 .. m + n,
           InSequence(s, q, r), Apart(s, d, q, r)
    PROVE  /\ InSequence(s, q, r \o p)
           /\ Apart(s, d, q, r \o p)
           /\ Covers(m, s, d, q, r) => Covers(m + n, s, d, q, r \o p)
<1>1. Rising(p) /\ Range(p) = m + 1 .. m + n
  OBVIOUS
<1>2. r \in Seq(1 .. m + n)
  <2>1. Len(r) \in Nat /\ r \in [1 .. Len(r) -> 1 .. m] /\ 1 .. m \subseteq 1 .. m + n
    BY LenProperties
  <2>2. r \in [1 .. Len(r) -> 1 .. m + n]
    BY <2>1
  <2> QED BY <2>1, <2>2, FunctionIsSeq
<1>3. Range(r \o p) = Range(r) \cup Range(p)
  <2> DEFINE S == 1 .. m + n
  <2>1. r \in Seq(S) /\ p \in Seq(S)
    BY <1>2
  <2> HIDE DEF S
  <2> QED BY <2>1, RangeConcat
<1>4. /\ Range(s) \subseteq 1 .. m /\ Range(d) \subseteq 1 .. m /\ Range(r) \subseteq 1 .. m
      /\ \A k \in DOMAIN q : Range(q[k]) \subseteq 1 .. m
  <2>1. \A k \in DOMAIN q : q[k] \in Seq(1 .. m)
    BY ElementOfSeq, LenProperties
  <2> QED BY <2>1, RangeIn
<1>5. \A x \in 1 .. m, y \in Range(p) : x < y
  BY <1>1
<1>6. Ahead(s, p) /\ Ahead(r, p) /\ \A k \in DOMAIN q : Ahead(q[k], p)
  BY <1>4, <1>5 DEF Ahead
<1>7. Rising(r \o p)
  <2>1. Rising(r)
    BY DEF InSequence
  <2>2. 1 .. m + n \in SUBSET Nat
    OBVIOUS
  <2> QED BY <1>1, <1>2, <1>6, <2>1, <2>2, RisingConcat
<1>8. InSequence(s, q, r \o p)
  BY <1>3, <1>6, <1>7 DEF InSequence, Ahead
<1>9. \A x \in Range(d) : x \notin Range(p)
  BY <1>1, <1>4
<1>10. Apart(s, d, q, r \o p)
  BY <1>3, <1>9 DEF Apart
<1>11. ASSUME Covers(m, s, d, q, r) PROVE Covers(m + n, s, d, q, r \o p)
  <2>1. \A x \in 1 .. m + n : x \in 1 .. m \/ x \in Range(p)
    BY <1>1
  <2> QED BY <1>3, <1>11, <2>1 DEF Covers
<1> QED BY <1>8, <1>10, <1>11

-----------------------------------------------------------------------------
(* No record is emitted twice: a close, an answer or a sample is queued at *)
(* most once, after what it tells of was born, and not any more once its   *)
(* record is out.                                                          *)
Says(E, of, c) == \E i \in DOMAIN E : E[i].of = of /\ E[i].conn = c

Single(T, k, c) ==
    \A i, j \in DOMAIN T : T[i].kind = k /\ T[i].conn = c /\ T[j].kind = k /\ T[j].conn = c => i = j

Told(T, k, E, of, c, born) ==
    /\ Has(T, k, c) => born
    /\ Single(T, k, c)
    /\ Says(E, of, c) => born /\ ~Has(T, k, c)

Once ==
    /\ IsInjective(emitted)
    /\ \A c \in Conns :
          /\ Told(ring["events"], "close", emitted, "connection", c, life[c] = "closed")
          /\ Told(ring["tls_events"], "answer", emitted, "answered", c, life[c] \in {"answered", "closed"})
    /\ \A n \in Nat : Told(ring["sample_events"], "sample", emitted, "sample", n, n <= samples)

LEMMA ToldAppend ==
    ASSUME NEW C, NEW T \in Seq(C), NEW e \in C, NEW E, NEW k, NEW of, NEW c,
           NEW old \in BOOLEAN, NEW new \in BOOLEAN,
           Told(T, k, E, of, c, old),
           e.kind = k /\ e.conn = c => ~old /\ new,
           old => new
    PROVE  Told(Append(T, e), k, E, of, c, new)
<1> DEFINE A == Append(T, e)
<1>1. /\ DOMAIN T = 1 .. Len(T) /\ Len(T) \in Nat /\ DOMAIN A = 1 .. Len(T) + 1
      /\ A[Len(T) + 1] = e /\ \A i \in 1 .. Len(T) : A[i] = T[i]
  BY AppendProperties, LenProperties
<1>2. Has(A, k, c) <=> Has(T, k, c) \/ (e.kind = k /\ e.conn = c)
  BY HasAppend
<1> HIDE DEF A
<1>3. Single(A, k, c)
  <2> SUFFICES ASSUME NEW i \in DOMAIN A, NEW j \in DOMAIN A,
                      A[i].kind = k, A[i].conn = c, A[j].kind = k, A[j].conn = c
               PROVE  i = j
    BY DEF Single
  <2>1. CASE i \in 1 .. Len(T) /\ j \in 1 .. Len(T)
    BY <1>1, <2>1 DEF Told, Single
  <2>2. ASSUME NEW x \in DOMAIN A, A[x].kind = k, A[x].conn = c, e.kind = k, e.conn = c
        PROVE  x = Len(T) + 1
    <3>1. ~Has(T, k, c)
      BY <2>2 DEF Told
    <3> QED BY <1>1, <2>2, <3>1 DEF Has
  <2>3. CASE i = Len(T) + 1 \/ j = Len(T) + 1
    <3>1. e.kind = k /\ e.conn = c
      BY <1>1, <2>3
    <3> QED BY <2>2, <3>1
  <2> QED BY <1>1, <2>1, <2>3
<1> QED BY <1>2, <1>3 DEF A, Told

LEMMA SaysConcat ==
    ASSUME NEW E \in Seq(Record), NEW F \in Seq(Record), NEW of, NEW c
    PROVE  Says(E \o F, of, c) <=> Says(E, of, c) \/ Says(F, of, c)
<1>1. Range(E \o F) = Range(E) \cup Range(F)
  BY RangeConcat
<1>2. \A G : Says(G, of, c) <=> \E x \in Range(G) : x.of = of /\ x.conn = c
  BY DEF Says, Range
<1> QED BY <1>1, <1>2

(* The head of a ring is folded, and its record with it.                   *)
LEMMA ToldTail ==
    ASSUME NEW C, NEW T \in Seq(C), T # <<>>, NEW E \in Seq(Record), NEW F \in Seq(Record),
           NEW k, NEW of, NEW c, NEW born \in BOOLEAN, Told(T, k, E, of, c, born),
           Says(F, of, c) => Head(T).kind = k /\ Head(T).conn = c
    PROVE  /\ Told(Tail(T), k, E \o F, of, c, born)
           /\ Says(F, of, c) => ~Says(E, of, c)
<1> DEFINE A == Tail(T)
<1>1. /\ Len(T) \in Nat \ {0} /\ DOMAIN T = 1 .. Len(T) /\ A \in Seq(C) /\ Len(A) = Len(T) - 1
      /\ DOMAIN A = 1 .. Len(T) - 1 /\ Head(T) = T[1]
      /\ \A i \in 1 .. Len(T) - 1 : A[i] = T[i + 1] /\ i + 1 \in DOMAIN T
  BY EmptySeq, HeadTailProperties, LenProperties
<1>2. Has(T, k, c) <=> Has(A, k, c) \/ (Head(T).kind = k /\ Head(T).conn = c)
  BY HasTail
<1> HIDE DEF A
<1>3. Single(A, k, c)
  <2> SUFFICES ASSUME NEW i \in DOMAIN A, NEW j \in DOMAIN A,
                      A[i].kind = k, A[i].conn = c, A[j].kind = k, A[j].conn = c
               PROVE  i = j
    BY DEF Single
  <2>1. i + 1 = j + 1
    BY <1>1 DEF Told, Single
  <2> QED BY <1>1, <2>1
<1>4. ASSUME Head(T).kind = k, Head(T).conn = c PROVE ~Has(A, k, c)
  <2> SUFFICES ASSUME NEW i \in DOMAIN A, A[i].kind = k, A[i].conn = c PROVE FALSE
    BY DEF Has
  <2>1. 1 \in DOMAIN T /\ i + 1 \in DOMAIN T /\ T[i + 1] = A[i] /\ i + 1 # 1
    BY <1>1
  <2> QED BY <1>1, <1>4, <2>1 DEF Told, Single
<1>5. Says(E \o F, of, c) <=> Says(E, of, c) \/ Says(F, of, c)
  BY SaysConcat
<1> QED BY <1>2, <1>3, <1>4, <1>5 DEF A, Told

LEMMA ToldElsewhere ==
    ASSUME NEW T, NEW E \in Seq(Record), NEW F \in Seq(Record), NEW k, NEW of, NEW c, NEW born,
           Told(T, k, E, of, c, born), ~Says(F, of, c)
    PROVE  Told(T, k, E \o F, of, c, born)
BY SaysConcat DEF Told

LEMMA InjectiveConcat ==
    ASSUME NEW E \in Seq(Record), NEW F \in Seq(Record), IsInjective(E), IsInjective(F),
           \A of, c : Says(F, of, c) => ~Says(E, of, c)
    PROVE  IsInjective(E \o F)
<1> DEFINE G == E \o F
<1>1. /\ Len(E) \in Nat /\ Len(F) \in Nat /\ DOMAIN E = 1 .. Len(E) /\ DOMAIN F = 1 .. Len(F)
      /\ DOMAIN G = 1 .. Len(E) + Len(F)
      /\ \A i \in 1 .. Len(E) + Len(F) : G[i] = IF i <= Len(E) THEN E[i] ELSE F[i - Len(E)]
  <2>1. G \in Seq(Record) /\ Len(G) = Len(E) + Len(F)
    BY ConcatProperties
  <2>2. \A i \in 1 .. Len(E) + Len(F) : G[i] = IF i <= Len(E) THEN E[i] ELSE F[i - Len(E)]
    BY ConcatProperties
  <2> HIDE DEF G
  <2> QED BY <2>1, <2>2, LenProperties
<1> HIDE DEF G
<1>2. \A i \in DOMAIN E, j \in DOMAIN F : E[i] # F[j]
  BY DEF Says
<1>3. IsInjective(G)
  <2> SUFFICES ASSUME NEW i \in DOMAIN G, NEW j \in DOMAIN G, G[i] = G[j] PROVE i = j
    BY DEF IsInjective
  <2>1. CASE i <= Len(E) /\ j <= Len(E)
    BY <1>1, <2>1 DEF IsInjective
  <2>2. CASE ~(i <= Len(E)) /\ ~(j <= Len(E))
    <3>1. i - Len(E) \in DOMAIN F /\ j - Len(E) \in DOMAIN F
      BY <1>1, <2>2
    <3>2. F[i - Len(E)] = F[j - Len(E)]
      BY <1>1, <2>2
    <3>3. i - Len(E) = j - Len(E)
      BY <3>1, <3>2 DEF IsInjective
    <3> QED BY <1>1, <3>3
  <2>3. CASE i <= Len(E) /\ ~(j <= Len(E))
    <3>1. i \in DOMAIN E /\ j - Len(E) \in DOMAIN F /\ G[i] = E[i] /\ G[j] = F[j - Len(E)]
      BY <1>1, <2>3
    <3> QED BY <1>2, <3>1
  <2>4. CASE ~(i <= Len(E)) /\ j <= Len(E)
    <3>1. j \in DOMAIN E /\ i - Len(E) \in DOMAIN F /\ G[j] = E[j] /\ G[i] = F[i - Len(E)]
      BY <1>1, <2>4
    <3> QED BY <1>2, <3>1
  <2> QED BY <2>1, <2>2, <2>3, <2>4
<1> QED BY <1>3 DEF G

LEMMA RecordsSay ==
    ASSUME NEW e \in Event
    PROVE  /\ IsInjective(RecordsOf(e))
           /\ \A of, c : Says(RecordsOf(e), of, c) =>
                 /\ e.conn = c
                 /\ \/ of = "answered" /\ e.kind = "answer"
                    \/ of = "connection" /\ e.kind = "close"
                    \/ of = "aborted" /\ e.kind = "close" /\ c \in open
                    \/ of = "sample" /\ e.kind = "sample"
<1>1. CASE e.kind = "answer"
  <2>1. RecordsOf(e) = IF e.conn \in open THEN <<[of |-> "answered", conn |-> e.conn]>> ELSE <<>>
    BY <1>1 DEF RecordsOf
  <2> QED BY <1>1, <2>1 DEF IsInjective, Says
<1>2. CASE e.kind = "close"
  <2> DEFINE a == [of |-> "connection", conn |-> e.conn]
             b == [of |-> "aborted", conn |-> e.conn]
  <2>1. RecordsOf(e) = <<a>> \o (IF e.conn \in open THEN <<b>> ELSE <<>>)
    BY <1>2 DEF RecordsOf
  <2>2. a \in Record /\ b \in Record /\ <<a>> \in Seq(Record) /\ <<b>> \in Seq(Record)
    <3>1. e.conn \in Nat
      BY ParamTypes DEF Event
    <3>2. a \in Record /\ b \in Record
      BY <3>1 DEF Record
    <3> HIDE DEF a, b
    <3> QED BY <3>2
  <2>3. /\ IsInjective(<<a>>) /\ IsInjective(<<b>>)
        /\ \A of, c : Says(<<a>>, of, c) <=> of = "connection" /\ c = e.conn
        /\ \A of, c : Says(<<b>>, of, c) <=> of = "aborted" /\ c = e.conn
    BY DEF IsInjective, Says
  <2> HIDE DEF a, b
  <2>4. CASE e.conn \in open
    <3>1. RecordsOf(e) = <<a>> \o <<b>>
      BY <2>1, <2>4
    <3>2. \A of, c : Says(<<a>> \o <<b>>, of, c) <=> Says(<<a>>, of, c) \/ Says(<<b>>, of, c)
      BY <2>2, SaysConcat
    <3>3. IsInjective(<<a>> \o <<b>>)
      BY <2>2, <2>3, InjectiveConcat
    <3> QED BY <1>2, <2>3, <2>4, <3>1, <3>2, <3>3
  <2>5. CASE e.conn \notin open
    <3>1. RecordsOf(e) = <<a>>
      <4>1. RecordsOf(e) = <<a>> \o <<>>
        BY <2>1, <2>5
      <4> QED BY <4>1, <2>2, ConcatEmptySeq
    <3> QED BY <1>2, <2>3, <3>1
  <2> QED BY <2>4, <2>5
<1>3. CASE e.kind = "sample"
  <2>1. RecordsOf(e) = <<[of |-> "sample", conn |-> e.conn]>>
    BY <1>3 DEF RecordsOf
  <2> QED BY <1>3, <2>1 DEF IsInjective, Says
<1>4. CASE e.kind \notin {"answer", "close", "sample"}
  <2>1. RecordsOf(e) = <<>>
    BY <1>4 DEF RecordsOf
  <2> QED BY <2>1 DEF IsInjective, Says
<1> QED BY <1>1, <1>2, <1>3, <1>4

LEMMA FoldOnce ==
    ASSUME TypeOK, Routed, Requests, Once, NEW r \in Rings, ring[r] # <<>>, Fold(r)
    PROVE  Once'
<1> DEFINE e == Head(ring[r])
           F == RecordsOf(e)
<1>1. /\ e \in Event /\ ring'[r] = Tail(ring[r]) /\ \A q \in Rings : q # r => ring'[q] = ring[q]
      /\ emitted' = emitted \o F /\ UNCHANGED <<life, samples>>
  BY FoldTyped
<1>2. /\ r = "events" => e \in Closes
      /\ r = "tls_events" => e \in Calls
      /\ r = "sample_events" => e \in Samples
  <2> HIDE DEF e
  <2> QED BY HeadTailProperties DEF Routed, e
<1>3. F \in Seq(Record) /\ emitted \in Seq(Record)
  BY <1>1, RecordsTyped DEF TypeOK
<1>4. /\ IsInjective(F)
      /\ \A of, c : Says(F, of, c) =>
            /\ e.conn = c
            /\ \/ of = "answered" /\ e.kind = "answer"
               \/ of = "connection" /\ e.kind = "close"
               \/ of = "aborted" /\ e.kind = "close" /\ c \in open
               \/ of = "sample" /\ e.kind = "sample"
  BY <1>1, RecordsSay
<1> DEFINE NextTold(q, k, of, c, born) ==
             /\ Told(ring'[q], k, emitted', of, c, born)
             /\ Says(F, of, c) => ~Says(emitted, of, c)
<1>5. ASSUME NEW q \in Rings, NEW k, NEW of, NEW c, NEW born \in BOOLEAN,
             Told(ring[q], k, emitted, of, c, born),
             Says(F, of, c) => r = q /\ e.kind = k
      PROVE  NextTold(q, k, of, c, born)
  <2> DEFINE T == ring[q]
  <2>1. CASE r = q
    <3>1. T \in Seq(Event) /\ T # <<>> /\ e = Head(T) /\ ring'[q] = Tail(T)
      BY <1>1, <2>1 DEF TypeOK
    <3>2. Says(F, of, c) => Head(T).kind = k /\ Head(T).conn = c
      BY <1>4, <1>5, <3>1
    <3>3. Told(T, k, emitted, of, c, born)
      BY <1>5
    <3> HIDE DEF e, F, T
    <3>4. Told(Tail(T), k, emitted \o F, of, c, born) /\ (Says(F, of, c) => ~Says(emitted, of, c))
      BY <1>3, <3>1, <3>2, <3>3, ToldTail
    <3> QED BY <1>1, <3>1, <3>4
  <2>2. CASE r # q
    <3> HIDE DEF e, F
    <3>1. ~Says(F, of, c) /\ ring'[q] = ring[q]
      BY <1>1, <1>5, <2>2
    <3> QED BY <1>1, <1>3, <1>5, <3>1, ToldElsewhere
  <2> QED BY <2>1, <2>2
<1> HIDE DEF F, NextTold
<1>6. ASSUME NEW c \in Conns
      PROVE  /\ NextTold("events", "close", "connection", c, life[c] = "closed")
             /\ NextTold("tls_events", "answer", "answered", c, life[c] \in {"answered", "closed"})
  <2>1. /\ Told(ring["events"], "close", emitted, "connection", c, life[c] = "closed")
        /\ Told(ring["tls_events"], "answer", emitted, "answered", c, life[c] \in {"answered", "closed"})
    BY DEF Once
  <2>2. /\ Says(F, "connection", c) => r = "events" /\ e.kind = "close"
        /\ Says(F, "answered", c) => r = "tls_events" /\ e.kind = "answer"
    BY <1>2, <1>4 DEF Closes, Calls, Samples, Rings
  <2>3. NextTold("events", "close", "connection", c, life[c] = "closed")
    <3>1. (life[c] = "closed") \in BOOLEAN /\ "events" \in Rings
      BY DEF Rings
    <3> QED BY <1>5, <2>1, <2>2, <3>1
  <2>4. NextTold("tls_events", "answer", "answered", c, life[c] \in {"answered", "closed"})
    <3>1. (life[c] \in {"answered", "closed"}) \in BOOLEAN /\ "tls_events" \in Rings
      BY DEF Rings
    <3> QED BY <1>5, <2>1, <2>2, <3>1
  <2> QED BY <2>3, <2>4
<1>7. ASSUME NEW n \in Nat
      PROVE  NextTold("sample_events", "sample", "sample", n, n <= samples)
  <2>1. Told(ring["sample_events"], "sample", emitted, "sample", n, n <= samples)
    BY DEF Once
  <2>2. Says(F, "sample", n) => r = "sample_events" /\ e.kind = "sample"
    BY <1>2, <1>4 DEF Closes, Calls, Samples, Rings
  <2>3. (n <= samples) \in BOOLEAN
    BY DEF TypeOK
  <2> QED BY <1>5, <2>1, <2>2, <2>3 DEF Rings
<1>8. \A of, c : Says(F, of, c) => ~Says(emitted, of, c)
  <2> SUFFICES ASSUME NEW of, NEW c, Says(F, of, c) PROVE ~Says(emitted, of, c)
    OBVIOUS
  <2>1. /\ e.conn = c /\ of \in {"answered", "connection", "aborted", "sample"}
        /\ of = "aborted" => c \in open
    BY <1>4
  <2>2. CASE of = "aborted"
    <3>1. c \in open /\ c \in Conns
      BY <2>1, <2>2 DEF TypeOK
    <3>2. ~IsAborted(emitted, c)
      BY <3>1 DEF Requests, Over
    <3> QED BY <2>2, <3>2 DEF Says, IsAborted
  <2>3. CASE of \in {"connection", "answered"}
    <3>1. c \in Conns
      BY <1>2, <1>4, <2>3 DEF Closes, Calls, Samples, Rings
    <3> QED BY <1>6, <2>3, <3>1 DEF NextTold
  <2>4. CASE of = "sample"
    <3>1. c \in Nat
      BY <1>1, <2>1, ParamTypes DEF Event
    <3> QED BY <1>7, <2>4, <3>1 DEF NextTold
  <2> QED BY <2>1, <2>2, <2>3, <2>4
<1>9. IsInjective(emitted')
  BY <1>1, <1>3, <1>4, <1>8, InjectiveConcat DEF Once
<1> QED BY <1>1, <1>6, <1>7, <1>9 DEF Once, NextTold

LEMMA FlushOnce ==
    ASSUME TypeOK, Requests, Once, FlushOpenOps
    PROVE  /\ Once'
           /\ \E F \in Seq(Record) : emitted' = emitted \o F /\ pending' = Fragments(F)
<1>1. PICK order \in SetToSeqs(open) :
         LET aborted == [i \in DOMAIN order |-> [of |-> "aborted", conn |-> order[i]]]
         IN  emitted' = emitted \o aborted /\ pending' = Fragments(aborted)
  BY DEF FlushOpenOps
<1> DEFINE n == Cardinality(open)
           F == [i \in DOMAIN order |-> [of |-> "aborted", conn |-> order[i]]]
<1>2. emitted' = emitted \o F /\ pending' = Fragments(F) /\ UNCHANGED <<ring, life, samples>>
  BY <1>1 DEF FlushOpenOps, kernel
<1>3. n \in Nat /\ order \in [1 .. n -> open] /\ IsInjective(order)
  <2>1. IsFiniteSet(open) /\ n \in Nat
    BY ParamTypes, FS_Subset, FS_CardinalityType DEF TypeOK
  <2> QED BY <2>1 DEF SetToSeqs, IsInjective
<1>4. F \in Seq(Record)
  <2>1. \A i \in 1 .. n : order[i] \in Nat
    BY <1>3, ParamTypes DEF TypeOK
  <2>2. \A i \in 1 .. n : [of |-> "aborted", conn |-> order[i]] \in Record
    BY <2>1 DEF Record
  <2>3. F \in [1 .. n -> Record]
    BY <1>3, <2>2
  <2> HIDE DEF F
  <2> QED BY <1>3, <2>3, SeqDef
<1>5. \A of, c : Says(F, of, c) => of = "aborted" /\ c \in open
  BY <1>3 DEF Says
<1>6. IsInjective(F)
  BY <1>3 DEF IsInjective
<1> HIDE DEF F
<1>7. emitted \in Seq(Record)
  BY DEF TypeOK
<1>8. \A of, c : Says(F, of, c) => ~Says(emitted, of, c)
  <2> SUFFICES ASSUME NEW of, NEW c, Says(F, of, c) PROVE ~Says(emitted, of, c)
    OBVIOUS
  <2>1. of = "aborted" /\ c \in open /\ c \in Conns
    BY <1>5 DEF TypeOK
  <2>2. ~IsAborted(emitted, c)
    BY <2>1 DEF Requests, Over
  <2> QED BY <2>1, <2>2 DEF Says, IsAborted
<1>9. IsInjective(emitted')
  BY <1>2, <1>4, <1>6, <1>7, <1>8, InjectiveConcat DEF Once
<1>10. \A c : ~Says(F, "connection", c) /\ ~Says(F, "answered", c) /\ ~Says(F, "sample", c)
  BY <1>5
<1>11. ASSUME NEW c \in Conns
       PROVE  /\ Told(ring["events"], "close", emitted', "connection", c, life[c] = "closed")
              /\ Told(ring["tls_events"], "answer", emitted', "answered", c, life[c] \in {"answered", "closed"})
  BY <1>2, <1>4, <1>7, <1>10, ToldElsewhere DEF Once
<1>12. \A m \in Nat : Told(ring["sample_events"], "sample", emitted', "sample", m, m <= samples)
  BY <1>2, <1>4, <1>7, <1>10, ToldElsewhere DEF Once
<1>13. Once'
  BY <1>2, <1>9, <1>11, <1>12 DEF Once
<1> QED BY <1>2, <1>4, <1>13

LEMMA SubmitIs ==
    ASSUME TypeOK, NEW r \in Rings, NEW e, Submit(r, e)
    PROVE  /\ ring'[r] = ring[r] \/ ring'[r] = Append(ring[r], e)
           /\ \A q \in Rings : q # r => ring'[q] = ring[q]
<1>1. CASE ring' = ring
  BY <1>1
<1>2. CASE ring' = [ring EXCEPT ![r] = Append(@, e)]
  BY <1>2 DEF TypeOK
<1> QED BY <1>1, <1>2 DEF Submit

LEMMA KernelOnce ==
    ASSUME TypeOK, Routed, Once, Kernel
    PROVE  Once'
<1>1. emitted' = emitted
  BY DEF Kernel, engine
<1> DEFINE Kept(q, k, of, c, new) == Told(ring'[q], k, emitted, of, c, new)
<1>2. ASSUME NEW r \in Rings, NEW e \in Event, Submit(r, e),
             NEW q \in Rings, NEW k, NEW of, NEW c, NEW old \in BOOLEAN, NEW new \in BOOLEAN,
             Told(ring[q], k, emitted, of, c, old),
             r = q /\ e.kind = k /\ e.conn = c => ~old /\ new, old => new
      PROVE  Kept(q, k, of, c, new)
  <2> DEFINE T == ring[q]
  <2>1. /\ ring'[r] = ring[r] \/ ring'[r] = Append(ring[r], e)
        /\ \A x \in Rings : x # r => ring'[x] = ring[x]
    BY <1>2, SubmitIs
  <2>2. T \in Seq(Event)
    BY DEF TypeOK
  <2>3. CASE ring'[q] = T
    <3> HIDE DEF T
    <3> QED BY <1>2, <2>3 DEF Told, T
  <2>4. CASE r = q /\ ring'[q] = Append(T, e)
    <3>1. Told(T, k, emitted, of, c, old)
      BY <1>2
    <3>2. e.kind = k /\ e.conn = c => ~old /\ new
      BY <1>2, <2>4
    <3> HIDE DEF T
    <3>3. Told(Append(T, e), k, emitted, of, c, new)
      BY <1>2, <2>2, <3>1, <3>2, ToldAppend
    <3> QED BY <2>4, <3>3
  <2> QED BY <2>1, <2>3, <2>4
<1> HIDE DEF Kept
<1>3. CASE Sample
  <2> DEFINE e == [kind |-> "sample", conn |-> samples']
  <2>1. samples' = samples + 1 /\ samples \in Nat /\ Submit("sample_events", e) /\ UNCHANGED life
    BY <1>3 DEF Sample, TypeOK
  <2>2. e \in Event /\ e.kind = "sample" /\ e.conn = samples + 1
    BY <2>1 DEF Event
  <2> HIDE DEF e
  <2>3. ASSUME NEW c \in Conns
        PROVE  /\ Kept("events", "close", "connection", c, life'[c] = "closed")
               /\ Kept("tls_events", "answer", "answered", c, life'[c] \in {"answered", "closed"})
    <3>1. ring'["events"] = ring["events"] /\ ring'["tls_events"] = ring["tls_events"]
      BY <2>1, SubmitIs DEF Rings
    <3> QED BY <2>1, <3>1 DEF Once, Kept
  <2>4. ASSUME NEW n \in Nat PROVE Kept("sample_events", "sample", "sample", n, n <= samples')
    <3> DEFINE old == n <= samples  new == n <= samples'
    <3>1. /\ "sample_events" \in Rings /\ old \in BOOLEAN /\ new \in BOOLEAN
          /\ e.kind = "sample" /\ e.conn = n => ~old /\ new
          /\ old => new
      BY <2>1, <2>2 DEF Rings
    <3>2. Told(ring["sample_events"], "sample", emitted, "sample", n, old)
      BY DEF Once
    <3> HIDE DEF old, new
    <3>3. e \in Event /\ Submit("sample_events", e)
      BY <2>1, <2>2
    <3>4. Kept("sample_events", "sample", "sample", n, new)
      BY <1>2, <3>1, <3>2, <3>3
    <3> QED BY <3>4 DEF new
  <2> QED BY <1>1, <2>3, <2>4 DEF Once, Kept
<1>4. ASSUME NEW d \in Conns, Traffic(d) PROVE Once'
  <2>1. ASSUME NEW r \in {"events", "tls_events"}, NEW from, NEW to, NEW kind,
               Produce(d, from, to, r, kind),
               \/ kind = "close" /\ r = "events" /\ from = {"asking", "answered"} /\ to = "closed"
               \/ kind = "answer" /\ r = "tls_events" /\ from = {"asking"} /\ to = "answered"
               \/ kind = "open" /\ r = "tls_events" /\ from = {"idle"} /\ to = "asking"
               \/ kind = "body" /\ r = "tls_events" /\ from = {"asking"} /\ to = "asking"
        PROVE  Once'
    <3> DEFINE e == [kind |-> kind, conn |-> d]
    <3>1. /\ life[d] \in from /\ life' = [life EXCEPT ![d] = to] /\ Submit(r, e) /\ samples' = samples
      BY <2>1 DEF Produce
    <3>2. e \in Event /\ e.kind = kind /\ e.conn = d /\ r \in Rings
      BY <2>1 DEF Event, Rings
    <3> HIDE DEF e
    <3>3. ASSUME NEW c \in Conns
          PROVE  /\ Kept("events", "close", "connection", c, life'[c] = "closed")
                 /\ Kept("tls_events", "answer", "answered", c, life'[c] \in {"answered", "closed"})
      <4>1. life'[c] = IF c = d THEN to ELSE life[c]
        BY <3>1 DEF TypeOK
      <4>2. Kept("events", "close", "connection", c, life'[c] = "closed")
        <5> DEFINE old == life[c] = "closed"
                   new == life'[c] = "closed"
        <5>1. old \in BOOLEAN /\ new \in BOOLEAN /\ "events" \in Rings
          BY DEF Rings
        <5>2. (r = "events" /\ e.kind = "close" /\ e.conn = c => ~old /\ new) /\ (old => new)
          BY <2>1, <3>1, <3>2, <4>1
        <5>3. Told(ring["events"], "close", emitted, "connection", c, old)
          BY DEF Once
        <5> HIDE DEF old, new
        <5>4. Kept("events", "close", "connection", c, new)
          BY <1>2, <3>1, <3>2, <5>1, <5>2, <5>3
        <5> QED BY <5>4 DEF new
      <4>3. Kept("tls_events", "answer", "answered", c, life'[c] \in {"answered", "closed"})
        <5> DEFINE old == life[c] \in {"answered", "closed"}
                   new == life'[c] \in {"answered", "closed"}
        <5>1. old \in BOOLEAN /\ new \in BOOLEAN /\ "tls_events" \in Rings
          BY DEF Rings
        <5>2. (r = "tls_events" /\ e.kind = "answer" /\ e.conn = c => ~old /\ new) /\ (old => new)
          BY <2>1, <3>1, <3>2, <4>1
        <5>3. Told(ring["tls_events"], "answer", emitted, "answered", c, old)
          BY DEF Once
        <5> HIDE DEF old, new
        <5>4. Kept("tls_events", "answer", "answered", c, new)
          BY <1>2, <3>1, <3>2, <5>1, <5>2, <5>3
        <5> QED BY <5>4 DEF new
      <4> QED BY <4>2, <4>3
    <3>4. ASSUME NEW n \in Nat PROVE Kept("sample_events", "sample", "sample", n, n <= samples')
      <4>1. ring'["sample_events"] = ring["sample_events"]
        BY <3>1, <3>2, SubmitIs DEF Rings
      <4> QED BY <3>1, <4>1 DEF Once, Kept
    <3> QED BY <1>1, <3>3, <3>4 DEF Once, Kept
  <2> QED BY <1>4, <2>1 DEF Traffic
<1> QED BY <1>3, <1>4 DEF Kernel

LEMMA OnceInit == Init => Once
<1> SUFFICES ASSUME Init PROVE Once
  OBVIOUS
<1>1. emitted = <<>> /\ \A r \in Rings : ring[r] = <<>>
  BY DEF Init
<1>2. \A k, of, c, born : Told(<<>>, k, <<>>, of, c, born)
  BY DEF Told, Has, Says, Single
<1> QED BY <1>1, <1>2 DEF Once, IsInjective, Rings

LEMMA OnceStep ==
    ASSUME TypeOK, Routed, Requests, Once, Next
    PROVE  Once'
<1>1. CASE Kernel
  BY <1>1, KernelOnce
<1>2. CASE FoldNext \/ FoldFinal
  <2>1. at \in Rings /\ ring[at] # <<>> /\ Fold(at)
    BY <1>2 DEF FoldNext, FoldFinal, TypeOK
  <2> QED BY <2>1, FoldOnce
<1>3. CASE FlushOpenOps
  BY <1>3, FlushOnce
<1>4. CASE Quiet /\ samples' = samples
  BY <1>4 DEF Quiet, Once
<1>5. Kernel \/ FoldNext \/ FoldFinal \/ FlushOpenOps \/ (Quiet /\ samples' = samples)
  BY DEF Next, Outside, DriverEnds, Writer, WriteChunk, WriteFails, WriterEnds, PollDriver, Arms, Reap,
         TakeResult, StopOnSignal, StopOnDeadline, StopOnProof, StartBatch, Leave, Batch, Write, EndBatch,
         Shutdown, BeginFinal, NextRing, CloseSink, Join, Return, Quiet, kernel, engine
<1> QED BY <1>1, <1>2, <1>3, <1>4, <1>5

-----------------------------------------------------------------------------
(* What the abstract stream sees of it.                                    *)
LinesAt(E, p) == [k \in DOMAIN p |-> <<E[p[k]]>>]
AllLines(E) == [i \in DOMAIN E |-> <<E[i]>>]

LEMMA PrefixIs ==
    ASSUME NEW S, NEW s \in Seq(S), NEW t \in Seq(S), Len(s) <= Len(t),
           \A i \in 1 .. Len(s) : s[i] = t[i]
    PROVE  IsPrefix(s, t)
<1>1. /\ Len(s) \in Nat /\ Len(t) \in Nat
      /\ \A i \in 1 .. Len(s) : s[i] \in S /\ t[i] \in S
  BY LenProperties, ElementOfSeq
<1> DEFINE n == Len(s)
           u == SubSeq(s, 1, n)
           v == SubSeq(t, 1, n)
<1>2. /\ u \in Seq(S) /\ Len(u) = IF 1 <= n THEN n - 1 + 1 ELSE 0
      /\ \A i \in 1 .. n - 1 + 1 : u[i] = s[1 + i - 1]
  BY <1>1, SubSeqProperties
<1>3. /\ v \in Seq(S) /\ Len(v) = IF 1 <= n THEN n - 1 + 1 ELSE 0
      /\ \A i \in 1 .. n - 1 + 1 : v[i] = t[1 + i - 1]
  BY <1>1, SubSeqProperties
<1> HIDE DEF u, v
<1>4. \A i \in 1 .. Len(u) : u[i] = v[i]
  <2> SUFFICES ASSUME NEW i \in 1 .. Len(u) PROVE u[i] = v[i]
    OBVIOUS
  <2>1. i \in 1 .. n - 1 + 1 /\ i \in 1 .. n /\ 1 + i - 1 = i
    BY <1>1, <1>2
  <2> QED BY <1>2, <1>3, <2>1
<1>5. u = v
  BY <1>2, <1>3, <1>4, SeqEqual
<1> QED BY <1>5 DEF IsPrefix, u, v

LEMMA LinesTyped ==
    ASSUME NEW E \in Seq(Record), NEW p \in Seq(DOMAIN E)
    PROVE  /\ LinesAt(E, p) \in Seq(Seq(Record)) /\ Len(LinesAt(E, p)) = Len(p)
           /\ DOMAIN LinesAt(E, p) = 1 .. Len(p) /\ DOMAIN p = 1 .. Len(p) /\ Len(p) \in Nat
           /\ AllLines(E) \in Seq(Seq(Record)) /\ Len(AllLines(E)) = Len(E)
           /\ DOMAIN AllLines(E) = 1 .. Len(E) /\ DOMAIN E = 1 .. Len(E) /\ Len(E) \in Nat
           /\ \A k \in 1 .. Len(p) : p[k] \in DOMAIN E
<1>1. /\ Len(p) \in Nat /\ DOMAIN p = 1 .. Len(p) /\ Len(E) \in Nat /\ DOMAIN E = 1 .. Len(E)
      /\ \A k \in 1 .. Len(p) : p[k] \in DOMAIN E
      /\ \A i \in 1 .. Len(E) : E[i] \in Record
  BY LenProperties, ElementOfSeq
<1>2. \A x : x \in Record => <<x>> \in Seq(Record)
  OBVIOUS
<1>3. LinesAt(E, p) \in [1 .. Len(p) -> Seq(Record)] /\ AllLines(E) \in [1 .. Len(E) -> Seq(Record)]
  BY <1>1, <1>2 DEF LinesAt, AllLines
<1> QED BY <1>1, <1>3, FunctionIsSeq

LEMMA RangeLines ==
    ASSUME NEW E, NEW p
    PROVE  /\ Range(LinesAt(E, p)) = { <<E[x]>> : x \in Range(p) }
           /\ Range(AllLines(E)) = { <<E[x]>> : x \in DOMAIN E }
BY DEF Range, LinesAt, AllLines

LEMMA EmitSeen ==
    ASSUME NEW E \in Seq(Record), NEW F \in Seq(Record), F # <<>>, IsInjective(E \o F)
    PROVE  /\ Len(AllLines(E \o F)) > Len(AllLines(E))
           /\ IsPrefix(AllLines(E), AllLines(E \o F))
           /\ IsInjective(AllLines(E \o F))
<1> DEFINE G == E \o F
<1>1. G \in Seq(Record) /\ Len(G) = Len(E) + Len(F) /\ \A i \in 1 .. Len(E) + Len(F) : G[i] = IF i <= Len(E) THEN E[i] ELSE F[i - Len(E)]
  BY ConcatProperties
<1> HIDE DEF G
<1>2. Len(E) \in Nat /\ Len(F) \in Nat \ {0} /\ DOMAIN G = 1 .. Len(G)
  BY <1>1, LenProperties, EmptySeq
<1>3. \A H \in Seq(Record) : AllLines(H) \in Seq(Seq(Record)) /\ Len(AllLines(H)) = Len(H) /\ DOMAIN H = 1 .. Len(H)
  <2>1. <<>> \in Seq({}) /\ \A H \in Seq(Record) : <<>> \in Seq(DOMAIN H)
    BY EmptySeq
  <2> QED BY <2>1, LinesTyped
<1>4. \A i \in 1 .. Len(E) : AllLines(E)[i] = AllLines(G)[i]
  <2> SUFFICES ASSUME NEW i \in 1 .. Len(E) PROVE AllLines(E)[i] = AllLines(G)[i]
    OBVIOUS
  <2>1. i \in DOMAIN E /\ i \in DOMAIN G /\ G[i] = E[i]
    BY <1>1, <1>2, <1>3
  <2> QED BY <2>1 DEF AllLines
<1>5. Len(AllLines(G)) > Len(AllLines(E)) /\ IsPrefix(AllLines(E), AllLines(G))
  <2>1. /\ AllLines(E) \in Seq(Seq(Record)) /\ AllLines(G) \in Seq(Seq(Record))
        /\ Len(AllLines(E)) = Len(E) /\ Len(AllLines(G)) = Len(E) + Len(F)
    BY <1>1, <1>3
  <2>2. Len(AllLines(G)) > Len(AllLines(E)) /\ Len(AllLines(E)) <= Len(AllLines(G))
    BY <1>2, <2>1
  <2> QED BY <1>4, <2>1, <2>2, PrefixIs
<1>6. IsInjective(AllLines(G))
  <2> SUFFICES ASSUME NEW i \in DOMAIN G, NEW j \in DOMAIN G, <<G[i]>> = <<G[j]>> PROVE i = j
    BY DEF IsInjective, AllLines
  <2>1. G[i] = G[j]
    OBVIOUS
  <2> QED BY <2>1 DEF IsInjective, G
<1> QED BY <1>5, <1>6 DEF G

LEMMA LoseSeen ==
    ASSUME NEW E \in Seq(Record), NEW s \in Seq(DOMAIN E), NEW d \in Seq(DOMAIN E), NEW a \in Seq(DOMAIN E),
           IsInjective(E), \A x \in Range(a) : x \notin Range(s)
    PROVE  /\ Range(LinesAt(E, d)) \subseteq Range(LinesAt(E, d \o a))
           /\ Range(LinesAt(E, d \o a)) \subseteq
                 Range(LinesAt(E, d)) \cup (Range(AllLines(E)) \ Range(LinesAt(E, s)))
<1>1. Range(d \o a) = Range(d) \cup Range(a)
  BY RangeConcat
<1>2. Range(a) \subseteq DOMAIN E /\ Range(s) \subseteq DOMAIN E
  BY RangeIn
<1> DEFINE L(x) == <<E[x]>>
<1>3. ASSUME NEW x \in Range(a) PROVE x \in DOMAIN E /\ \A y \in Range(s) : L(x) # L(y)
  <2>1. ASSUME NEW y \in Range(s), L(x) = L(y) PROVE FALSE
    <3>1. E[x] = E[y]
      BY <2>1
    <3>2. x = y
      BY <1>2, <3>1 DEF IsInjective
    <3> QED BY <3>2
  <2> QED BY <1>2, <2>1
<1>4. /\ Range(AllLines(E)) = { L(x) : x \in DOMAIN E }
      /\ \A p : Range(LinesAt(E, p)) = { L(x) : x \in Range(p) }
  BY RangeLines
<1> HIDE DEF L
<1>5. Range(LinesAt(E, d)) \subseteq Range(LinesAt(E, d \o a))
  BY <1>1, <1>4
<1>6. ASSUME NEW l \in Range(LinesAt(E, d \o a)), l \notin Range(LinesAt(E, d))
      PROVE  l \in Range(AllLines(E)) \ Range(LinesAt(E, s))
  <2>1. PICK x \in Range(a) : l = L(x)
    BY <1>1, <1>4, <1>6
  <2> QED BY <1>3, <1>4, <2>1
<1> QED BY <1>5, <1>6

(* The lines L at the reader become M, of all lines A, but for the lost D. *)
Delivers(A, L, M, D) ==
    /\ IsStrictPrefix(L, M)
    /\ \A i, j \in DOMAIN M : i < j => \E x, y \in DOMAIN A : x < y /\ A[x] = M[i] /\ A[y] = M[j]
    /\ \E m \in DOMAIN A : Range(M) = { A[i] : i \in 1 .. m } \ D

LEMMA DeliverSeen ==
    ASSUME NEW E \in Seq(Record), NEW s \in Seq(DOMAIN E), NEW d \in Seq(DOMAIN E), NEW a \in Seq(DOMAIN E),
           IsInjective(E), a # <<>>, Rising(s \o a),
           \A x \in Range(d) : x \notin Range(s \o a),
           NEW n \in DOMAIN E,
           \A x \in Range(s \o a) : x <= n,
           \A x \in 1 .. n : x \in Range(s \o a) \/ x \in Range(d)
    PROVE  Delivers(AllLines(E), LinesAt(E, s), LinesAt(E, s \o a), Range(LinesAt(E, d)))
<1> DEFINE t == s \o a
           S == DOMAIN E
<1>1. /\ t \in Seq(S) /\ Len(t) = Len(s) + Len(a)
      /\ \A i \in 1 .. Len(s) + Len(a) : t[i] = IF i <= Len(s) THEN s[i] ELSE a[i - Len(s)]
  BY ConcatProperties
<1>2. /\ LinesAt(E, s) \in Seq(Seq(Record)) /\ Len(LinesAt(E, s)) = Len(s) /\ DOMAIN s = 1 .. Len(s)
      /\ Len(s) \in Nat /\ Len(a) \in Nat \ {0} /\ S = 1 .. Len(E) /\ Len(E) \in Nat
      /\ DOMAIN AllLines(E) = 1 .. Len(E)
  BY LinesTyped, EmptySeq, LenProperties
<1> HIDE DEF t, S
<1>3. /\ LinesAt(E, t) \in Seq(Seq(Record)) /\ Len(LinesAt(E, t)) = Len(t)
      /\ DOMAIN LinesAt(E, t) = 1 .. Len(t) /\ DOMAIN t = 1 .. Len(t)
      /\ \A k \in 1 .. Len(t) : t[k] \in DOMAIN E
  <2>1. t \in Seq(DOMAIN E)
    BY <1>1 DEF S
  <2> QED BY <2>1, LinesTyped
<1>4. IsStrictPrefix(LinesAt(E, s), LinesAt(E, t))
  <2>1. \A i \in 1 .. Len(s) : LinesAt(E, s)[i] = LinesAt(E, t)[i]
    <3> SUFFICES ASSUME NEW i \in 1 .. Len(s) PROVE LinesAt(E, s)[i] = LinesAt(E, t)[i]
      OBVIOUS
    <3>0. i \in 1 .. Len(s) + Len(a) /\ i <= Len(s)
      BY <1>2
    <3>1. i \in DOMAIN s /\ i \in DOMAIN t /\ t[i] = s[i]
      <4>1. i \in DOMAIN s /\ t[i] = s[i]
        BY <1>1, <1>2, <3>0
      <4>2. i \in DOMAIN t
        BY <1>1, <1>3, <3>0
      <4> QED BY <4>1, <4>2
    <3> QED BY <3>1 DEF LinesAt
  <2>2. Len(LinesAt(E, s)) < Len(LinesAt(E, t)) /\ Len(LinesAt(E, s)) <= Len(LinesAt(E, t))
    BY <1>1, <1>2, <1>3
  <2>3. IsPrefix(LinesAt(E, s), LinesAt(E, t))
    BY <1>2, <1>3, <2>1, <2>2, PrefixIs
  <2>4. LinesAt(E, s) # LinesAt(E, t)
    BY <1>2, <1>3, <2>2
  <2> QED BY <2>3, <2>4 DEF IsStrictPrefix
<1>5. ASSUME NEW i \in DOMAIN LinesAt(E, t), NEW j \in DOMAIN LinesAt(E, t), i < j
      PROVE  \E x, y \in DOMAIN AllLines(E) :
                x < y /\ AllLines(E)[x] = LinesAt(E, t)[i] /\ AllLines(E)[y] = LinesAt(E, t)[j]
  <2>1. i \in DOMAIN t /\ j \in DOMAIN t /\ t[i] \in DOMAIN E /\ t[j] \in DOMAIN E
    BY <1>3
  <2>2. t[i] < t[j]
    BY <1>5, <2>1 DEF Rising, t
  <2>3. /\ t[i] \in DOMAIN AllLines(E) /\ t[j] \in DOMAIN AllLines(E)
        /\ AllLines(E)[t[i]] = LinesAt(E, t)[i] /\ AllLines(E)[t[j]] = LinesAt(E, t)[j]
    BY <2>1 DEF AllLines, LinesAt
  <2> QED BY <2>2, <2>3
<1> DEFINE L(x) == <<E[x]>>
           A == AllLines(E)
<1>6. /\ \A p : Range(LinesAt(E, p)) = { L(x) : x \in Range(p) }
      /\ \A x \in DOMAIN E : A[x] = L(x)
  BY RangeLines DEF AllLines
<1>7. \A x, y \in DOMAIN E : L(x) = L(y) => x = y
  <2> SUFFICES ASSUME NEW x \in DOMAIN E, NEW y \in DOMAIN E, L(x) = L(y) PROVE x = y
    OBVIOUS
  <2>1. E[x] = E[y]
    OBVIOUS
  <2> QED BY <2>1 DEF IsInjective
<1>8. Range(t) \subseteq DOMAIN E /\ Range(d) \subseteq DOMAIN E /\ n \in Nat /\ 1 .. n \subseteq DOMAIN E
  BY <1>1, <1>2, RangeIn DEF S
<1>9. (\A x \in Range(d) : x \notin Range(t)) /\ (\A x \in Range(t) : x \in 1 .. n)
  BY <1>2, <1>8 DEF t, S
<1>10. \A x \in 1 .. n : x \in Range(t) \/ x \in Range(d)
  BY DEF t
<1> HIDE DEF L, A
<1>11. Range(LinesAt(E, t)) = { A[i] : i \in 1 .. n } \ Range(LinesAt(E, d))
  <2>1. ASSUME NEW l \in Range(LinesAt(E, t))
        PROVE  l \in { A[i] : i \in 1 .. n } /\ l \notin Range(LinesAt(E, d))
    <3>1. PICK x \in Range(t) : l = L(x)
      BY <1>6, <2>1
    <3>2. x \in 1 .. n /\ l = A[x]
      BY <1>6, <1>8, <1>9, <3>1
    <3>3. \A y \in Range(d) : l # L(y)
      BY <1>7, <1>8, <1>9, <3>1
    <3> QED BY <1>6, <3>2, <3>3
  <2>2. ASSUME NEW i \in 1 .. n, A[i] \notin Range(LinesAt(E, d))
        PROVE  A[i] \in Range(LinesAt(E, t))
    <3>1. A[i] = L(i)
      BY <1>6, <1>8
    <3>2. i \notin Range(d)
      BY <1>6, <2>2, <3>1
    <3> QED BY <1>6, <1>10, <3>1, <3>2
  <2> QED BY <2>1, <2>2
<1>12. n \in DOMAIN AllLines(E)
  BY <1>2 DEF S
<1> QED BY <1>4, <1>5, <1>11, <1>12 DEF Delivers, t, A

-----------------------------------------------------------------------------
(* Everything the sink and its writer hold is a text of whole lines: the   *)
(* output, the drops, each queued chunk, and what is at hand; together     *)
(* they account for every record until the writer gives up.                *)
LaidOut(E, out, drop, Q, last, complete, s, d, q, r) ==
    /\ s \in Seq(DOMAIN E) /\ d \in Seq(DOMAIN E) /\ r \in Seq(DOMAIN E) /\ q \in Seq(Seq(DOMAIN E))
    /\ IsText(out, E, s) /\ IsText(drop, E, d) /\ IsText(last, E, r)
    /\ Len(q) = Len(Q) /\ \A k \in DOMAIN q : IsText(Q[k], E, q[k])
    /\ InSequence(s, q, r) /\ Apart(s, d, q, r)
    /\ complete => Covers(Len(E), s, d, q, r)

LEMMA PlacesAreNats == \A E \in Seq(Record) : DOMAIN E = 1 .. Len(E) /\ DOMAIN E \in SUBSET Nat /\ Len(E) \in Nat
BY LenProperties

LEMMA PlaceIsNat ==
    ASSUME NEW E \in Seq(Record), NEW p \in Seq(DOMAIN E)
    PROVE  p \in Seq(Nat)
<1>1. /\ Len(p) \in Nat /\ DOMAIN p = 1 .. Len(p) /\ p \in [1 .. Len(p) -> DOMAIN E] /\ DOMAIN E \subseteq Nat
  BY LenProperties, PlacesAreNats
<1>2. p \in [1 .. Len(p) -> Nat]
  BY <1>1
<1> QED BY <1>1, <1>2, FunctionIsSeq

LEMMA LaySent ==
    ASSUME NEW E \in Seq(Record), NEW out, NEW drop, NEW Q \in Seq(Seq(Token)), NEW last, NEW complete,
           NEW s, NEW d, NEW q, NEW a \in Seq(DOMAIN E), NEW b \in Seq(DOMAIN E),
           LaidOut(E, out, drop, Q, last, complete, s, d, q, a \o b),
           NEW chunk \in Seq(Token), NEW rest \in Seq(Token), IsText(chunk, E, a), IsText(rest, E, b)
    PROVE  LaidOut(E, out, drop, Append(Q, chunk), rest, complete, s, d, Append(q, a), b)
<1> DEFINE S == DOMAIN E
           h == Append(q, a)
           H == Append(Q, chunk)
<1>1. /\ s \in Seq(S) /\ d \in Seq(S) /\ q \in Seq(Seq(S)) /\ a \in Seq(S) /\ b \in Seq(S)
      /\ IsText(out, E, s) /\ IsText(drop, E, d)
      /\ Len(q) = Len(Q) /\ \A k \in DOMAIN q : IsText(Q[k], E, q[k])
      /\ InSequence(s, q, a \o b) /\ Apart(s, d, q, a \o b)
      /\ complete => Covers(Len(E), s, d, q, a \o b)
  BY DEF LaidOut
<1>2. S \in SUBSET Nat
  BY PlacesAreNats
<1> HIDE DEF S
<1>3. /\ h \in Seq(Seq(S)) /\ InSequence(s, h, b) /\ Apart(s, d, h, b)
      /\ \A n : Covers(n, s, d, q, a \o b) => Covers(n, s, d, h, b)
  BY <1>1, <1>2, SendKeeps
<1>4. /\ Len(h) = Len(q) + 1 /\ h[Len(q) + 1] = a /\ \A k \in 1 .. Len(q) : h[k] = q[k]
  BY <1>1, AppendProperties
<1>5. /\ Len(H) = Len(Q) + 1 /\ H[Len(Q) + 1] = chunk /\ \A k \in 1 .. Len(Q) : H[k] = Q[k]
  BY AppendProperties
<1>6. Len(q) \in Nat /\ DOMAIN q = 1 .. Len(q)
  BY <1>1, LenProperties
<1> HIDE DEF h, H
<1>7. DOMAIN h = 1 .. Len(q) + 1
  BY <1>3, <1>4, LenProperties
<1>8. \A k \in DOMAIN h : IsText(H[k], E, h[k])
  <2> SUFFICES ASSUME NEW k \in DOMAIN h PROVE IsText(H[k], E, h[k])
    OBVIOUS
  <2>1. CASE k \in 1 .. Len(q)
    BY <1>1, <1>4, <1>5, <1>6, <2>1
  <2>2. CASE k = Len(q) + 1
    BY <1>1, <1>4, <1>5, <2>2
  <2>3. k \in 1 .. Len(q) \/ k = Len(q) + 1
    <3>1. k \in 1 .. Len(q) + 1
      BY <1>7
    <3> QED BY <1>6, <3>1
  <2> QED BY <2>1, <2>2, <2>3
<1>9. LaidOut(E, out, drop, H, rest, complete, s, d, h, b)
  BY <1>1, <1>3, <1>4, <1>5, <1>8 DEF LaidOut, S
<1> QED BY <1>9 DEF h, H

LEMMA LayDropped ==
    ASSUME NEW E \in Seq(Record), NEW out, NEW drop \in Seq(Token), NEW Q, NEW last, NEW complete,
           NEW s, NEW d, NEW q, NEW a \in Seq(DOMAIN E), NEW b \in Seq(DOMAIN E),
           LaidOut(E, out, drop, Q, last, complete, s, d, q, a \o b),
           NEW chunk \in Seq(Token), NEW rest, IsText(chunk, E, a), IsText(rest, E, b)
    PROVE  /\ LaidOut(E, out, drop \o chunk, Q, rest, complete, s, d \o a, q, b)
           /\ \A x \in Range(a) : x \notin Range(s)
<1> DEFINE S == DOMAIN E
           e == d \o a
<1>1. /\ s \in Seq(S) /\ d \in Seq(S) /\ q \in Seq(Seq(S)) /\ a \in Seq(S) /\ b \in Seq(S)
      /\ IsText(out, E, s) /\ IsText(drop, E, d)
      /\ Len(q) = Len(Q) /\ \A k \in DOMAIN q : IsText(Q[k], E, q[k])
      /\ InSequence(s, q, a \o b) /\ Apart(s, d, q, a \o b)
      /\ complete => Covers(Len(E), s, d, q, a \o b)
  BY DEF LaidOut
<1>2. S \in SUBSET Nat
  BY PlacesAreNats
<1>3. IsText(drop \o chunk, E, e)
  <2>1. d \in Seq(Nat) /\ a \in Seq(Nat)
    BY <1>1, PlaceIsNat
  <2> QED BY <1>1, <2>1, TextConcat
<1> HIDE DEF S
<1>4. /\ InSequence(s, q, b) /\ Apart(s, e, q, b)
      /\ \A n : Covers(n, s, d, q, a \o b) => Covers(n, s, e, q, b)
  BY <1>1, <1>2, DropKeeps
<1>5. e \in Seq(S) /\ Range(e) = Range(d) \cup Range(a)
  BY <1>1, ConcatProperties, RangeConcat
<1> HIDE DEF e
<1>6. LaidOut(E, out, drop \o chunk, Q, rest, complete, s, e, q, b)
  BY <1>1, <1>3, <1>4, <1>5 DEF LaidOut, S
<1>7. \A x \in Range(a) : x \notin Range(s)
  BY <1>4, <1>5 DEF Apart
<1> QED BY <1>6, <1>7 DEF e

LEMMA LayWritten ==
    ASSUME NEW E \in Seq(Record), NEW out \in Seq(Token), NEW drop, NEW Q \in Seq(Seq(Token)), NEW last,
           NEW complete, NEW s, NEW d, NEW q, NEW r, Q # <<>>,
           LaidOut(E, out, drop, Q, last, complete, s, d, q, r)
    PROVE  /\ q # <<>> /\ q[1] \in Seq(DOMAIN E)
           /\ LaidOut(E, out \o Head(Q), drop, Tail(Q), last, complete, s \o q[1], d, Tail(q), r)
           /\ \A x \in Range(q[1]) : \A y : (y \in Range(r) \/ Queued(y, Tail(q))) => x < y
<1> DEFINE S == DOMAIN E
           t == s \o q[1]
           h == Tail(q)
           H == Tail(Q)
<1>1. /\ s \in Seq(S) /\ d \in Seq(S) /\ q \in Seq(Seq(S)) /\ r \in Seq(S)
      /\ IsText(out, E, s) /\ IsText(drop, E, d) /\ IsText(last, E, r)
      /\ Len(q) = Len(Q) /\ \A k \in DOMAIN q : IsText(Q[k], E, q[k])
      /\ InSequence(s, q, r) /\ Apart(s, d, q, r)
      /\ complete => Covers(Len(E), s, d, q, r)
  BY DEF LaidOut
<1>2. S \in SUBSET Nat
  BY PlacesAreNats
<1>3. Len(Q) \in Nat \ {0} /\ q # <<>> /\ DOMAIN q = 1 .. Len(q)
  BY <1>1, EmptySeq, LenProperties
<1>4. /\ t \in Seq(S) /\ q[1] \in Seq(S) /\ h \in Seq(Seq(S))
      /\ InSequence(t, h, r) /\ Apart(t, d, h, r)
      /\ \A n : Covers(n, s, d, q, r) => Covers(n, t, d, h, r)
      /\ \A x \in Range(q[1]) : \A y : (y \in Range(r) \/ Queued(y, h)) => x < y
  <2> HIDE DEF S
  <2> QED BY <1>1, <1>2, <1>3, WriteKeeps
<1>5. IsText(out \o Head(Q), E, t)
  <2>1. s \in Seq(Nat) /\ q[1] \in Seq(Nat)
    BY <1>1, <1>4, PlaceIsNat
  <2>2. 1 \in 1 .. Len(Q) /\ 1 \in DOMAIN q
    BY <1>1, <1>3
  <2>3. Head(Q) \in Seq(Token) /\ Head(Q) = Q[1]
    BY <2>2, ElementOfSeq
  <2>4. IsText(Q[1], E, q[1])
    BY <1>1, <2>2
  <2>5. IsText(Head(Q), E, q[1])
    BY <2>3, <2>4
  <2> QED BY <1>1, <2>1, <2>3, <2>5, TextConcat
<1>6. Len(h) = Len(q) - 1 /\ DOMAIN h = 1 .. Len(q) - 1 /\ \A k \in 1 .. Len(q) - 1 : h[k] = q[k + 1]
  <2>1. h \in Seq(Seq(S)) /\ Len(h) = Len(q) - 1 /\ \A k \in 1 .. Len(h) : h[k] = q[k + 1]
    BY <1>1, <1>3, HeadTailProperties
  <2> HIDE DEF h
  <2> QED BY <2>1, LenProperties
<1>7. Len(H) = Len(Q) - 1 /\ \A k \in 1 .. Len(Q) - 1 : H[k] = Q[k + 1]
  BY HeadTailProperties
<1> HIDE DEF t, h, H
<1>8. \A k \in DOMAIN h : IsText(H[k], E, h[k])
  <2> SUFFICES ASSUME NEW k \in DOMAIN h PROVE IsText(H[k], E, h[k])
    OBVIOUS
  <2>1. k + 1 \in DOMAIN q /\ k \in 1 .. Len(Q) - 1
    <3>1. k \in 1 .. Len(q) - 1 /\ Len(q) = Len(Q) /\ Len(Q) \in Nat /\ DOMAIN q = 1 .. Len(q)
      BY <1>1, <1>3, <1>6
    <3> HIDE DEF S
    <3> QED BY <3>1
  <2> QED BY <1>1, <1>6, <1>7, <2>1
<1>9. LaidOut(E, out \o Head(Q), drop, H, last, complete, t, d, h, r)
  BY <1>1, <1>4, <1>5, <1>6, <1>7, <1>8 DEF LaidOut
<1> QED BY <1>3, <1>4, <1>9 DEF t, h, H

LEMMA LayEmitted ==
    ASSUME ~Workload, NEW E \in Seq(Record), NEW F \in Seq(Record), NEW out, NEW drop, NEW Q,
           NEW last \in Seq(Token), NEW complete, NEW s, NEW d, NEW q, NEW r,
           LaidOut(E, out, drop, Q, last, complete, s, d, q, r)
    PROVE  \E p \in Seq(DOMAIN (E \o F)) :
              LaidOut(E \o F, out, drop, Q, last \o Fragments(F), complete, s, d, q, r \o p)
<1> DEFINE S == DOMAIN E
           G == E \o F
           p == [i \in 1 .. Len(F) |-> Len(E) + i]
           t == last \o Fragments(F)
           m == Len(E)
           n == Len(F)
<1>1. /\ s \in Seq(S) /\ d \in Seq(S) /\ q \in Seq(Seq(S)) /\ r \in Seq(S)
      /\ IsText(out, E, s) /\ IsText(drop, E, d) /\ IsText(last, E, r)
      /\ Len(q) = Len(Q) /\ \A k \in DOMAIN q : IsText(Q[k], E, q[k])
      /\ InSequence(s, q, r) /\ Apart(s, d, q, r)
      /\ complete => Covers(Len(E), s, d, q, r)
  BY DEF LaidOut
<1>2. G \in Seq(Record) /\ Len(G) = m + n /\ DOMAIN G = 1 .. m + n /\ DOMAIN E = 1 .. m /\ m \in Nat /\ n \in Nat
  <2>1. G \in Seq(Record) /\ Len(G) = m + n
    BY ConcatProperties
  <2> QED BY <2>1, LenProperties
<1>3. p \in Seq(DOMAIN G) /\ IsText(Fragments(F), G, p)
  BY TextFragments
<1>4. Rising(p) /\ Range(p) = m + 1 .. m + n
  BY <1>2, RisingNew
<1>5. /\ s \in Seq(DOMAIN G) /\ d \in Seq(DOMAIN G) /\ r \in Seq(DOMAIN G)
      /\ IsText(out, G, s) /\ IsText(drop, G, d) /\ IsText(last, G, r)
  BY <1>1, TextGrow
<1>6. /\ Len(q) \in Nat /\ q \in [1 .. Len(q) -> Seq(S)] /\ DOMAIN q = 1 .. Len(q)
  BY <1>1, LenProperties
<1>7. \A k \in DOMAIN q : q[k] \in Seq(DOMAIN G) /\ IsText(Q[k], G, q[k])
  <2> SUFFICES ASSUME NEW k \in DOMAIN q PROVE q[k] \in Seq(DOMAIN G) /\ IsText(Q[k], G, q[k])
    OBVIOUS
  <2>1. q[k] \in Seq(S) /\ IsText(Q[k], E, q[k])
    BY <1>1, <1>6
  <2> QED BY <2>1, TextGrow
<1>8. q \in Seq(Seq(DOMAIN G))
  <2>1. q \in [1 .. Len(q) -> Seq(DOMAIN G)]
    BY <1>6, <1>7
  <2> QED BY <1>6, <2>1, FunctionIsSeq
<1>9. Fragments(F) \in Seq(Token)
  BY FragmentsTyped DEF Token
<1> HIDE DEF p, G
<1>10. IsText(t, G, r \o p) /\ r \o p \in Seq(DOMAIN G)
  <2>1. r \in Seq(Nat) /\ p \in Seq(Nat)
    BY <1>2, <1>3, <1>5, PlaceIsNat
  <2>2. IsText(t, G, r \o p)
    BY <1>3, <1>5, <1>9, <2>1, TextConcat
  <2>3. r \o p \in Seq(DOMAIN G)
    BY <1>3, <1>5, ConcatProperties
  <2> QED BY <2>2, <2>3
<1>11. /\ InSequence(s, q, r \o p) /\ Apart(s, d, q, r \o p)
       /\ Covers(m, s, d, q, r) => Covers(m + n, s, d, q, r \o p)
  <2> HIDE DEF m, n
  <2>1. /\ s \in Seq(1 .. m) /\ d \in Seq(1 .. m) /\ q \in Seq(Seq(1 .. m)) /\ r \in Seq(1 .. m)
        /\ p \in Seq(1 .. m + n)
    BY <1>1, <1>2, <1>3
  <2> QED BY <1>1, <1>2, <1>4, <2>1, EmitKeeps
<1>12. complete => Covers(Len(G), s, d, q, r \o p)
  BY <1>1, <1>2, <1>11
<1>13. LaidOut(G, out, drop, Q, t, complete, s, d, q, r \o p)
  BY <1>1, <1>5, <1>7, <1>8, <1>10, <1>11, <1>12 DEF LaidOut
<1> QED BY <1>3, <1>13 DEF G

(* The writer gives up: what was queued is gone and counted nowhere.       *)
LEMMA LayFailed ==
    ASSUME NEW E, NEW out, NEW drop, NEW Q, NEW last, NEW complete, NEW s, NEW d, NEW q, NEW r,
           LaidOut(E, out, drop, Q, last, complete, s, d, q, r)
    PROVE  LaidOut(E, out, drop, <<>>, last, FALSE, s, d, <<>>, r)
<1>1. /\ DOMAIN <<>> = {} /\ Len(<<>>) = 0 /\ \A S : <<>> \in Seq(S)
  BY EmptySeq, LenProperties
<1>2. InSequence(s, <<>>, r)
  BY <1>1 DEF LaidOut, InSequence
<1>3. Apart(s, d, <<>>, r)
  BY <1>1 DEF LaidOut, Apart, Queued
<1> QED BY <1>1, <1>2, <1>3 DEF LaidOut

-----------------------------------------------------------------------------
(* The invariant of the stream, and a step of it.                          *)
SinkTyped ==
    /\ stdout \in Seq(Token) /\ dropped \in Seq(Token) /\ buf \in Seq(Token)
    /\ queue \in Seq(Seq(Token))

Whole == writer \in {"running", "done"}

Lines == \E s, d, q, r : LaidOut(emitted, stdout, dropped, queue, buf \o pending, Whole, s, d, q, r)

Streamed ==
    /\ SinkTyped
    /\ pc = "flush" => pending = <<>>
    /\ Workload => stdout = <<>> /\ dropped = <<>> /\ ~blocking
    /\ ~Workload => Lines

StreamStep == [Stream!Next]_<<IF Workload THEN <<>> ELSE AllLines(emitted), LinesIn(stdout),
                              Range(LinesIn(dropped)), blocking>>

LEMMA StreamHelpers ==
    /\ \A f : Stream!Range(f) = Range(f) /\ (Stream!IsInjective(f) <=> IsInjective(f))
    /\ \A t, u : (Stream!IsPrefix(t, u) <=> IsPrefix(t, u)) /\ (Stream!IsStrictPrefix(t, u) <=> IsStrictPrefix(t, u))
BY DEF Stream!Range, Range, Stream!IsInjective, IsInjective, Stream!IsPrefix, IsPrefix,
       Stream!IsStrictPrefix, IsStrictPrefix

LEMMA LinesShown ==
    ASSUME NEW E \in Seq(Record), NEW t \in Seq(Token), NEW p \in Seq(DOMAIN E), IsText(t, E, p)
    PROVE  LinesIn(t) = LinesAt(E, p)
BY TextLines DEF LinesAt

LEMMA LaidOutHas ==
    ASSUME NEW E, NEW out, NEW drop, NEW Q, NEW last, NEW complete, NEW s, NEW d, NEW q, NEW r,
           LaidOut(E, out, drop, Q, last, complete, s, d, q, r)
    PROVE  /\ s \in Seq(DOMAIN E) /\ d \in Seq(DOMAIN E) /\ r \in Seq(DOMAIN E)
           /\ IsText(out, E, s) /\ IsText(drop, E, d) /\ IsText(last, E, r)
BY DEF LaidOut

LEMMA TokensTyped ==
    ASSUME TypeOK
    PROVE  emitted \in Seq(Record) /\ pending \in Seq(Token)
BY DEF TypeOK, Token

(* Records are emitted when nothing of the last ones is left to write.     *)
LEMMA EmitStep ==
    ASSUME TypeOK, SinkTyped, Lines, ~Workload, pending = <<>>, IsInjective(emitted'),
           NEW F \in Seq(Record), emitted' = emitted \o F, pending' = Fragments(F),
           UNCHANGED <<mode, buf, stdout, dropped, queue, writer, blocking>>
    PROVE  Lines' /\ StreamStep
<1>1. emitted \in Seq(Record) /\ buf \o pending = buf
  BY ConcatEmptySeq DEF TypeOK, SinkTyped
<1>2. PICK s, d, q, r : LaidOut(emitted, stdout, dropped, queue, buf, Whole, s, d, q, r)
  BY <1>1 DEF Lines
<1>3. \E p : LaidOut(emitted \o F, stdout, dropped, queue, buf \o Fragments(F), Whole, s, d, q, p)
  <2>1. buf \in Seq(Token)
    BY DEF SinkTyped
  <2> HIDE DEF Whole
  <2> QED BY <1>1, <1>2, <2>1, LayEmitted
<1>4. Lines'
  <2>1. Whole' = Whole
    BY DEF Whole
  <2> QED BY <1>3, <2>1 DEF Lines
<1>5. StreamStep
  <2>1. Workload' = Workload
    BY DEF Workload
  <2>2. CASE F = <<>>
    <3>1. emitted' = emitted
      BY <1>1, <2>2, ConcatEmptySeq
    <3> QED BY <2>1, <3>1 DEF StreamStep
  <2>3. CASE F # <<>>
    <3>1. /\ Len(AllLines(emitted')) > Len(AllLines(emitted))
          /\ IsPrefix(AllLines(emitted), AllLines(emitted'))
          /\ IsInjective(AllLines(emitted'))
      BY <1>1, <2>3, EmitSeen
    <3>2. Stream!Emit
      BY <2>1, <3>1, StreamHelpers DEF Stream!Emit, AllLines
    <3> QED BY <3>2 DEF StreamStep, Stream!Next
  <2> QED BY <2>2, <2>3
<1> QED BY <1>4, <1>5

LEMMA DropSeen ==
    ASSUME NEW E \in Seq(Record), NEW out \in Seq(Token), NEW drop \in Seq(Token), NEW Q, NEW last,
           NEW complete, NEW s, NEW d, NEW q, NEW a \in Seq(DOMAIN E), NEW b \in Seq(DOMAIN E),
           LaidOut(E, out, drop, Q, last, complete, s, d, q, a \o b), IsInjective(E),
           NEW chunk \in Seq(Token), NEW rest, IsText(chunk, E, a), IsText(rest, E, b)
    PROVE  /\ LaidOut(E, out, drop \o chunk, Q, rest, complete, s, d \o a, q, b)
           /\ drop \o chunk \in Seq(Token)
           /\ Range(LinesIn(drop)) \subseteq Range(LinesIn(drop \o chunk))
           /\ Range(LinesIn(drop \o chunk)) \subseteq
                 Range(LinesIn(drop)) \cup (Range(AllLines(E)) \ Range(LinesIn(out)))
<1>1. /\ LaidOut(E, out, drop \o chunk, Q, rest, complete, s, d \o a, q, b)
      /\ \A x \in Range(a) : x \notin Range(s)
  BY LayDropped
<1>2. drop \o chunk \in Seq(Token)
  BY ConcatProperties
<1>3. LinesIn(out) = LinesAt(E, s) /\ LinesIn(drop) = LinesAt(E, d)
  BY LinesShown DEF LaidOut
<1>4. LinesIn(drop \o chunk) = LinesAt(E, d \o a)
  BY <1>1, <1>2, LinesShown DEF LaidOut
<1>5. s \in Seq(DOMAIN E) /\ d \in Seq(DOMAIN E)
  BY DEF LaidOut
<1>6. /\ Range(LinesAt(E, d)) \subseteq Range(LinesAt(E, d \o a))
      /\ Range(LinesAt(E, d \o a)) \subseteq
            Range(LinesAt(E, d)) \cup (Range(AllLines(E)) \ Range(LinesAt(E, s)))
  BY <1>1, <1>5, LoseSeen
<1> QED BY <1>1, <1>2, <1>3, <1>4, <1>6

(* A chunk of whole lines is queued, or dropped.                           *)
LEMMA SendAt ==
    ASSUME TypeOK, SinkTyped, ~Workload, IsInjective(emitted),
           NEW s, NEW d, NEW q, NEW a \in Seq(DOMAIN emitted), NEW b \in Seq(DOMAIN emitted),
           LaidOut(emitted, stdout, dropped, queue, buf \o pending, Whole, s, d, q, a \o b),
           NEW chunk \in Seq(Token), NEW rest \in Seq(Token),
           IsText(chunk, emitted, a), IsText(rest, emitted, b)
    PROVE  Enqueue(chunk) /\ buf' \o pending' = rest /\ UNCHANGED <<mode, emitted, stdout, writer, blocking>>
              => dropped' \in Seq(Token) /\ queue' \in Seq(Seq(Token)) /\ Lines' /\ StreamStep
<1>1. emitted \in Seq(Record) /\ stdout \in Seq(Token) /\ dropped \in Seq(Token) /\ queue \in Seq(Seq(Token))
  BY DEF TypeOK, SinkTyped
<1> DEFINE last == buf \o pending
<1>2. LaidOut(emitted, stdout, dropped, queue, last, Whole, s, d, q, a \o b)
  OBVIOUS
<1> HIDE DEF last, Whole
<1>3. LaidOut(emitted, stdout, dropped, Append(queue, chunk), rest, Whole, s, d, Append(q, a), b)
  BY <1>1, <1>2, LaySent
<1>4. /\ LaidOut(emitted, stdout, dropped \o chunk, queue, rest, Whole, s, d \o a, q, b)
      /\ dropped \o chunk \in Seq(Token)
      /\ Range(LinesIn(dropped)) \subseteq Range(LinesIn(dropped \o chunk))
      /\ Range(LinesIn(dropped \o chunk)) \subseteq
            Range(LinesIn(dropped)) \cup (Range(AllLines(emitted)) \ Range(LinesIn(stdout)))
  BY <1>1, <1>2, DropSeen
<1> SUFFICES ASSUME Enqueue(chunk), buf' \o pending' = rest, UNCHANGED <<mode, emitted, stdout, writer, blocking>>
             PROVE  dropped' \in Seq(Token) /\ queue' \in Seq(Seq(Token)) /\ Lines' /\ StreamStep
  OBVIOUS
<1>5. Whole' = Whole /\ Workload' = Workload
  BY DEF Whole, Workload
<1>6. CASE queue' = Append(queue, chunk) /\ dropped' = dropped
  <2>1. Lines'
    BY <1>3, <1>5, <1>6 DEF Lines
  <2>2. queue' \in Seq(Seq(Token))
    BY <1>1, <1>6, AppendProperties
  <2>3. StreamStep
    BY <1>5, <1>6 DEF StreamStep
  <2> QED BY <1>1, <1>6, <2>1, <2>2, <2>3
<1>7. CASE ~blocking /\ dropped' = dropped \o chunk /\ queue' = queue
  <2>1. Lines'
    BY <1>4, <1>5, <1>7 DEF Lines
  <2>2. /\ Range(LinesIn(dropped)) \subseteq Range(LinesIn(dropped'))
        /\ Range(LinesIn(dropped')) \subseteq
              Range(LinesIn(dropped)) \cup (Range(AllLines(emitted)) \ Range(LinesIn(stdout)))
    BY <1>4, <1>7
  <2>3. Stream!Lose
    BY <1>5, <1>7, <2>2, StreamHelpers DEF Stream!Lose, AllLines
  <2> QED BY <1>1, <1>4, <1>7, <2>1, <2>3 DEF StreamStep, Stream!Next
<1> QED BY <1>6, <1>7 DEF Enqueue

LEMMA SendStep ==
    ASSUME TypeOK, SinkTyped, Lines, ~Workload, IsInjective(emitted),
           NEW chunk \in Seq(Token), NEW rest \in Seq(Token),
           \A p \in Seq(DOMAIN emitted) :
              IsText(buf \o pending, emitted, p) => CutInto(emitted, p, chunk, rest),
           Enqueue(chunk), buf' \o pending' = rest,
           UNCHANGED <<mode, emitted, stdout, writer, blocking>>
    PROVE  dropped' \in Seq(Token) /\ queue' \in Seq(Seq(Token)) /\ Lines' /\ StreamStep
<1>1. PICK s, d, q, r : LaidOut(emitted, stdout, dropped, queue, buf \o pending, Whole, s, d, q, r)
  BY DEF Lines
<1>2. r \in Seq(DOMAIN emitted) /\ IsText(buf \o pending, emitted, r)
  BY <1>1 DEF LaidOut
<1>3. PICK a \in Seq(DOMAIN emitted), b \in Seq(DOMAIN emitted) :
         r = a \o b /\ IsText(chunk, emitted, a) /\ IsText(rest, emitted, b)
  BY <1>2 DEF CutInto
<1>4. LaidOut(emitted, stdout, dropped, queue, buf \o pending, Whole, s, d, q, a \o b)
  BY <1>1, <1>3
<1>5. IsText(chunk, emitted, a) /\ IsText(rest, emitted, b)
  BY <1>3
<1> HIDE DEF Whole
<1> QED BY <1>4, <1>5, SendAt

LEMMA DeliverIs ==
    ASSUME ~Workload, UNCHANGED <<mode, emitted, dropped, blocking>>,
           Delivers(AllLines(emitted), LinesIn(stdout), LinesIn(stdout'), Range(LinesIn(dropped)))
    PROVE  Stream!Deliver
<1> DEFINE A == AllLines(emitted)
           L == LinesIn(stdout)
           M == LinesIn(stdout')
           D == Range(LinesIn(dropped))
           bar == IF Workload THEN <<>> ELSE [i \in DOMAIN emitted |-> <<emitted[i]>>]
<1>1. A = bar
  BY DEF AllLines
<1>2. UNCHANGED <<bar, D, blocking>>
  BY DEF Workload
<1>3. LinesIn(stdout)' = M
  OBVIOUS
<1> HIDE DEF A, L, M, D, bar
<1>4. /\ IsStrictPrefix(L, M)
      /\ \A i, j \in DOMAIN M : i < j => \E x, y \in DOMAIN bar : x < y /\ bar[x] = M[i] /\ bar[y] = M[j]
      /\ \E m \in DOMAIN bar : Range(M) = { bar[i] : i \in 1 .. m } \ D
  BY <1>1 DEF Delivers, A, L, M, D
<1>5. Stream!IsStrictPrefix(L, M) /\ Stream!Range(M) = Range(M)
  BY <1>4, StreamHelpers
<1>6. /\ Stream!IsStrictPrefix(L, M)
      /\ \A i, j \in DOMAIN M : i < j => \E x, y \in DOMAIN bar : x < y /\ bar[x] = M[i] /\ bar[y] = M[j]
      /\ \E m \in DOMAIN bar : Stream!Range(M) = { bar[i] : i \in 1 .. m } \ D
      /\ UNCHANGED <<bar, D, blocking>>
  BY <1>2, <1>4, <1>5
<1> QED BY <1>6 DEF Stream!Deliver, Stream!Ordered, L, M, D, bar

(* The reader gets a chunk.                                                *)
LEMMA ReadStep ==
    ASSUME TypeOK, SinkTyped, Lines, ~Workload, IsInjective(emitted), WriteChunk
    PROVE  stdout' \in Seq(Token) /\ queue' \in Seq(Seq(Token)) /\ Lines' /\ StreamStep
<1>1. /\ emitted \in Seq(Record) /\ stdout \in Seq(Token) /\ dropped \in Seq(Token) /\ queue \in Seq(Seq(Token))
      /\ queue # <<>> /\ queue' = Tail(queue) /\ stdout' = stdout \o Head(queue)
      /\ UNCHANGED <<mode, emitted, pending, buf, dropped, writer, blocking>> /\ Whole
  BY DEF TypeOK, SinkTyped, WriteChunk, engine, Whole
<1>2. Head(queue) \in Seq(Token) /\ stdout' \in Seq(Token) /\ queue' \in Seq(Seq(Token))
  <2>1. Head(queue) \in Seq(Token) /\ queue' \in Seq(Seq(Token))
    BY <1>1, HeadTailProperties
  <2>2. stdout \o Head(queue) \in Seq(Token)
    BY <1>1, <2>1, ConcatProperties
  <2> QED BY <1>1, <2>1, <2>2
<1>3. PICK s, d, q, r : LaidOut(emitted, stdout, dropped, queue, buf \o pending, Whole, s, d, q, r)
  BY <1>1 DEF Lines
<1> DEFINE E == emitted
           a == q[1]
           t == s \o a
           h == Tail(q)
<1>4. /\ q # <<>> /\ a \in Seq(DOMAIN E)
      /\ LaidOut(E, stdout \o Head(queue), dropped, Tail(queue), buf \o pending, Whole, t, d, h, r)
      /\ \A x \in Range(a) : \A y : (y \in Range(r) \/ Queued(y, h)) => x < y
  <2> DEFINE last == buf \o pending
  <2> HIDE DEF last, Whole
  <2>1. LaidOut(emitted, stdout, dropped, queue, last, Whole, s, d, q, r)
    BY <1>3 DEF last
  <2>2. /\ q # <<>> /\ q[1] \in Seq(DOMAIN E)
        /\ LaidOut(E, stdout \o Head(queue), dropped, Tail(queue), last, Whole, s \o q[1], d, Tail(q), r)
        /\ \A x \in Range(q[1]) : \A y : (y \in Range(r) \/ Queued(y, Tail(q))) => x < y
    BY <1>1, <2>1, LayWritten
  <2> QED BY <2>2 DEF last
<1>5. Lines'
  <2>1. Whole' = Whole
    BY <1>1 DEF Whole
  <2> QED BY <1>1, <1>4, <2>1 DEF Lines
<1>6. /\ s \in Seq(DOMAIN E) /\ d \in Seq(DOMAIN E) /\ t \in Seq(DOMAIN E) /\ Rising(t)
      /\ (\A x \in Range(d) : x \notin Range(t)) /\ Covers(Len(E), t, d, h, r)
  BY <1>1, <1>3, <1>4 DEF LaidOut, InSequence, Apart
<1>7. LinesIn(stdout) = LinesAt(E, s) /\ LinesIn(dropped) = LinesAt(E, d) /\ LinesIn(stdout') = LinesAt(E, t)
  <2>1. IsText(stdout, E, s) /\ IsText(dropped, E, d) /\ IsText(stdout', E, t)
    BY <1>1, <1>3, <1>4 DEF LaidOut
  <2> HIDE DEF t
  <2>2. LinesIn(stdout) = LinesAt(E, s) /\ LinesIn(dropped) = LinesAt(E, d)
    BY <1>1, <1>6, <2>1, LinesShown
  <2>3. LinesIn(stdout') = LinesAt(E, t)
    BY <1>1, <1>2, <1>6, <2>1, LinesShown
  <2> QED BY <2>2, <2>3
<1>8. Workload' = Workload
  BY <1>1 DEF Workload
<1>9. CASE a = <<>>
  <2>1. t = s
    BY <1>6, <1>9, ConcatEmptySeq
  <2>2. LinesIn(stdout') = LinesIn(stdout)
    BY <1>7, <2>1
  <2>3. StreamStep
    BY <1>1, <1>8, <2>2 DEF StreamStep
  <2> QED BY <1>2, <1>5, <2>3
<1>10. CASE a # <<>>
  <2> DEFINE n == a[Len(a)]
  <2>1. /\ Len(a) \in Nat \ {0} /\ DOMAIN a = 1 .. Len(a) /\ n \in DOMAIN E /\ n \in Range(a)
    <3>1. Len(a) \in Nat \ {0} /\ DOMAIN a = 1 .. Len(a)
      BY <1>4, <1>10, EmptySeq, LenProperties
    <3>2. Len(a) \in 1 .. Len(a)
      BY <3>1
    <3> QED BY <1>4, <3>1, <3>2, ElementOfSeq DEF Range
  <2>2. /\ DOMAIN t = 1 .. Len(s) + Len(a) /\ t[Len(s) + Len(a)] = n /\ Len(s) \in Nat
        /\ DOMAIN E \subseteq Nat
    <3>1. /\ t \in Seq(DOMAIN E) /\ Len(t) = Len(s) + Len(a)
          /\ \A i \in 1 .. Len(s) + Len(a) : t[i] = IF i <= Len(s) THEN s[i] ELSE a[i - Len(s)]
      BY <1>4, <1>6, ConcatProperties
    <3>2. Len(s) \in Nat /\ DOMAIN E \subseteq Nat
      BY <1>1, <1>6, LenProperties, PlacesAreNats
    <3> HIDE DEF t, a, E
    <3>3. /\ Len(s) + Len(a) \in 1 .. Len(s) + Len(a) /\ ~(Len(s) + Len(a) <= Len(s))
          /\ Len(s) + Len(a) - Len(s) = Len(a)
      BY <2>1, <3>2
    <3>4. DOMAIN t = 1 .. Len(s) + Len(a)
      BY <3>1, LenProperties
    <3> QED BY <3>1, <3>2, <3>3, <3>4
  <2>3. \A x \in Range(t) : x <= n
    <3> SUFFICES ASSUME NEW i \in DOMAIN t PROVE t[i] <= n
      BY DEF Range
    <3> DEFINE m == Len(s) + Len(a)
    <3>1. i \in 1 .. m /\ m \in DOMAIN t /\ t[m] = n /\ n \in Nat
      BY <1>6, <2>1, <2>2
    <3>2. t[i] \in Nat
      BY <1>6, <2>2, ElementOfSeq, LenProperties
    <3> HIDE DEF t, m, n
    <3>3. CASE i = m
      BY <3>1, <3>3
    <3>4. CASE i < m
      BY <1>6, <3>1, <3>2, <3>4 DEF Rising
    <3>5. i = m \/ i < m
      BY <2>1, <2>2, <3>1 DEF m
    <3> QED BY <3>3, <3>4, <3>5
  <2>4. \A x \in 1 .. n : x \in Range(t) \/ x \in Range(d)
    <3> SUFFICES ASSUME NEW x \in 1 .. n, x \notin Range(t), x \notin Range(d) PROVE FALSE
      OBVIOUS
    <3>1. n \in Nat /\ n <= Len(E) /\ Len(E) \in Nat
      BY <1>1, <2>1, PlacesAreNats
    <3>2. x \in 1 .. Len(E) /\ ~(n < x)
      <4> HIDE DEF n, E
      <4> QED BY <3>1
    <3>3. x \in Range(r) \/ Queued(x, h)
      BY <1>6, <3>2 DEF Covers
    <3>4. n < x
      BY <1>4, <2>1, <3>3
    <3> QED BY <3>2, <3>4
  <2> HIDE DEF n
  <2>5. Delivers(AllLines(E), LinesAt(E, s), LinesAt(E, t), Range(LinesAt(E, d)))
    <3>1. /\ E \in Seq(Record) /\ IsInjective(E) /\ n \in DOMAIN E
          /\ a \in Seq(DOMAIN E) /\ a # <<>> /\ s \in Seq(DOMAIN E) /\ d \in Seq(DOMAIN E)
      BY <1>1, <1>4, <1>6, <1>10, <2>1
    <3> HIDE DEF a, E
    <3>2. Rising(s \o a) /\ (\A x \in Range(d) : x \notin Range(s \o a)) /\ (\A x \in Range(s \o a) : x <= n)
      BY <1>6, <2>3
    <3>3. \A x \in 1 .. n : x \in Range(s \o a) \/ x \in Range(d)
      BY <2>4
    <3> QED BY <3>1, <3>2, <3>3, DeliverSeen
  <2>6. Stream!Deliver
    BY <1>1, <1>7, <2>5, DeliverIs
  <2> QED BY <1>2, <1>5, <2>6 DEF StreamStep, Stream!Next
<1> QED BY <1>9, <1>10

(* Nothing the reader could see moves, but for the end of the loop.        *)
LEMMA KeptStep ==
    ASSUME SinkTyped, Lines, ~Workload, UNCHANGED <<mode, emitted, stdout, dropped, queue>>,
           buf' \in Seq(Token), buf' \o pending' = buf \o pending, Whole' = Whole,
           blocking' = blocking \/ blocking' = TRUE
    PROVE  SinkTyped' /\ Lines' /\ StreamStep
<1>1. SinkTyped' /\ Lines'
  BY DEF SinkTyped, Lines
<1>2. Workload' = Workload
  BY DEF Workload
<1>3. CASE blocking' = blocking
  BY <1>1, <1>2, <1>3 DEF StreamStep
<1>4. CASE blocking' = TRUE
  <2>1. Stream!Close
    BY <1>2, <1>4 DEF Stream!Close
  <2> QED BY <1>1, <2>1 DEF StreamStep, Stream!Next
<1> QED BY <1>1, <1>3, <1>4

LEMMA FailStep ==
    ASSUME SinkTyped, Lines, ~Workload, WriteFails
    PROVE  SinkTyped' /\ Lines' /\ StreamStep
<1>1. /\ queue' = <<>> /\ Whole' = FALSE
      /\ UNCHANGED <<mode, emitted, pending, buf, dropped, stdout, blocking>>
  <2>1. writer' \in WriteErrors /\ queue' = <<>>
        /\ UNCHANGED <<mode, emitted, pending, buf, dropped, stdout, blocking>>
    BY DEF WriteFails, engine
  <2>2. writer' \notin {"running", "done"}
    BY <2>1, AgentAssumption
  <2>3. Whole' = FALSE
    BY <2>2 DEF Whole
  <2> QED BY <2>1, <2>3
<1>2. SinkTyped'
  BY <1>1, EmptySeq DEF SinkTyped
<1>3. Lines'
  <2>1. PICK s, d, q, r : LaidOut(emitted, stdout, dropped, queue, buf \o pending, Whole, s, d, q, r)
    BY DEF Lines
  <2>2. LaidOut(emitted, stdout, dropped, <<>>, buf \o pending, FALSE, s, d, <<>>, r)
    <3> DEFINE last == buf \o pending
    <3>1. LaidOut(emitted, stdout, dropped, queue, last, Whole, s, d, q, r)
      BY <2>1
    <3> HIDE DEF last, Whole
    <3>2. LaidOut(emitted, stdout, dropped, <<>>, last, FALSE, s, d, <<>>, r)
      BY <3>1, LayFailed
    <3> QED BY <3>2 DEF last
  <2> QED BY <1>1, <2>2 DEF Lines
<1>4. Workload' = Workload
  BY <1>1 DEF Workload
<1> QED BY <1>1, <1>2, <1>3, <1>4 DEF StreamStep

(* Everything at hand goes out at the end of a batch and at the close.     *)
LEMMA FlushStep ==
    ASSUME TypeOK, SinkTyped, Lines, ~Workload, IsInjective(emitted), pending = <<>>, Flush,
           UNCHANGED <<mode, emitted, pending, stdout, writer, blocking>>
    PROVE  SinkTyped' /\ Lines' /\ StreamStep
<1>1. buf \in Seq(Token) /\ <<>> \in Seq(Token) /\ Whole' = Whole
  BY EmptySeq DEF SinkTyped, Whole
<1>2. CASE buf = <<>>
  BY <1>1, <1>2, KeptStep DEF Flush
<1>3. CASE buf # <<>>
  <2>1. Enqueue(buf) /\ buf' = <<>>
    BY <1>3 DEF Flush
  <2>2. buf \o pending = buf /\ buf' \o pending' = <<>>
    BY <1>1, <2>1, ConcatEmptySeq
  <2>3. ASSUME NEW p \in Seq(DOMAIN emitted), IsText(buf \o pending, emitted, p)
        PROVE  CutInto(emitted, p, buf, <<>>)
    <3>1. p = p \o <<>> /\ <<>> \in Seq(DOMAIN emitted)
      BY ConcatEmptySeq, EmptySeq
    <3>2. IsText(<<>>, emitted, <<>>)
      BY DEF IsText
    <3> QED BY <2>2, <2>3, <3>1, <3>2 DEF CutInto
  <2>4. dropped' \in Seq(Token) /\ queue' \in Seq(Seq(Token)) /\ Lines' /\ StreamStep
    BY <1>1, <2>1, <2>2, <2>3, SendStep
  <2> QED BY <1>1, <2>1, <2>4 DEF SinkTyped
<1> QED BY <1>2, <1>3

(* A fragment is written to the sink.                                      *)
LEMMA FragmentStep ==
    ASSUME TypeOK, SinkTyped, Lines, ~Workload, IsInjective(emitted), Write
    PROVE  SinkTyped' /\ Lines' /\ StreamStep
<1> DEFINE text == Append(buf, Head(pending))
           rest == Tail(pending)
           cut == LastNewline(text)
<1>1. pending # <<>> /\ UNCHANGED <<mode, emitted, stdout, writer, blocking>> /\ Whole' = Whole
  BY DEF Write, output, Whole
<1>2. pending \in Seq(Token) /\ buf \in Seq(Token) /\ emitted \in Seq(Record)
  BY TokensTyped DEF SinkTyped
<1>3. Head(pending) \in Token /\ rest \in Seq(Token) /\ text \in Seq(Token)
  BY <1>1, <1>2, HeadTailProperties, AppendProperties
<1>4. text \o rest = buf \o pending
  <2> DEFINE one == <<Head(pending)>>
  <2>1. one \in Seq(Token) /\ pending = one \o rest
    <3>1. one \in Seq(Token)
      BY <1>3
    <3>2. pending = one \o rest
      BY <1>1, <1>2
    <3> QED BY <3>1, <3>2
  <2>2. text = buf \o one
    BY <1>2
  <2>3. (buf \o one) \o rest = buf \o (one \o rest)
    BY <1>2, <1>3, <2>1, TextAssociative
  <2> QED BY <2>1, <2>2, <2>3
<1>5. CASE Sends(text) /\ WriterGone
  <2>1. UNCHANGED <<pending, buf, queue, dropped>>
    BY <1>5 DEF Write
  <2> QED BY <1>1, <1>2, <2>1, KeptStep
<1>6. CASE ~(Sends(text) /\ WriterGone)
  <2>1. SendSlab(text) /\ pending' = rest
    BY <1>6 DEF Write
  <2>2. CASE ~Sends(text)
    <3>1. buf' = text /\ UNCHANGED <<queue, dropped>>
      BY <2>1, <2>2 DEF SendSlab
    <3>2. buf' \o pending' = buf \o pending
      BY <1>4, <2>1, <3>1
    <3> QED BY <1>1, <1>3, <3>1, <3>2, KeptStep
  <2>3. CASE Sends(text)
    <3> DEFINE chunk == SubSeq(text, 1, cut)
               tail == SubSeq(text, cut + 1, Len(text))
    <3>1. Enqueue(chunk) /\ buf' = tail
      BY <2>1, <2>3 DEF SendSlab
    <3>2. cut > 0
      BY <2>3 DEF Sends
    <3>3. ASSUME NEW p \in Seq(DOMAIN emitted), IsText(text \o rest, emitted, p)
          PROVE  /\ chunk \in Seq(Token) /\ tail \in Seq(Token)
                 /\ CutInto(emitted, p, chunk, tail \o rest)
      <4> HIDE DEF text, rest
      <4> QED BY <1>2, <1>3, <3>2, <3>3, TextCut
    <3> HIDE DEF text, rest, cut, chunk, tail
    <3>4. chunk \in Seq(Token) /\ tail \in Seq(Token)
      <4>1. PICK s, d, q, r : LaidOut(emitted, stdout, dropped, queue, buf \o pending, Whole, s, d, q, r)
        BY DEF Lines
      <4>2. r \in Seq(DOMAIN emitted) /\ IsText(text \o rest, emitted, r)
        BY <1>4, <4>1 DEF LaidOut
      <4> QED BY <3>3, <4>2
    <3>5. tail \o rest \in Seq(Token) /\ buf' \o pending' = tail \o rest
      <4>1. tail \o rest \in Seq(Token)
        BY <1>3, <3>4, ConcatProperties
      <4> QED BY <2>1, <3>1, <4>1
    <3>6. \A p \in Seq(DOMAIN emitted) :
             IsText(buf \o pending, emitted, p) => CutInto(emitted, p, chunk, tail \o rest)
      BY <1>4, <3>3
    <3>7. dropped' \in Seq(Token) /\ queue' \in Seq(Seq(Token)) /\ Lines' /\ StreamStep
      <4> DEFINE left == tail \o rest
      <4>1. /\ left \in Seq(Token) /\ buf' \o pending' = left
            /\ \A p \in Seq(DOMAIN emitted) :
                  IsText(buf \o pending, emitted, p) => CutInto(emitted, p, chunk, left)
        BY <3>5, <3>6
      <4> HIDE DEF left
      <4> QED BY <1>1, <3>1, <3>4, <4>1, SendStep
    <3>8. stdout' \in Seq(Token) /\ buf' \in Seq(Token)
      BY <1>1, <3>1, <3>4 DEF SinkTyped
    <3> QED BY <3>7, <3>8 DEF SinkTyped
  <2> QED BY <2>2, <2>3
<1> QED BY <1>5, <1>6

LEMMA StreamInit == Init => Streamed /\ Stream!Init
<1> SUFFICES ASSUME Init PROVE Streamed /\ Stream!Init
  OBVIOUS
<1>1. /\ emitted = <<>> /\ pending = <<>> /\ buf = <<>> /\ dropped = <<>> /\ queue = <<>> /\ stdout = <<>>
      /\ blocking = FALSE /\ pc = "select"
  BY DEF Init
<1>2. /\ <<>> \in Seq(Record) /\ <<>> \in Seq(Token) /\ <<>> \in Seq(Seq(Token)) /\ <<>> \in Seq(DOMAIN <<>>)
      /\ <<>> \in Seq(Seq(DOMAIN <<>>)) /\ Len(<<>>) = 0 /\ DOMAIN <<>> = {} /\ Range(<<>>) = {}
  BY EmptySeq DEF Range
<1>3. IsText(<<>>, <<>>, <<>>)
  BY <1>2 DEF IsText
<1>4. InSequence(<<>>, <<>>, <<>>) /\ Apart(<<>>, <<>>, <<>>, <<>>) /\ Covers(0, <<>>, <<>>, <<>>, <<>>)
  BY <1>2 DEF InSequence, Apart, Covers, Rising, Ahead, Queued
<1>5. LaidOut(<<>>, <<>>, <<>>, <<>>, <<>>, Whole, <<>>, <<>>, <<>>, <<>>)
  BY <1>2, <1>3, <1>4 DEF LaidOut
<1>6. Lines
  <2>1. buf \o pending = <<>>
    BY <1>1, <1>2, ConcatEmptySeq
  <2> QED BY <1>1, <1>5, <2>1 DEF Lines
<1>7. LinesIn(<<>>) = <<>>
  <2>1. LinesIn(<<>>) = [k \in DOMAIN <<>> |-> <<(<<>>)[(<<>>)[k]]>>]
    BY <1>2, <1>3, TextLines
  <2> QED BY <2>1
<1>8. Stream!Init
  <2>1. Stream!Range(<<>>) = {}
    BY <1>2, StreamHelpers
  <2>2. Range(LinesIn(dropped)) = {} /\ LinesIn(stdout) = <<>>
    BY <1>1, <1>2, <1>7
  <2> QED BY <1>1, <2>2 DEF Stream!Init
<1>9. Streamed
  BY <1>1, <1>2, <1>6 DEF Streamed, SinkTyped
<1> QED BY <1>8, <1>9

(* The fold before flush_open_ops has written all it emitted.              *)
LEMMA FlushPending ==
    ASSUME pc = "flush" => pending = <<>>, Next
    PROVE  pc' = "flush" => pending' = <<>>
<1>1. CASE NextRing
  BY <1>1 DEF NextRing, engine
<1>2. CASE FlushOpenOps
  BY <1>2 DEF FlushOpenOps
<1>3. CASE Write
  BY <1>3 DEF Write
<1>4. CASE FoldNext \/ FoldFinal
  BY <1>4 DEF FoldNext, FoldFinal
<1>5. CASE pc' = pc /\ pending' = pending
  BY <1>5
<1>6. CASE pc' # "flush"
  BY <1>6
<1>7. \/ NextRing \/ FlushOpenOps \/ Write \/ FoldNext \/ FoldFinal
      \/ pc' = pc /\ pending' = pending
      \/ pc' # "flush"
  BY DEF Next, Kernel, Outside, DriverEnds, Writer, WriteChunk, WriteFails, WriterEnds, PollDriver, Arms, Reap,
         TakeResult, StopOnSignal, StopOnDeadline, StopOnProof, StartBatch, Leave, Batch, EndBatch, BrokenPipe,
         Shutdown, BeginFinal, CloseSink, Join, Return, engine
<1> QED BY <1>1, <1>2, <1>3, <1>4, <1>5, <1>6, <1>7

(* A workload writes nothing.                                              *)
LEMMA WorkloadStep ==
    ASSUME Inv, Streamed, Workload, Next
    PROVE  /\ UNCHANGED <<mode, stdout, dropped, buf, queue, blocking>>
           /\ StreamStep
<1>1. pending = <<>> /\ buf = <<>> /\ queue = <<>> /\ blocking = FALSE /\ blocking \in BOOLEAN
  BY DEF Inv, Closing, Streamed, TypeOK
<1>2. ~WriteChunk /\ ~WriteFails /\ ~Write /\ ~CloseSink
  BY <1>1 DEF WriteChunk, WriteFails, Write, CloseSink
<1>3. UNCHANGED <<mode, stdout, dropped, buf, queue, blocking>>
  <2>1. CASE EndBatch
    BY <1>1, <2>1 DEF EndBatch, Flush, FlushFails, engine, output
  <2>2. CASE StopOnSignal \/ StopOnDeadline \/ StopOnProof
    BY <1>1, <2>2 DEF StopOnSignal, StopOnDeadline, StopOnProof, Leave, engine, output
  <2>3. \/ EndBatch \/ StopOnSignal \/ StopOnDeadline \/ StopOnProof
        \/ UNCHANGED <<mode, stdout, dropped, buf, queue, blocking>>
    BY <1>2 DEF Next, Kernel, Outside, DriverEnds, Writer, WriterEnds, PollDriver, Arms, Reap, TakeResult,
                StartBatch, Batch, FoldNext, Shutdown, BeginFinal, FoldFinal, NextRing, FlushOpenOps, Join,
                Return, sink, output
  <2> QED BY <2>1, <2>2, <2>3
<1>4. Workload' = Workload
  BY <1>3 DEF Workload
<1> QED BY <1>3, <1>4 DEF StreamStep

LEMMA CaptureStep ==
    ASSUME Inv, Once, Once', Streamed, ~Workload, Next
    PROVE  SinkTyped' /\ Lines' /\ StreamStep /\ mode' = mode
<1>1. TypeOK /\ SinkTyped /\ Lines /\ IsInjective(emitted) /\ IsInjective(emitted')
  BY DEF Inv, Streamed, Once
<1>2. CASE FoldNext \/ FoldFinal
  <2>1. pending = <<>> /\ at \in Rings /\ ring[at] # <<>> /\ Fold(at)
        /\ UNCHANGED <<mode, buf, stdout, dropped, queue, writer, blocking>>
    BY <1>1, <1>2 DEF FoldNext, FoldFinal, TypeOK, sink, output
  <2> DEFINE F == RecordsOf(Head(ring[at]))
  <2>2. emitted' = emitted \o F /\ pending' = Fragments(F)
    BY <2>1 DEF Fold
  <2>3. F \in Seq(Record)
    <3>1. Head(ring[at]) \in Event
      BY <1>1, <2>1, FoldTyped DEF Inv
    <3> QED BY <1>1, <3>1, RecordsTyped DEF TypeOK
  <2> HIDE DEF F
  <2>4. Lines' /\ StreamStep
    BY <1>1, <2>1, <2>2, <2>3, EmitStep
  <2> QED BY <1>1, <2>1, <2>4 DEF SinkTyped
<1>3. CASE FlushOpenOps
  <2>1. pending = <<>> /\ UNCHANGED <<mode, buf, stdout, dropped, queue, writer, blocking>>
    BY <1>3 DEF FlushOpenOps, Streamed, sink, output
  <2>2. PICK F \in Seq(Record) : emitted' = emitted \o F /\ pending' = Fragments(F)
    BY <1>3, FlushOnce DEF Inv
  <2>3. Lines' /\ StreamStep
    BY <1>1, <2>1, <2>2, EmitStep
  <2> QED BY <1>1, <2>1, <2>3 DEF SinkTyped
<1>4. CASE Write
  BY <1>1, <1>4, FragmentStep DEF Write
<1>5. CASE (EndBatch \/ CloseSink) /\ Flush
  <2>1. pending = <<>> /\ UNCHANGED <<mode, emitted, pending, stdout, writer, blocking>>
    BY <1>5 DEF EndBatch, CloseSink, engine, output
  <2> QED BY <1>1, <1>5, <2>1, FlushStep
<1>6. CASE WriteChunk
  <2>1. stdout' \in Seq(Token) /\ queue' \in Seq(Seq(Token)) /\ Lines' /\ StreamStep
    BY <1>1, <1>6, ReadStep
  <2>2. UNCHANGED <<mode, buf, dropped>>
    BY <1>6 DEF WriteChunk
  <2> QED BY <1>1, <2>1, <2>2 DEF SinkTyped
<1>7. CASE WriteFails
  BY <1>1, <1>7, FailStep DEF WriteFails
<1> DEFINE Quietly ==
             /\ UNCHANGED <<mode, emitted, stdout, dropped, queue, buf, pending>>
             /\ writer' = writer \/ (writer = "running" /\ writer' = "done")
             /\ blocking' = blocking \/ blocking' = TRUE
<1>8. CASE Quietly
  <2>1. Whole' = Whole
    BY <1>8 DEF Whole
  <2>2. buf' \in Seq(Token) /\ buf' \o pending' = buf \o pending
    BY <1>1, <1>8 DEF SinkTyped
  <2> QED BY <1>1, <1>8, <2>1, <2>2, KeptStep
<1>9. \/ FoldNext \/ FoldFinal \/ FlushOpenOps \/ Write \/ ((EndBatch \/ CloseSink) /\ Flush)
      \/ WriteChunk \/ WriteFails \/ Quietly
  <2>1. CASE Kernel \/ Outside \/ DriverEnds \/ PollDriver
    BY <2>1 DEF Kernel, Outside, DriverEnds, PollDriver, engine, sink, output
  <2>2. CASE Writer
    BY <2>2 DEF Writer, WriterEnds, engine, sink
  <2>3. CASE Arms
    BY <2>3 DEF Arms, Reap, TakeResult, StopOnSignal, StopOnDeadline, StopOnProof, StartBatch, Leave, engine,
                sink, output
  <2>4. CASE Batch
    BY <2>4 DEF Batch, EndBatch, BrokenPipe, engine, output
  <2>5. CASE Shutdown
    BY <2>5 DEF Shutdown, BeginFinal, NextRing, CloseSink, BrokenPipe, Join, Return, engine, sink, output
  <2> QED BY <2>1, <2>2, <2>3, <2>4, <2>5 DEF Next
<1> HIDE DEF Quietly
<1> QED BY <1>2, <1>3, <1>4, <1>5, <1>6, <1>7, <1>8, <1>9

LEMMA StreamedStep ==
    ASSUME Inv, Once, Once', Streamed, [Next]_vars
    PROVE  Streamed' /\ StreamStep
<1>1. CASE Next /\ Workload
  <2>1. UNCHANGED <<mode, stdout, dropped, buf, queue, blocking>> /\ StreamStep
    BY <1>1, WorkloadStep
  <2>2. pc' = "flush" => pending' = <<>>
    BY <1>1, FlushPending DEF Streamed
  <2>3. Workload' = Workload
    BY <2>1 DEF Workload
  <2> QED BY <1>1, <2>1, <2>2, <2>3 DEF Streamed, SinkTyped
<1>2. CASE Next /\ ~Workload
  <2>1. SinkTyped' /\ Lines' /\ StreamStep /\ mode' = mode
    BY <1>2, CaptureStep
  <2>2. pc' = "flush" => pending' = <<>>
    BY <1>2, FlushPending DEF Streamed
  <2>3. Workload' = Workload
    BY <2>1 DEF Workload
  <2> QED BY <1>2, <2>1, <2>2, <2>3 DEF Streamed
<1>3. CASE UNCHANGED vars
  <2>1. UNCHANGED <<mode, emitted, pending, buf, stdout, dropped, queue, writer, blocking, pc>>
    BY <1>3 DEF vars, engine, sink, output
  <2>2. Workload' = Workload /\ Lines' = Lines
    BY <2>1 DEF Workload, Lines, Whole
  <2>3. StreamStep
    BY <2>1, <2>2 DEF StreamStep
  <2> QED BY <2>1, <2>2, <2>3 DEF Streamed, SinkTyped
<1> QED BY <1>1, <1>2, <1>3

(* The loops, with the sink and its writer, implement the record stream:   *)
(* the reader gets whole records in the order of their emit, none twice,   *)
(* misses exactly those counted as dropped, and no record is dropped after *)
(* the loop has ended.                                                     *)
THEOREM StreamKept == Spec => StreamSpec
<1>1. Init => Streamed /\ Once /\ Stream!Init
  BY StreamInit, OnceInit
<1>2. Inv /\ Once /\ [Next]_vars => Once'
  <2>1. CASE Next
    BY <2>1, OnceStep DEF Inv
  <2>2. CASE UNCHANGED vars
    BY <2>2 DEF vars, kernel, engine, Once
  <2> QED BY <2>1, <2>2
<1>3. Inv /\ Once /\ Once' /\ Streamed /\ [Next]_vars => Streamed' /\ StreamStep
  BY StreamedStep
<1> QED BY <1>1, <1>2, <1>3, AgentInv, PTL DEF Spec, StreamSpec, Stream!Spec, StreamStep, AllLines
=============================================================================
