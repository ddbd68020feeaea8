------------------------------ MODULE AgentLoop ------------------------------
(***************************************************************************)
(* The agent's event loop, in its two forms: `run`, the capture agent with *)
(* its RecordSink and writer task, and `capture_workload`, which drives    *)
(* curl for a while and keeps the records. Both poll rings that the kernel *)
(* fills, a bounded batch at a time, next to timers and signals, and both  *)
(* end with a drain of everything that is left.                            *)
(*                                                                         *)
(* The correlator is reduced to what it owes one request per connection    *)
(* (OpLedger); a record is a line of text and a newline.                   *)
(***************************************************************************)
EXTENDS Integers, FiniteSets, Sequences, SequencesExt

CONSTANTS
    Conns,               \* the connections of the run, a set of numbers
    Modes,               \* which loops: subset of {"run", "selftest", "live"}
    MaxSamples,          \* bound: samples taken
    RingCap,             \* records a ring holds
    DRAIN_BATCH,         \* records folded before the loop looks at its other arms
    RECORD_CHUNK,        \* RECORD_CHUNK_BYTES, in tokens
    OUTPUT_QUEUE,        \* chunks between the sink and the writer
    WriteErrors,         \* how a write to stdout may fail: subset of {"pipe", "full"}
    NameOnly             \* --app or --exe is the whole scope

ASSUME AgentAssumption ==
    /\ Conns \subseteq Nat /\ IsFiniteSet(Conns)
    /\ Modes \subseteq {"run", "selftest", "live"}
    /\ MaxSamples \in Nat
    /\ {RingCap, DRAIN_BATCH, RECORD_CHUNK, OUTPUT_QUEUE} \subseteq Nat \ {0}
    /\ WriteErrors \subseteq {"pipe", "full"}
    /\ NameOnly \in BOOLEAN

VARIABLES
    mode,      \* which loop this is
    ring,      \* ring -> queued events
    edge,      \* ring -> a wakeup the runtime has not polled
    ready,     \* ring -> the readiness AsyncFd remembers
    life,      \* connection -> what the workload did with it
    samples,   \* samples taken so far
    attached,  \* the probes are in place
    open,      \* the correlator: connections with an op in flight
    pc,        \* where the agent is
    at,        \* the ring being drained
    folded,    \* records folded in this batch
    pending,   \* fragments the fold's records still have to write
    emitted,   \* history: the records emitted, in order
    reap,      \* the 5 s tick is due
    signal,    \* a SIGINT or SIGTERM is latched
    buf,       \* RecordSink.buf
    blocking,  \* RecordSink.blocking
    dropped,   \* history: what the counted, dropped chunks held
    queue,     \* chunks handed to the writer
    closed,    \* the sink is gone: the writer's recv ends
    writer,    \* the writer task
    stdout,    \* what the reader has got
    exit,      \* how the process ended
    driver,    \* the curl driver of a workload
    stop,      \* the flag that cancels it
    deadline,  \* the workload's timer has fired
    owed       \* ghost: connections whose answer was queued when the loop ended

kernel == <<ring, edge, life, samples, attached>>
poll   == <<ready, reap, signal>>
engine == <<open, emitted, pending>>
sink   == <<buf, blocking, dropped, queue>>
output == <<writer, stdout, closed>>
work   == <<driver, stop, deadline>>
vars   == <<mode, kernel, poll, engine, pc, at, folded, sink, output, exit, work, owed>>

Rings == {"events", "tls_events", "sample_events"}

Event == [kind : {"open", "answer", "body", "close"}, conn : Conns] \cup [kind : {"sample"}, conn : Nat]
Record == [of : {"connection", "answered", "aborted", "sample"}, conn : Nat]

NEWLINE == [of |-> "newline", conn |-> 0]
Running == exit = "none"
Workload == mode # "run"

-----------------------------------------------------------------------------
(* The kernel and the traffic. A ring wakes its consumer only when it had  *)
(* consumed everything before this record; a full ring loses the event.    *)

Held(r) == pc = "drain" /\ at = r /\ pending # <<>>
CaughtUp(r) == ring[r] = <<>> /\ ~Held(r)

Submit(r, e) ==
    IF Len(ring[r]) + (IF Held(r) THEN 1 ELSE 0) < RingCap
    THEN /\ ring' = [ring EXCEPT ![r] = Append(@, e)]
         /\ edge' = [edge EXCEPT ![r] = @ \/ CaughtUp(r)]
    ELSE UNCHANGED <<ring, edge>>

(* Requests come from the host, or from the curl children of the driver,   *)
(* which end with it; their sockets may close later still.                 *)
Driving == attached /\ (Workload => driver = "running")

Produce(c, from, to, r, kind) ==
    /\ life[c] \in from /\ life' = [life EXCEPT ![c] = to]
    /\ Submit(r, [kind |-> kind, conn |-> c])
    /\ UNCHANGED <<samples, attached>>

Traffic(c) ==
    \/ Driving /\ Produce(c, {"idle"}, "asking", "tls_events", "open")
    \/ Driving /\ Produce(c, {"asking"}, "answered", "tls_events", "answer")
    \/ attached /\ Produce(c, {"asking", "answered"}, "closed", "events", "close")
    \/ /\ Driving /\ Len(ring["tls_events"]) < RingCap
       /\ Produce(c, {"asking"}, "asking", "tls_events", "body")

Sample ==
    /\ attached /\ mode = "run" /\ samples < MaxSamples
    /\ samples' = samples + 1
    /\ Submit("sample_events", [kind |-> "sample", conn |-> samples'])
    /\ UNCHANGED <<life, attached>>

Kernel ==
    /\ Running
    /\ (\E c \in Conns : Traffic(c)) \/ Sample
    /\ UNCHANGED <<mode, poll, engine, pc, at, folded, sink, output, exit, work, owed>>

(* A tick of the reaper, a signal, the end of the time, and the end of the *)
(* driver: on its own, on an error, or because it was told to stop.        *)
DriverEnds ==
    /\ Running /\ Workload /\ driver = "running"
    /\ driver' = "finished"
    /\ UNCHANGED <<mode, kernel, poll, engine, pc, at, folded, sink, output, exit, stop, deadline, owed>>

Outside ==
    /\ Running
    /\ \/ reap' = TRUE /\ mode = "run" /\ ~reap /\ UNCHANGED <<signal, work>>
       \/ signal' = TRUE /\ ~signal /\ UNCHANGED <<reap, work>>
       \/ /\ Workload /\ ~deadline /\ deadline' = TRUE
          /\ UNCHANGED <<reap, signal, driver, stop>>
    /\ UNCHANGED <<mode, kernel, ready, engine, pc, at, folded, sink, output, exit, owed>>

-----------------------------------------------------------------------------
(* fold, with the correlator behind it, and take_flushed_ops.              *)

RecordsOf(e) ==
    CASE e.kind = "answer" /\ e.conn \in open -> <<[of |-> "answered", conn |-> e.conn]>>
      [] e.kind = "close" ->
           <<[of |-> "connection", conn |-> e.conn]>>
             \o IF e.conn \in open THEN <<[of |-> "aborted", conn |-> e.conn]>> ELSE <<>>
      [] e.kind = "sample" -> <<[of |-> "sample", conn |-> e.conn]>>
      [] OTHER -> <<>>

OpenAfter(e) ==
    CASE e.kind = "open" -> open \cup {e.conn}
      [] e.kind \in {"answer", "close"} -> open \ {e.conn}
      [] OTHER -> open

(* writeln! reaches the sink in two fragments: the text, then the newline. *)
Fragments(records) ==
    IF Workload THEN <<>>
    ELSE [i \in 1 .. 2 * Len(records) |->
            IF i % 2 = 1 THEN records[(i + 1) \div 2] ELSE NEWLINE]

Fold(r) ==
    LET e == Head(ring[r])
    IN  /\ ring' = [ring EXCEPT ![r] = Tail(@)]
        /\ open' = OpenAfter(e)
        /\ emitted' = emitted \o RecordsOf(e)
        /\ pending' = Fragments(RecordsOf(e))
        /\ UNCHANGED <<edge, life, samples, attached>>

-----------------------------------------------------------------------------
(* RecordSink. A chunk is cut at the last newline; a full queue drops it   *)
(* while the loop runs and is waited for afterwards; a writer that has     *)
(* gone is an error of the call.                                           *)

WholeText(text) == Len(text)                \* a fault: cut wherever the size is reached
LastNewline(text) == SelectLastInSeq(text, LAMBDA t : t = NEWLINE)

WriterGone == writer # "running"

Enqueue(chunk) ==
    IF Len(queue) < OUTPUT_QUEUE
    THEN queue' = Append(queue, chunk) /\ UNCHANGED dropped
    ELSE ~blocking /\ dropped' = dropped \o chunk /\ UNCHANGED queue

(* buf' is what the call leaves in the buffer.                             *)
Sends(text) == Len(text) >= RECORD_CHUNK /\ LastNewline(text) > 0

SendSlab(text) ==
    LET cut == LastNewline(text)
    IN  IF Sends(text)
        THEN Enqueue(SubSeq(text, 1, cut)) /\ buf' = SubSeq(text, cut + 1, Len(text))
        ELSE buf' = text /\ UNCHANGED <<queue, dropped>>

Exit(how) == exit' = how /\ attached' = FALSE

(* main: a broken pipe is a clean stop, whatever became of the writer.     *)
BrokenPipe == Exit("ok")

Write ==
    /\ Running /\ pending # <<>>
    /\ LET text == Append(buf, Head(pending))
       IN  IF Sends(text) /\ WriterGone
           THEN BrokenPipe /\ UNCHANGED <<pending, buf, queue, dropped>>
           ELSE /\ SendSlab(text)
                /\ pending' = Tail(pending)
                /\ UNCHANGED <<exit, attached>>
    /\ UNCHANGED <<mode, ring, edge, life, samples, poll, open, emitted, blocking, pc, at, folded,
                   output, work, owed>>

(* flush: `then` is the rest of the step when the chunk is taken.          *)
Flush ==
    IF buf = <<>> THEN UNCHANGED <<buf, queue, dropped>>
    ELSE Enqueue(buf) /\ buf' = <<>>

FlushFails == buf # <<>> /\ WriterGone

(* The writer task: one chunk at a time, until the sink is dropped.        *)
WriteChunk ==
    /\ Running /\ writer = "running" /\ queue # <<>>
    /\ queue' = Tail(queue)
    /\ stdout' = stdout \o Head(queue)
    /\ UNCHANGED <<mode, kernel, poll, engine, pc, at, folded, buf, blocking, dropped, writer, closed,
                   exit, work, owed>>

WriteFails ==
    /\ Running /\ writer = "running" /\ queue # <<>>
    /\ writer' \in WriteErrors
    /\ queue' = <<>>
    /\ UNCHANGED <<mode, kernel, poll, engine, pc, at, folded, buf, blocking, dropped, stdout, closed,
                   exit, work, owed>>

WriterEnds ==
    /\ Running /\ writer = "running" /\ queue = <<>> /\ closed
    /\ writer' = "done"
    /\ UNCHANGED <<mode, kernel, poll, engine, pc, at, folded, sink, stdout, closed, exit, work, owed>>

Writer == WriteChunk \/ WriteFails \/ WriterEnds

-----------------------------------------------------------------------------
(* The select! loop.                                                       *)

Tested == pc = "select" /\ Running

(* stop_when: the self-test ends when a handshake and an answer are seen.  *)
StopWhen ==
    /\ mode = "selftest"
    /\ \E i, j \in DOMAIN emitted : emitted[i].of = "connection" /\ emitted[j].of = "answered"

PollDriver ==
    /\ Tested /\ \E r \in Rings : edge[r]
    /\ ready' = [r \in Rings |-> ready[r] \/ edge[r]]
    /\ edge' = [r \in Rings |-> FALSE]
    /\ UNCHANGED <<mode, ring, life, samples, attached, reap, signal, engine, pc, at, folded, sink, output,
                   exit, work, owed>>

Reap ==
    /\ Tested /\ reap
    /\ reap' = FALSE
    /\ UNCHANGED <<mode, kernel, ready, signal, engine, pc, at, folded, sink, output, exit, work, owed>>

StartBatch(r) ==
    /\ Tested /\ ready[r] /\ ~StopWhen
    /\ pc' = "drain" /\ at' = r /\ folded' = 0
    /\ UNCHANGED <<mode, kernel, poll, engine, sink, output, exit, work, owed>>

(* Every record counts against the batch, also one that emits nothing.     *)
CountedIfReported ==                        \* a fault: only the reported ones count
    IF RecordsOf(Head(ring[at])) = <<>> THEN folded ELSE folded + 1
Counted == folded + 1
BatchOver == folded = DRAIN_BATCH

FoldNext ==
    /\ Running /\ pc = "drain" /\ pending = <<>>
    /\ ring[at] # <<>> /\ ~BatchOver
    /\ Fold(at)
    /\ folded' = Counted
    /\ UNCHANGED <<mode, poll, pc, at, sink, output, exit, work, owed>>

ReadinessCleared == FALSE                   \* a fault: cleared at the cap as well
ReadinessAfter == IF ring[at] = <<>> /\ ~BatchOver THEN FALSE ELSE ready[at]

(* drain_batch returns: flush what it wrote, clear readiness if it emptied *)
(* the ring.                                                               *)
EndBatch ==
    /\ Running /\ pc = "drain" /\ pending = <<>>
    /\ BatchOver \/ ring[at] = <<>>
    /\ IF ~Workload /\ FlushFails
       THEN BrokenPipe /\ UNCHANGED <<pc, ready, buf, queue, dropped>>
       ELSE /\ Flush
            /\ ready' = [ready EXCEPT ![at] = ReadinessAfter]
            /\ pc' = "select"
            /\ UNCHANGED <<exit, attached>>
    /\ UNCHANGED <<mode, ring, edge, life, samples, reap, signal, engine, at, folded, blocking, output,
                   work, owed>>

(* The driver's result: only a late close may still come, so a short grace *)
(* replaces the deadline.                                                  *)
TakeResult ==
    /\ Tested /\ Workload /\ driver = "finished" /\ ~StopWhen
    /\ driver' = "joined" /\ deadline' = FALSE
    /\ UNCHANGED <<mode, kernel, poll, engine, pc, at, folded, sink, output, exit, stop, owed>>

(* The loop ends. run: block_on_send, and the probes are still attached;   *)
(* a workload: the driver is told to stop.                                 *)
Leave ==
    /\ pc' = "leaving"
    /\ blocking' = ~Workload
    /\ stop' = Workload
    /\ UNCHANGED <<mode, kernel, ready, reap, engine, at, folded, buf, dropped, queue, output, exit,
                   driver, deadline, owed>>

StopOnSignal == Tested /\ signal /\ ~StopWhen /\ signal' = FALSE /\ Leave

StopOnDeadline == Tested /\ Workload /\ deadline /\ ~StopWhen /\ Leave /\ UNCHANGED signal

StopOnProof == Tested /\ StopWhen /\ Leave /\ UNCHANGED signal

-----------------------------------------------------------------------------
(* What follows the loop.                                                  *)

FinalOrderByNumber == <<"events", "tls_events", "sample_events">>       \* a fault
FinalOrder == IF Workload THEN <<"tls_events", "events">>
              ELSE <<"tls_events", "events", "sample_events">>

Kinds(c) == { ring["tls_events"][i].kind :
                i \in { j \in DOMAIN ring["tls_events"] : ring["tls_events"][j].conn = c } }

Answerable == { c \in Conns : "answer" \in Kinds(c) /\ (c \in open \/ "open" \in Kinds(c)) }

QuiescentAnyway == TRUE                     \* a fault: the driver is not awaited
Quiescent == ~Workload \/ driver # "running"

(* drop(bpf), or the driver awaited: nothing new is asked or answered.     *)
BeginFinal ==
    /\ Running /\ pc = "leaving" /\ Quiescent
    /\ pc' = "final" /\ at' = FinalOrder[1]
    /\ attached' = Workload
    /\ owed' = Answerable
    /\ UNCHANGED <<mode, ring, edge, life, samples, poll, engine, folded, sink, output, exit, work>>

FoldFinal ==
    /\ Running /\ pc = "final" /\ pending = <<>> /\ ring[at] # <<>>
    /\ Fold(at)
    /\ UNCHANGED <<mode, poll, pc, at, folded, sink, output, exit, work, owed>>

NextRing ==
    /\ Running /\ pc = "final" /\ pending = <<>> /\ ring[at] = <<>>
    /\ LET i == CHOOSE j \in DOMAIN FinalOrder : FinalOrder[j] = at
       IN  IF i < Len(FinalOrder) THEN at' = FinalOrder[i + 1] /\ UNCHANGED pc
           ELSE pc' = "flush" /\ UNCHANGED at
    /\ UNCHANGED <<mode, kernel, poll, engine, folded, sink, output, exit, work, owed>>

(* flush_open_ops: a request still in flight is reported as aborted, in    *)
(* whatever order the map lists them.                                      *)
FlushOpenOps ==
    /\ Running /\ pc = "flush"
    /\ \E order \in SetToSeqs(open) :
          LET aborted == [i \in DOMAIN order |-> [of |-> "aborted", conn |-> order[i]]]
          IN  emitted' = emitted \o aborted /\ pending' = Fragments(aborted)
    /\ open' = {}
    /\ pc' = "finish"
    /\ UNCHANGED <<mode, kernel, poll, at, folded, sink, output, exit, work, owed>>

(* The last partial chunk, then the sink is dropped.                       *)
CloseSink ==
    /\ Running /\ ~Workload /\ pc = "finish" /\ pending = <<>>
    /\ IF FlushFails
       THEN BrokenPipe /\ UNCHANGED <<pc, buf, queue, dropped, closed>>
       ELSE Flush /\ closed' = TRUE /\ pc' = "join" /\ UNCHANGED <<exit, attached>>
    /\ UNCHANGED <<mode, ring, edge, life, samples, poll, engine, at, folded, blocking, writer, stdout,
                   work, owed>>

(* writer.await, then the exit code. An empty run whose scope consists of  *)
(* names is a miss unless one of two scans of /proc found a match.         *)
Join ==
    /\ Running /\ pc = "join" /\ WriterGone
    /\ \E matched \in BOOLEAN :
          CASE writer = "full" -> Exit("failure")
            [] writer = "pipe" -> Exit("ok")
            [] OTHER -> Exit(IF emitted = <<>> /\ NameOnly /\ ~matched THEN "nothing" ELSE "ok")
    /\ UNCHANGED <<mode, ring, edge, life, samples, poll, engine, pc, at, folded, sink, output, work, owed>>

Return ==
    /\ Running /\ Workload /\ pc = "finish"
    /\ Exit("ok")
    /\ UNCHANGED <<mode, ring, edge, life, samples, poll, engine, pc, at, folded, sink, output, work, owed>>

-----------------------------------------------------------------------------
Init ==
    /\ mode \in Modes
    /\ ring = [r \in Rings |-> <<>>] /\ edge = [r \in Rings |-> FALSE]
    /\ life = [c \in Conns |-> "idle"] /\ samples = 0 /\ attached = TRUE
    /\ ready = [r \in Rings |-> FALSE] /\ reap = FALSE /\ signal = FALSE
    /\ open = {} /\ emitted = <<>> /\ pending = <<>>
    /\ pc = "select" /\ at = "events" /\ folded = 0
    /\ buf = <<>> /\ blocking = FALSE /\ dropped = <<>> /\ queue = <<>>
    /\ writer = "running" /\ stdout = <<>> /\ closed = FALSE
    /\ exit = "none"
    /\ driver = "running" /\ stop = FALSE /\ deadline = FALSE
    /\ owed = {}

Shutdown == BeginFinal \/ FoldFinal \/ NextRing \/ FlushOpenOps \/ CloseSink \/ Join \/ Return

Batch == FoldNext \/ Write \/ EndBatch

Arms == Reap \/ TakeResult \/ StopOnSignal \/ StopOnDeadline \/ StopOnProof
          \/ \E r \in Rings : StartBatch(r)

Next == Kernel \/ Outside \/ DriverEnds \/ Writer \/ PollDriver \/ Arms \/ Batch \/ Shutdown

(* select! tries its ready arms from a random one on; the batch and what   *)
(* follows the loop are straight-line code; the reader of stdout reads on, *)
(* or leaves; a driver that is told to stop kills its child.               *)
Fairness ==
    /\ SF_vars(Reap) /\ SF_vars(StopOnSignal)
    /\ WF_vars(StopOnProof \/ Batch \/ Shutdown) /\ WF_vars(Writer)
    /\ WF_vars(stop /\ DriverEnds)

Spec == Init /\ [][Next]_vars /\ Fairness

-----------------------------------------------------------------------------
(* Every variable has its type; what the writer handles is text, whose     *)
(* shape is the matter of StreamSpec.                                      *)
TypeOK ==
    /\ mode \in Modes
    /\ ring \in [Rings -> Seq(Event)]
    /\ edge \in [Rings -> BOOLEAN] /\ ready \in [Rings -> BOOLEAN]
    /\ life \in [Conns -> {"idle", "asking", "answered", "closed"}]
    /\ samples \in Nat /\ attached \in BOOLEAN
    /\ open \subseteq Conns /\ owed \subseteq Conns
    /\ emitted \in Seq(Record) /\ pending \in Seq(Record \cup {NEWLINE})
    /\ pc \in {"select", "drain", "leaving", "final", "flush", "finish", "join"}
    /\ at \in Rings /\ folded \in 0 .. DRAIN_BATCH
    /\ reap \in BOOLEAN /\ signal \in BOOLEAN /\ blocking \in BOOLEAN
    /\ closed \in BOOLEAN /\ stop \in BOOLEAN /\ deadline \in BOOLEAN
    /\ writer \in {"running", "done"} \cup WriteErrors
    /\ exit \in {"none", "ok", "nothing", "failure"}
    /\ driver \in {"running", "finished", "joined"}

(* The lines of a text; what follows the last newline is not one yet.      *)
Newlines(text) == { i \in DOMAIN text : text[i] = NEWLINE }

LinesIn(text) ==
    LET end(k) == CHOOSE i \in Newlines(text) : Cardinality({ j \in Newlines(text) : j <= i }) = k
        start(k) == IF k = 1 THEN 1 ELSE end(k - 1) + 1
    IN  [k \in 1 .. Cardinality(Newlines(text)) |-> SubSeq(text, start(k), end(k) - 1)]

Stream == INSTANCE RecordStream WITH
    emitted   <- IF Workload THEN <<>> ELSE [i \in DOMAIN emitted |-> <<emitted[i]>>],
    delivered <- LinesIn(stdout),
    lost      <- Range(LinesIn(dropped)),
    closing   <- blocking

(* The reader gets whole records in the order of their emit, the ones it   *)
(* misses are exactly those counted as dropped, and none is dropped after  *)
(* the loop has ended (RecordSink, block_on_send).                         *)
StreamSpec == Stream!Spec

(* A request whose answer had reached a ring when the loop ended is not    *)
(* reported as aborted: the plaintext ring is drained before the one that  *)
(* carries the closes, and flush_open_ops comes last.                      *)
ServedNotAborted ==
    \A i \in DOMAIN emitted : emitted[i].of = "aborted" => emitted[i].conn \notin owed

(* A run that ends well has folded all it was sent, reported every request *)
(* it opened and handed over every line it did not count as dropped. Only  *)
(* the closes of a workload's sockets may come too late.                   *)
NothingLeftBehind ==
    exit \in {"ok", "nothing"} /\ (Workload \/ writer = "done") =>
        /\ open = {} /\ pending = <<>> /\ buf = <<>> /\ queue = <<>>
        /\ ring["tls_events"] = <<>>
        /\ ~Workload => \A r \in Rings : ring[r] = <<>>

(* No event is stranded: as long as the loop runs, a ring that holds some  *)
(* has a wakeup to be polled or is remembered as ready, also when a batch  *)
(* stopped at its cap or a record came in while the last one was emitted.  *)
WakeupKept ==
    Running /\ pc \in {"select", "drain"} =>
        \A r \in Rings : ring[r] # <<>> => edge[r] \/ ready[r]

(* A flood on one ring starves neither the reaper nor the signals, and     *)
(* what follows a signal comes to an end.                                  *)
ArmsServed ==
    /\ reap ~> (~reap \/ ~Running)
    /\ signal ~> ~Running

(* What main says of its exit codes: only a closed pipe is a clean stop,   *)
(* any other failure exits on the code reserved for it.                    *)
WriteErrorReported == writer = "full" /\ ~Running => exit = "failure"
=============================================================================
