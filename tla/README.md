# A formal model of s3tap

s3tap watches a machine's S3 traffic without touching the application: eBPF probes
turn socket, resolver and TLS activity into events on ring buffers, an agent in user
space folds those events into records (connections, DNS lookups, S3 operations with a
breakdown of their time), and a set of commands reads the finished records: a doctor, an
advisor, a scorecard, and a replay of the workload against cache policies. These modules
model the parts where a wrong answer looks like a right one: nothing crashes, a record is
merely attributed to the wrong connection, a warning resolved that was not, a byte counted
twice.

Paths below are relative to the repository; line numbers are in `PROJECT.json`.

## 1. Inventory

| component | state it keeps | operations | what makes it correct |
|---|---|---|---|
| socket probes (`bpf/src/s3tap.bpf.c`) | `sock_ts` (a `conn_track` per socket pointer), `tracked_socks`, `tid_cookie`, the connect stash | `handle_set_state` (SYN_SENT, ESTABLISHED, CLOSE), `emit_conn_id`, ClientHello and ServerHello capture, the sampler | an event tells of one socket; scope is decided once |
| SSL probes (same file) | SSL* to fd, calls in flight per thread | `SSL_write`, `SSL_read`, their `_ex` forms, `SSL_set_fd`, `SSL_free` | plaintext carries the fd of its object, or fd 0 and a best-effort cookie |
| resolver probes (same file) | calls in flight per thread | `getaddrinfo` entry/exit, `udp_sendmsg`, `skb_consume_udp` | an event says which name, which socket, when |
| the rings | `events` (critical), `tls_events` (plaintext, conn_id, exec), `sample_events` | reserve, submit, consume | FIFO each, no order between them, a full ring loses the event |
| correlation engine (`crates/s3tap-core/src/correlate.rs`) | `conns`, `tls`, `fd_links` and its reverse, `ops`, `flushed_ops`, the DNS maps | one handler per event | every request reported once, joined to its own connection |
| application scope (`crates/s3tap-cli/src/filter.rs`, `engage_filter`) | `filter_pids` with a provenance tag per seat, `since_rescan` | `engage_filter`, `on_exec`, `reap_dead`, fork and exec probes | seats follow the processes that belong to the scope |
| agent loop and `RecordSink` (`crates/s3tap-cli/src/main.rs`) | readiness of three rings, a batch, a buffer, a bounded chunk queue, a writer task | `select!`, `drain_batch`, `RecordSink::write`, the shutdown sequence | no arm starves, no wakeup is lost, whole records in order |
| record readers (`main.rs`, `s3tap-doctor`) | a batch of lines | `parse_jsonl`, `read_lines`, the exit codes | batches do not change the result; no green exit over nothing |
| doctor, scorecard (`s3tap-doctor`) | maps of paths, floors, rows | `analyze`, `deltas`, `cost`, `scorecard` | each ratio against its own floor; independent of order |
| advisor (`s3tap-advisor`) | aggregates per process and key | seven checks, the caching check, `analyze` | a missing field never makes a finding harsher; `advise` and `analyze` judge alike |
| cache replay (`s3tap-replay`) | resident and ghost lists, prefetch tags, a token bucket, a link cursor, predictor tables | `access`, `invalidate`, `prefetch`, eviction | capacities hold, every prefetch accounted for once |
| HTTP parsing, hashing, schema, event ABI | none | pure parsing and formatting | unit tests |

**How they interact.** The kernel side only ever appends to a ring. The agent is one
thread: it takes the head of any ring, folds it, and empties the queue of flushed
operations before the next event. The correlator therefore needs no locks, but sees the
world through two queues with no order between them: `tls_events` carries conn_id and
plaintext, `events` carries connect, close, DNS and the two TLS hellos. The scope is the
one piece of state both sides write: the probes on fork, the agent on exec and on a timer.
Records leave through a bounded queue to a writer task. Everything after that is offline:
a command reads lines, judges once, and ends with an exit code.

**What is hard.** A socket's cookie is its `struct sock *`, which the kernel recycles; a
request's key is `(tgid, fd)`, which the kernel recycles; fd 0 is shared by every
connection whose fd was not observed. A close may be folded after its successor's
conn_id. Any event may be lost. Maps are bounded and evict. Probes pair entry with exit by
thread, and calls nest or never return. `/proc` is read at one moment and acted upon at a
later one. The offline commands read what is left: records in any order, some of them
partial, some missing. The tests of the repository drive each of these one sequence at a
time; what they do not reach is the product.

## 2. Modules

| module | models | extends / uses |
|---|---|---|
| `Evict` | the eviction pass every map shares: `evict_target`, `oldest_keys`, `evict_oldest_over` | |
| `OpLedger` | abstract: what the engine owes each request | |
| `Correlator` | the engine, an action per handler; refines `OpLedger` | `Evict` |
| `Capture` | sockets, two rings and the fold around the engine | `Correlator` |
| `ScopeFilter` | the allowlist, processes, the agent's handlers | |
| `DnsJoin` | resolvers, their probes, the DNS maps and the records that read them | `Evict` |
| `Probes` | the kernel maps between two probes of a socket, a call or a thread | |
| `RecordStream` | abstract: what the reader of the output gets | |
| `AgentLoop` | the two event loops, the sink and its writer, shutdown; refines `RecordStream` | |
| `ReplayTrace` | what the replays of one cache share: the objects, the capacity | |
| `Subsequence` | what is kept of a sequence, in its order; used by the caches below | |
| `Arc`, `WLfu`, `AdaptivePool`, `S3Fifo`, `Sim` | the caches of the replay crate as operators on a cache value | |
| `ArcReplay` | ARC over an endless trace | `ReplayTrace`, `Arc` |
| `LfuReplay` | the hybrid and the lead-gated replay | `ReplayTrace`, `WLfu` |
| `Link` | the access link, the cache in front of it and the contended replay | `ReplayTrace` |
| `S3FifoEager` | abstract: S3-FIFO as published, writes removing at once | |
| `Replay` | the simulator's policies, the pool and S3-FIFO over an endless trace; its `s3fifo` refines `S3FifoEager` | `Sim`, `S3Fifo`, `AdaptivePool` |
| `Predict` | the predictors' tables | |
| `Sweep` | chunk mode (`to_blocks`), the demand policies, the predictors and Belady's ceiling on one trace | `Sim`, `Arc`, `S3Fifo`, `WLfu`, `Predict` |
| `Records` | records and the statistics their readers take | |
| `SampleSeries`, `Doctor`, `DoctorDiff` | the doctor: in-flight samples, the report, baseline and cost | `Records` |
| `Scorecard`, `Advisor` | the scorecard; the advice | `Records` |
| `TraceAdapter` | the forms of line an input may hold | `Records` |
| `Caching` | the caching check of `advise`, and the report of `analyze` in object mode | `Advisor`, `TraceAdapter`, `Sim`, `Predict` |
| `Consumers` | the commands that read a capture, line by line to an exit code | `DoctorDiff`, `Scorecard`, `Caching` |
| `MC*` | the modules the configurations run; `MCReplay` composes the replays | the module named |
| `EvictProofs`, `CorrelatorProofs`, `CaptureProofs`, `DnsJoinProofs`, `ProbesProofs`, `AgentLoopProofs`, `ScopeFilterProofs`, `ReplayProofs` | section 5 | the module named, TLAPS |

**Correlator.** The variables are the fields of `struct Correlator`, maps as total
functions with `None` for absence. `published` counts the hand-overs of a record to the
caller and `built` remembers it; both are histories the program does not keep, needed to
say that a request is reported once and as what. Every action is a whole handler
including its eviction: `OnConnId`, for instance, flushes the slot of the key, rebinds
both maps, flushes the slot of the cookie's previous key, and cuts the link map back to
its cap while flushing each victim. `HashMap::find` over several matches is a
nondeterministic choice. `on_tls_read` is split by its outcome (`OnTlsReadAsBody`,
`OnTlsReadInterim`, `OnTlsReadHead`); the guards are the conditions under which the code
takes that branch. Data the properties do not tell apart (addresses, bucket names, byte
counters, durations) is left out, and so is the truncation part of `partial`.

**Capture.** A connection is a *generation*, the ground truth the correlator never sees.
`Connect` takes any free pointer and fd and emits the conn_id; the other actions are the
transitions a probe sees. Ghost variables remember which generation each entry of the
correlator is really about. `FoldEvents` and `FoldTls` call the correlator's actions with
what the ring head carries. `close(2)` frees the fd before the socket is torn down, so a
successor may own the fd while the predecessor still owns its pointer. Plaintext without an
fd is stamped with `tid_cookie`, the socket its thread last sent a TLS record on
(`SendRecord`, `PlainBio`): any thread of the process may send and any may write or read, at
any time, so the stamp can be right, another connection's, or none. `SendRecord` need not
come before a write, because a send on a socket the probes do not track leaves the cookie
alone; the LRU map may forget it (`ForgetThread`). The ghost `op_bio` keeps the stamp of
each request, and `TrueStamp` says that a stamp names the connection it is on.

**ScopeFilter.** `proc` is the process table; the agent's handlers are a reading step
(`/proc`, the exec queue) and a writing step (`filter_pids`), since processes go on in
between. A seat's tag says why it was given. A process's executable matches or does not;
one that may not be read is "other", which is what `resolve_exe` makes of it.

**DnsJoin.** A caller's `getaddrinfo` is answered by a cache, or asks from a UDP socket
whose `(pointer, transaction id)` may have been used by another query; retransmissions are
included. A call for a name without an address fails. The ring loses events when full.
`last_wire`, `missing` and `displaced` are ghosts: the first is what really happened on the wire, the others say that the maps no
longer hold what a right answer needs.

**Probes.** Sockets live at recyclable addresses, threads are in a stack of calls. Time
stamps, pids and fds are represented by the life of the socket they were taken from, so
that "whose is it" can be asked of them. LRU maps may forget any entry at any moment
(`Evict`), a process may gain or lose its seat at any moment (`Rescope`), an SSL call may
be entered from within another, or never return (`Abandon`). The records of an SSL object
leave inside its call (`Return` with `sent`) or, through a memory BIO, whenever any thread
sends them (`Handshake`, `SendData`); `Return` without `sent` leaves `tid_cookie` alone.
`event` is what the last step submitted, next to what it should say.

**AgentLoop.** The loops of `run` and of `capture_workload`, one process step per await
point or ring record. A ring raises an edge only when its consumer had caught up, as the
kernel's adaptive notification does; `ready` is what `AsyncFd` remembers. The correlator is
reduced to the request it owes each connection. Mode "live" (the advisor's
live study) differs from "selftest" by not stopping on its proof; the run takes the other
two. A record is a line of text and a newline, written in two fragments, because that is how `writeln!` reaches the sink.

**The replays, Sweep.** In `ArcReplay`, `LfuReplay`, `Link` and `Replay` the trace is
endless and the state is the cache itself: the frequency sketch's comparison and the
predictor's answer are nondeterministic, which covers every state of theirs. All four are
proved about, so what they are built from recurses nowhere: what is kept of a sequence is
given by its positions, what an eviction gives up is the shortest prefix that makes room,
and the loop that looks for a victim is a function over a number of rounds shown to suffice. `Sweep` is the opposite: a
short trace, every policy of the table on it with the exact predictors, to compare their
hits with a ceiling computed independently.
In `Sim`, `WLfu` and the rest a cache is a record and an operation an operator on it.

**Consumers.** The input is a sequence of lines of every form; `ReadLine` fills a batch,
`Consume` parses it, the last steps judge and exit. Report functions are operators over a
sequence of records, with times in whole tenths of a millisecond and ratios in
hundredths. Notes, evidence strings and layout are left out; a finding keeps the fields
that gate, scope and quantify it.

**Caching.** A captured file becomes a trace (`to_op_records`, `from_records`), which is
replayed through an LRU cache and the two Markov predictors at each size of a ladder; what
is reported is a number of GETs saved, and each floor is a percent of all of them. `advise`
and `analyze` are two callers with a ladder each. `DOUBLINGS` bounds the rungs of a ladder.
The self-tuned overlay, which `analyze.rs` runs once more for the latency verdict, is the
constant operator `Hides`: the answer depends on the trace and the size only, and a model
of its moving averages would decide nothing here.

In each module a few operators marked "a fault" are plausible mistakes of the definition
that follows them; no specification uses them. Each property is shown to detect one.
The type invariants of the modules with a proof module are proved rather than run.

## 3. Runs

Passing runs; TLC explores all reachable states of each:

| run | instance | shows |
|---|---|---|
| `CorrelatorFd` | 2 pointers, 2 processes, 1 fd, every map of 1 entry, 2 timestamps, 2 requests | inverse links, caps, no request lost or reported twice, a head is final, a fresh op survives its own eviction pass, refinement of `OpLedger` |
| `Capture` | 2 generations, 2 pointers, 2 processes, 1 thread each, fd observed or not, 2 fds, critical ring of 2, 3 requests, 7 stamped events | sequence numbers and cookies stay with their connection, responses too where the stamps are true; a late close spares its successor; ambiguity is mutual |
| `CaptureHello` | 1 pointer used twice, TLS hellos, critical ring of 3 | TLS facts are not inherited; a queued close is applied (liveness) |
| `ScopeFilter` | 3 pids, one of them named, allowlist of 2, exec ring of 1, 3 forks/execs/exits | matching processes end up seated, the dead unseated, a name seat is withdrawn (liveness) |
| `DnsJoin` | 2 callers, 2 names, 2 UDP sockets with 1 transaction id, maps and ring of 1 | labels are true; the cache verdict is right whenever the maps still hold what it needs |
| `AgentLoop` | 1 connection, rings of 2, batches of 2, writer queue of 1 chunk of 3 tokens, broken pipes, both loops | refinement of `RecordStream`, no lost wakeup, served requests not aborted, nothing left behind, no starved arm (liveness) |
| `Probes` | 1 thread, 1 socket address used twice, 2 SSL objects nested twice, filter on and off | every event tells of its own socket, call and object |
| `Replay` | nine replays and the sweep, one at a time; 5 objects over 2 slots for ARC, W-LFU and the link, over 4 for the simulator and the pool, 3 over 2 for S3-FIFO; for the sweep every trace of 5 events over 2 objects of 2 blocks, cache of 2 blocks | capacities and counters, one report per prefetch, no object given up without need, conservation on the link, refinement of `S3FifoEager`; Belady is the ceiling, writes reach every block, predictor tables stay exact |
| `Offline` | every subset of seven palettes of 6 to 11 lines through every command | batching is invisible, no green exit over nothing, order is noise, loss never resolves, reports and verdicts agree |

Runs that find a disagreement between the code and what the repository says of it:

| run | the statement | what happens |
|---|---|---|
| `AgentWriteError` | any failure but a closed pipe exits on the code for tool failures (`main`) | the disk is full, the writer ends, the next chunk finds the channel closed, which `RecordSink::send` maps to a broken pipe: exit 0 |
| `ProbesCookie` | a request without fd keeps cookie 0 if its connection is unknown (`emit_tls_data`) | `tid_cookie` is only overwritten on a tracked socket: the cookie of the thread's previous connection is stamped |
| `CachingKnee` | callers must refuse to publish a knee when there is no reuse to size for (`caching.rs` 54-57) | an object is read again after it shrank: the ladder of objects finds the reuse and says go, the ladder of bytes ends below the first read, no rung saves anything, and its smallest is published as the size |

**Bounds.** Two of each recyclable thing suffice for a recycling (an old and a new owner);
caps of one entry make every insertion evict. `MaxTs` limits stamped events (`Capture`,
`DnsJoin`) or distinct timestamps (`Correlator`, where two already give older, equal and
newer). `MaxOps`, `MaxConns`, `Lives`, `Nesting`, `MaxSamples` and `MaxEvents` are above what
the shortest violation of any checked property needs under its fault. The batch divisor of
10 is the code's; with caps below 10 the batch is 0 and the excess is reclaimed.
`RESCAN_EVERY` is 2 instead of 6, `BATCH` 2 lines, and the statistical floors of the doctor
and the advisor 1 to 3 samples, so that both sides of every gate occur within a palette.
`MaxBacklog` cuts the queue of the contended link. Five keys are one more than the
directory of an ARC of two; two slots are for W-LFU one of window and one of main.
Numbers of the palettes are chosen so that the whole-number ratios divide exactly. `CHECK_DEADLOCK FALSE` is set where the
bounds, or the end of the process, let the system stop; `Replay` and `ScopeFilter` do not
stop and are checked for it.

**Symmetry.** `Replay` (objects within a policy are only compared) and `Probes` (addresses
are only compared) use it; both are checked for safety only. Elsewhere cookies, keys and
processes are ordered by the eviction's tie-break or by name, or liveness is checked. In
`Capture`, where no map reaches its cap and names are interchangeable, the constraint
`FirstNames` fixes those of the first connection instead, and the fd of a first connection
of the other process. The constraint `CookieMatters` prunes states in which a thread's
cookie is set and no connection that can still read it is left: `ForgetThread` is enabled in
all of them and nothing reads the value, so each has a twin with `None` that is explored.

**Fairness.** `Capture`: weak fairness of the two folds and of the drain, since the
`select!` loop returns to every ready ring; the kernel owes nothing. `ScopeFilter`: weak
fairness of the agent, strong fairness of starting an exec's handling and of starting a
reap, since `drain_batch` stops at 256 records exactly so that the timer's arm gets its
turn, and a `select!` among ready arms picks at random. `AgentLoop`: strong fairness of the
reaper's and the signal's arm for the same reason, weak fairness of what is straight-line
code and of the writer (the reader of stdout reads on or leaves), and of a driver that
was told to stop, whose child is killed. Processes and traffic owe nothing. The other
modules have safety properties only.

## 4. Properties, by the hazard they are for

- *Recycled pointer, fd or address*: `JoinsOneLife`, `ResponsesStayHome`,
  `CloseSparesLive`, `TlsFactsNotInherited`, `LinksInverse`, `EventsAreOwn`.
- *A request lost or doubled by one of the many ways a slot goes away*: `OpConserved`,
  `LedgerSpec`, `FreshOpSurvives`. *An object that looks like a response*: `HeadIsFinal`;
  *overlap blamed on one side only*: `AmbiguityIsMutual`. *Maps that leak*: `Bounded`.
- *Entry and exit paired by thread*: `ConnIdTrue`, `PlaintextIsOwn`. *A cookie kept by
  thread*: `PlaintextIsOwn` (its own sends), `UnknownLeftPartial` (which finds the limit).
- *Stale `/proc` reads, lost exec events, full allowlist, pid reuse*: `MatchingIsSeated`,
  `DeadIsUnseated`, `ExecAwayRevokes`. *A lost close*: `ClosedIsForgotten`.
- *Lost queries, late answers*: `LabelsAreTrue`, `HitIffNotAsked`.
- *Readiness cleared too early, a flood on one ring*: `WakeupKept`, `ArmsServed`. *Full
  queue, chunk boundaries*: `StreamSpec`. *Order of the shutdown*: `ServedNotAborted`,
  `NothingLeftBehind`.
- *Lists and ghosts under writes*: `ArcPromise` (bounds, and one object given up for one);
  *segments that feed each other, the many ends of a prefetch*: `LfuCounted`; *counters of
  bytes, live slots and prefetches*: `HeldIsCounted`; *lazy deletion*: `EagerSpec`; *demand
  cutting in on prefetches*: `LinkConserves`; *incremental tables*: `ModelsAreTrue`; *the ceiling*: `OptIsCeiling`;
  *chunk mode*: `WritesReachBlocks`.
- *Batches*: `StreamIsWhole`; *exit codes*: `GreenWasAnswered`; *order of records, reused
  cookies*: `OrderIsNoise`; *lost or partial records*: `LossNeverResolves`,
  `PartialNeverEscalates`; *populations counted in several places, a
  ratio and its values, a verdict two commands give*: `FiguresAgree`
  (`RatioIsOfBaseline /\ RatesAgree /\ VerdictsAgree`); *integer shares*: `BytesConserved`.

`OrderIsNoise` and `PartialNeverEscalates` are about the checks over records
(`record_checks`). The caching check replays the file in its order, so another order is
another workload; and it leaves partial reads out, so that fewer reads may cross a floor.

`PROJECT.json` lists every hazard at its line, the ones no property covers included.

## 5. Proofs

TLAPS checks the theorems below for every value of the constants that the named
assumptions of each module admit (`CorrelatorAssumption`, `CaptureAssumption`,
`DnsAssumption`, `ProbesAssumption`, `AgentAssumption`, `ScopeAssumption` and
`NoneAssumption`, `TraceAssumption`, `ReplayAssumption`, `LinkAssumption`, `GapAssumption`): finite sets where
the program has finite maps, caps of at least one, nothing about how many sockets, processes, threads
or connections there are.

**`EvictProofs`.** One eviction pass brings a map back to its cap although it spares the
entries just inserted (`VictimsRestoreCap`), and never takes a spared one
(`VictimsSpareKeep`). The arithmetic of `evict_target` is used once here and cited
everywhere else.

**`CorrelatorProofs`.** The inductive invariant (`InvHolds`) is
`TypeOK /\ SeqBounded /\ LinksInverse /\ OpConserved`. `SeqBounded` (a slot has numbered
no more requests than were opened) is what the type lacks to be inductive: `next_seq` grows
with every request. `LinksInverse` is needed because a close looks up the key in
`fd_links_rev` and drops the slot of that key; `OpConserved` says that a request is in one
slot, in the queue, or published once. Every handler is made of a few moves, and each has a
lemma: flushing and dropping slots (`FlushAndDrop`), taking the op in flight (`TakeOpen`),
touching a slot (`Touch`). Derived from it: `LinksAgree`, `RequestsConserved`,
`MapsBounded`, `FreshOpsSurvive`, `HeadsAreFinal`, `BodyIsShort`, `HellosMerged`, and
`Refines`: the engine implements `OpLedger`, each handler being a step of it or a stutter.
`AmbiguityMutual` needs one fact more, that a record once published keeps what it says
(`RecordIsFinal`): a request becomes ambiguous when a write finds another one in its slot,
in the step that marks that one, and a published partner can no longer lose its mark.

**`CaptureProofs`.** The engine between its rings, for any number of connections, pointers,
processes and events. `SafeHolds` is the invariant of the engine together with
- `KernelTyped`, `GhostsTyped`: the types of the kernel's side and of the ghosts;
- `Lives`: the lives of a pointer and of a `(process, fd)` come one after the other, and a
  life that began did so in the past;
- `CriticalInv`: the critical ring holds a pointer's events in the order of its lives, a
  close only of a socket that is torn down, and no entry of `conns` or `tls` is of a later
  life than what the ring still carries for its pointer;
- `LinkInv`: the same for the plaintext ring and the descriptors, and what each fd link is.

From it: `CaptureRefines`, every step of the composition is a step of the engine or a
stutter, so that the theorems above hold behind the probes and the rings; `FactsAreOwn`,
which has to know that folding a connect forgets the facts of the pointer's earlier life;
and `ClosesSpare`. These hold whatever the rings lose. That a record joins one life only
(`RecordsJoinOneLife`) and that a response finds its own connection (`ResponsesAreOwn`) is
not true of a plaintext ring that lost a conn_id, and is proved under `[]Room`: the ring
has room whenever an event is stamped. `RoomIsEnough` shows that a ring of one slot per
stamped event, as the runs have, meets it. On an fd that was not observed a second premise
is in the properties themselves, the truth of the stamp: `JoinsOneLife` names the stamped
cookie where it is another connection's, and `ResponsesStayHome` asks of requests and
responses that each carry their own connection's cookie (`TrueStamp`), whatever cookies the
other events of the shared slot carry. Nothing in the kernel gives that premise. A thread
that drives one connection at a time on tracked sockets has it; `ProbesCookie` shows a
stamp without it and section 8 what follows for a thread that multiplexes. The invariant is then `LifeInv` besides: a
connection's conn_id and first write are ahead of its later events in the ring or folded
(`AnnouncedFirst`, `AskedFirst`), slots are of the connection their link is of
(`SlotsAreOwn`), an open op is of that connection or carries the cookie stamped on it
(`OpenIsOwn`), and writers of a shared fd-0 slot come in the
order of their lives (`WritersKnown`, `WritesInOrder`).

**`DnsJoinProofs`.** The maps keep their types and their caps (`DnsTyped`), and no address
is labelled with a name that does not resolve to it (`Labelled`). Beyond the parts of the
type, the invariant needs `BegunBefore`: a call in flight began in the past, so its latency
is at most the clock. The batch of addresses of one answer is spared by the pass as a
whole, hence a second lemma about the eviction (`VictimsRestoreCapOfBatch`). `HitsAreTrue`
states the cache verdict: as long as nothing was lost, evicted or displaced, a lookup is
called a hit exactly when it asked nothing on the wire. Its invariant `WireInv` follows the
evidence from the wire to the maps: the ring is in stamp order and the maps are behind it
(`Ordered`, `MapsBehind`), no two calls in flight share a socket and transaction id
(`KeysOwn`), a response meets the query it answers (`Pairing`), what a host had on the wire
during a call that asked is in the maps or ahead of that call's event in the ring
(`ShownWire`), and nothing of the kind is there for a call that asked nothing
(`SilentWire`).

**`ProbesProofs`.** TLC explores one thread; the proof is for any number of threads,
addresses, objects, lives and nested calls. "Every event tells of its own socket, call and
object" is not inductive: what has to be shown is what a leftover entry may still say.
- `EntriesOwn`: an entry of `sock_ts` that would pass the gate of its socket's close holds
  facts of that socket only. What a dead socket left behind was made of a stale LRU mark,
  and knows neither a SYN nor a handshake; an active open that is out of scope finds no
  mark that lets its close through (`ForeignUnmarked`).
- `StashesOwn`: once the exit probe is attached, a connect stash belongs to the `connect()`
  its thread is in, since every exit consumes it; the exception is the attach window.
- `CallsOwn`: what is in flight for a thread and function is the object of its innermost
  call that stashed one (`Answers`). Nested calls push, exits pop, an abandoned call
  leaves its object to no call.
- `ObjectsOwn`: the fd noted for an SSL object is that of the life it is bound to.

`ReportsOwnCall` also says when the fallback cookie of a request can be trusted: if the
thread that reports the request sent it too, and the socket is tracked. A wrong cookie takes
two addresses; the run `Probes` has one, so this part rests on the proof.

**`AgentLoopProofs`.** `NoLostWakeup`, `CleanExit`, `ServedIsAnswered`, `StreamKept` for
every number of connections and every bound of ring, batch, chunk and queue. The parts of the invariant:
- `Wakeups`: a ring being drained has its readiness, since a record that arrives while the
  last one is written raises no edge.
- `Closing`: what each step of the shutdown has established. The rings ahead of `at` in
  the final order are empty and stay so, because the probes are gone or the driver has
  ended; the sink is closed only from `finish`, hence nothing is written once the writer
  may be done.
- `Requests`: per connection, the plaintext ring and the open ops are in the order of its
  life: an `open` before its `answer`, at most once, and never for an op already open. An
  aborted request has neither.
- `Answers`: an answer queued when the loop ended is still ahead in the plaintext ring
  together with its request, or it has been found; so the closes folded afterwards and
  `flush_open_ops` meet no open op of that connection.
- `Once`: what a ring still holds has not been emitted, so no record is emitted twice.

`StreamKept` is the refinement of `RecordStream`. What the reader has, what was dropped,
every queued chunk and what the sink has at hand are each the text of whole records
(`LaidOut`): the records of the output, the queue and the buffer are in the order of their
emit (`InSequence`), none is in two places (`Apart`), and until a write fails every emitted
record is in one (`Covers`). A chunk is cut at the last newline of the buffer, whose
existence comes from the least-element principle of the library, and which leaves whole
records on both sides (`TextCut`).

**`ScopeFilterProofs`.** Four writers seat a process (startup scan, exec, rescan, fork in
the kernel), one of which is not the agent; the allowlist never exceeds its capacity
(`ScopeTyped`). The properties of that module that matter more are liveness and stay with
TLC.

**`ReplayProofs`.** The caches of the replay, for every capacity, set of objects, delay
and trace. The first lemmas are about sequences: without repetition, what taking out,
appending and dropping the head do to length, range and order; and what is kept of a
sequence at given positions (`Kept`), whose length is the number of those positions.
- ARC (`ArcKeepsPromise`). The bounds of the lists hold only jointly, with
  the lists typed, without repeats and disjoint (`ArcTyped`, `Apart`, `Sized`). The cases of
  a miss (a full cache, a hole that a write left, a hit on either ghost list) have a lemma
  each; the division in the target's step is only known to be at least one.
- W-LFU (`LfuCountsTrue`). `Debt`, the unused prefetches of both segments
  and the drops counted since the last event, changes by what each operation reports and
  by nothing else; counting entries as a set is right because the segments are disjoint and
  hold an object once.
- The link (`LinkCreatesNone`). "No more lands than the link can carry" is not inductive:
  a demand fetch pushes back only the prefetches behind its start, and time moves on. What
  is kept is a rate between *any* two times (`Paced`): what lands from x to y takes less
  than y - x and two transfers, and less than y - x and one for prefetches alone. A fetch
  that cuts in shifts only prefetches, whose rate leaves it the room.

- What a cache holds is what it counts (`ReplayCounts`, the property `HeldIsCounted`), by
  an invariant per policy (`ReplayInv`). The simulator (`SimInv`): the bytes held are counted
  as a set of pairs, one for each byte of each entry, so that touching, growing, inserting and
  evicting a prefix change the counter by the size of a set difference. S3-FIFO (`FifoInv`): each entry
  has exactly one live slot, in the queue the entry names, hence `s_len` and `m_len` are the numbers
  of live slots whatever the stale ones; that an epoch is fresh is what `BumpSeq` promises.
  The pool (`PoolInv`): a prefetch issued is in the segment unused, in `drops`, or was
  reported (`due`), and the tokens left and the waste of any stretch (`debt`) never exceed
  the burst together (`Settled`), which is the inductive form of `debt <= BURST`.
- `FifoRefines`: `s3fifo.rs` implements `S3FifoEager`. The mapping (`View`) reads off the live
  slots. Compaction and stale slots do not change it; each round of an eviction is a round
  of the abstract one, and a round that finds no victim moves a slot from the small queue
  to the main one or takes a hit off an entry. The hits left to take off (`Heat`) are at most
  `FREQ_MAX` per entry, so an eviction of a full cache meets its victim within
  `FifoCap * FREQ_MAX + 1` rounds, the number the model gives it.

**Only model-checked.** `OptIsCeiling`, `WritesReachBlocks` and `ModelsAreTrue` of `Sweep`, and
the properties of the offline commands (hits and reports are folds over a trace or a
sequence of records, and what a fold computes for every input is an induction over data);
all liveness, the properties of `ScopeFilter` included.

**Out of the prover's reach.** Liveness under fairness and ENABLED; what a recursive
definition or a fold computes for every input. Arguments by a least element are within it
and are used where an induction would be natural.

## 6. Order of work

The modules were written in the order of the damage a wrong answer does: the engine and
its abstract ledger, the capture around it, the scope, the DNS join, then the event loop,
the probes, replay, and the commands over finished records. Left, in this order:

1. `load_and_attach`: which probes may fail and what is then degraded;
2. the driver loops of the self-test;
3. the chunk mode of `analyze`, its table of policies and its study of latency;
4. the adaptive driver of the replay with its shadow veto.

## 7. Not modelled

- HTTP head parsing, key hashing, the event ABI and the record schema: pure functions of
  bytes, for which the repository's unit tests and fixtures are the right tool. The models
  take a parsed head as given.
- Rendering, demos, scripts, the book, assets: no state.
- Elevation (`elevate.rs`): a sequence of system calls that either re-executes the program
  or does not; its interest is in the operating system's answers.
- Loading and attaching the probes: a failure ends the start-up or drops a feature.
- Of the cache verdicts: the self-tuned overlay is the choice `Hides`; of `analyze` the chunk
  mode, the table of policies and the fields that only restate a verdict.
- Within modelled parts: addresses, bucket names, byte and retransmission counters of a
  connection, and durations in the engine; the truncation half of `partial`; the sketch of
  W-TinyLFU as numbers, moving averages, confidences and floating-point gates of the
  replay, which are choices; in `Capture` an eviction from `ssl_fd`, so that a connection's
  fd is observed throughout its life or never (`Probes` does forget the entry); the adaptive driver's shadow veto; the notes, evidence, shape
  and window texts of a report. The link has slack 0 and its epochs are kept per key. A
  batch of input is counted in lines, not bytes. Records with equal timestamps within one
  path are avoided by the palettes, as is a method other than GET whose name starts alike.

## 8. Noticed on the way

Three disagreements are shown by runs (section 3). The following were met while modelling
and are not asked of a run; where a property of section 4 would stumble over one, its
definition names the exception.

- `on_connect` (`correlate.rs` 546) takes a link held by another process for a dead one.
  If the conn_id of the pointer's next owner is folded before the connect of the previous
  owner, the link it severs is the live one, and the requests are reported without a
  connection.
- The comment on `tid_cookie` (`s3tap.bpf.c` 174-177) grants that a thread which multiplexes
  connections can mis-set it, and says that the agreement check of reads and writes
  (`on_tls_read`, 1283) fails such ops to partial, never a wrong join. Both sides of the check
  come from `tid_cookie`: if one thread sends and writes on A, sends and writes on B, and
  then reads A's response, the response is stamped with B's cookie, agrees with B's request
  in the fd-0 slot, and completes it. `Capture` has this behaviour; `ResponsesStayHome` and
  `JoinsOneLife` name it as their exception.
- `on_close` (635) looks for a request without fd only if its cookie has no link, but every
  `connect()` leaves one: the request stays in its slot until the slot is reused or the
  run ends. `JoinsOneLife` excepts connections without fd for this reason. The second
  scan of `on_close` can queue an op although its comment says that nothing is emitted.
- `engage_filter` (`main.rs` 3945) seats a `--pid` process by name when it matches too, and
  `admission_for` (`filter.rs` 356) retags a descendant of an explicit seat that execs into
  a matching executable; both lose the immunity to later execs the comments promise.
- A child forked between its parent's exec and the folding of that exec keeps a name seat.
  Two passes of `reap_dead` can remove the seat of a process that reused the pid; the
  rescan restores it, which is what `MatchingIsSeated` says.
- The resolutions are keyed by address (898): the answer for another name of the same
  address displaces the evidence of a wire lookup, and `on_getaddrinfo` (958) reports a
  cache hit. `HitIffNotAsked` excepts it.
- The DNS block of a first operation and of its connection are read at different times
  (1588) and can differ, although they are said to be identical. A wire resolution newer
  than a connection decorates it through `dns_for_ip`.
- `conns` evicts by start (596): a long-lived connection goes before a dead younger one.
- `RecordSink` cuts at a newline, called a record boundary (`main.rs` 4577-4582), which it is
  not for `--format waterfall`.
- `capture_workload` may report a truncated run although the driver had finished, when the
  deadline's arm was taken first; closes of a workload's sockets may come after the drain.
- A connect stash made in the attach window can survive it (`main.rs` 5050-5075); a stale
  mark of a UDP socket lets a passive open of the recycled address through
  (`s3tap.bpf.c` 463); an abandoned call and a change of scope can pair an exit with the
  object of another call, which `PlaintextIsOwn` excepts by asking only
  of calls whose entry was in scope.
- The top set of the frequency predictor is exact up to ties although its comment calls it
  approximate. W-LFU with a window of one slot can drop the object it has just served.
- `scorecard.rs` 22-30 says there are no longer two different p50s; there are, over
  different populations. The parallelism check drops a partial overlapping GET from the
  evidence for an overlap, against the rule of `lib.rs` 14-22, and the churn check goes
  from unjudged to advisory with a partial that has no time.
- The comment at `s3tap-doctor/src/lib.rs` 1919-1924 says that a capture of which every
  request was aborted reaches CHECKS PASSED. That is true of the parity field
  `Report.verdict`; `overall_verdict`, which decides the exit code, answers `NoResponses`
  (`lib.rs` 243-251, 465-473), and of it the comment is stale.
- `analyze` exits with 2, not 4, on an input of only malformed connection lines
  (`src/README.md` 366-376); `adapt.rs` describes `LineOutcome` by a list that differs from
  `KNOWN_NON_TRACE_SCHEMAS`; `estimate_environment` counts raw region spellings while
  `multi_path` normalises them; `service.rs` describes partial records in a denominator
  they are not in.
- `classify_trace_line` (`adapt.rs` 347-351) drops a partial write that `to_op_records`
  (`caching.rs` 117-124) keeps because a cache would have had to forget the object. On the
  same file `analyze` may therefore find reuse where `advise` finds none;
  `VerdictsAgree` asks for equality only where no write was truncated.
- Without a write `advise` never answers `cache-go-latency`: what a prefetch could have served, a
  cache of every object would have served, and both floors are 10%. The ladders of the two
  commands differ below 64 objects, and with them the breadth of a prefetch, so with
  writes one may see structure and the other not.
