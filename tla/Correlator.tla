----------------------------- MODULE Correlator -----------------------------
(***************************************************************************)
(* The correlation engine (s3tap-core, correlate.rs): it folds per-socket  *)
(* events, in whatever order the rings deliver them, into Operation        *)
(* records. One action per handler.                                        *)
(*                                                                         *)
(* A `struct sock *` is a cookie and the kernel recycles it; a key is a    *)
(* (tgid, fd) pair and the kernel recycles fd numbers; fd 0 means that the *)
(* fd was not observed (a BIO client), so that all such connections of a   *)
(* process share one key. The handlers have to keep the lives of a         *)
(* recycled name apart.                                                    *)
(*                                                                         *)
(* Abstracted: addresses, names, byte counters and durations of a record;  *)
(* the share of `partial` that comes from a head cut off by the capture    *)
(* window, which nothing reads back; the parse-failure counter, likewise.  *)
(* The DNS maps, which no handler of this module writes, are in DnsJoin.   *)
(***************************************************************************)
EXTENDS Evict

CONSTANTS
    Cookies,    \* socket pointers
    Tgids,      \* processes
    Fds,        \* file descriptors, 0 is the BIO fallback
    Snis,       \* names a ClientHello may carry
    Versions,   \* TLS versions a ServerHello may yield, None when not decoded
    MaxOpen,    \* the cap of every map
    MaxTs,      \* bound: timestamps are 0 .. MaxTs
    MaxOps,     \* bound: operations opened in a run
    MaxBody,    \* bound: a declared Content-Length
    None        \* Option::None

Keys  == Tgids \X Fds
Ts    == 0 .. MaxTs
OpIds == 1 .. MaxOps

ConnState == [pid : Tgids, ts : Ts]
TlsInfo   == [sni : Snis \cup {None}, version : Versions \cup {None}, ts : Ts]
FdLink    == [cookie : Cookies, ts : Ts]
RespState == [target : 1 .. MaxBody, seen : 0 .. MaxBody]
OpenOp    == [id : OpIds, seq : 0 .. MaxOps, cookie : Cookies \cup {None},
              ambiguous : BOOLEAN, resp : RespState \cup {None}]
ConnOps   == [next_seq : 0 .. MaxOps, open : OpenOp \cup {None}, last_ts : Ts,
              last_bio_cookie : Cookies \cup {None}]
Operation == [key : Keys, seq : 0 .. MaxOps, cookie : Cookies \cup {None},
              partial : BOOLEAN, ambiguous : BOOLEAN,
              resp : {"none", "head", "complete"}]

ASSUME CorrelatorAssumption ==
    /\ Cookies \subseteq Nat /\ IsFiniteSet(Cookies)
    /\ Tgids \subseteq Nat /\ IsFiniteSet(Tgids)
    /\ Fds \subseteq Nat /\ IsFiniteSet(Fds)
    /\ MaxOpen \in Nat \ {0}        \* with_max_open clamps a cap of 0 to 1
    /\ MaxTs \in Nat /\ MaxOps \in Nat /\ MaxBody \in Nat
    /\ None \notin Cookies \cup Keys \cup Snis
    /\ None \notin ConnState \cup TlsInfo \cup FdLink
    /\ None \notin RespState \cup OpenOp \cup ConnOps \cup Operation

VARIABLES
    conns,          \* cookie -> ConnState
    tls,            \* cookie -> TlsInfo
    fd_links,       \* key -> FdLink
    fd_links_rev,   \* cookie -> key
    ops,            \* key -> ConnOps
    op_counter,     \* the last op id handed out
    flushed_ops,    \* ids of the ops flushed and not yet taken by the caller
    published,      \* id -> how often its record was handed to the caller
    built           \* id -> the Operation record built for it (history)

links  == <<fd_links, fd_links_rev>>
ledger == <<op_counter, flushed_ops, published, built>>
vars   == <<conns, tls, fd_links, fd_links_rev, ops, op_counter, flushed_ops,
            published, built>>

-----------------------------------------------------------------------------
(* Reading the maps *)

HasOpen(k)      == ops[k] # None /\ ops[k].open # None
HasResp(k)      == HasOpen(k) /\ ops[k].open.resp # None
NeverAwaiting(k) == FALSE          \* a fault: every head is a head
AwaitingBody(k) == HasResp(k) /\ ops[k].open.resp.seen < ops[k].open.resp.target
Opened(K)       == { k \in K : HasOpen(k) }
InFlight(i)     == \E k \in Keys : HasOpen(k) /\ ops[k].open.id = i

CookieRank == [c \in Cookies |-> c]
KeyRank ==
    [k \in Keys |-> Cardinality({ j \in Keys : \/ j[1] < k[1]
                                               \/ j[1] = k[1] /\ j[2] < k[2] })]

ConnVictims(c, map) ==
    LET S == { d \in Cookies : map[d] # None }
    IN  Victims(S, MaxOpen, [d \in S |-> map[d].ts], CookieRank, {c})
LinkVictims(k, map) ==
    LET S == { j \in Keys : map[j] # None }
    IN  Victims(S, MaxOpen, [j \in S |-> map[j].ts], KeyRank, {k})
OpsVictimsSparingNone(k, map) ==   \* a fault: the new slot may be the victim
    LET S == { j \in Keys : map[j] # None }
    IN  Victims(S, MaxOpen, [j \in S |-> map[j].last_ts], KeyRank, {})
OpsVictims(k, map) ==
    LET S == { j \in Keys : map[j] # None }
    IN  Victims(S, MaxOpen, [j \in S |-> map[j].last_ts], KeyRank, {k})

ForgetNothing(map, c) == map       \* a fault: the entry outlives its connection
Forget(map, c) == [map EXCEPT ![c] = None]
Without(map, K) == [k \in DOMAIN map |-> IF k \in K THEN None ELSE map[k]]

-----------------------------------------------------------------------------
(* Building a record, and the two ways it leaves the engine *)

(* The connection an op joins: its BIO cookie, else the fd's link. *)
CookieOf(k, op) ==
    IF op.cookie # None THEN op.cookie
    ELSE IF fd_links[k] # None THEN fd_links[k].cookie ELSE None

BuildOp(k, op, resp) ==
    LET c == CookieOf(k, op)
    IN  [key |-> k, seq |-> op.seq, cookie |-> c, ambiguous |-> op.ambiguous,
         partial |-> c = None \/ conns[c] = None, resp |-> resp]

RespOnFlush(op) == IF op.resp = None THEN "none" ELSE "head"

(* The records flush_and_drop_op builds for the slots K. *)
FlushRecords(K) ==
    [i \in { ops[k].open.id : k \in Opened(K) } |->
        LET k == CHOOSE k \in Opened(K) : ops[k].open.id = i
        IN  BuildOp(k, ops[k].open, RespOnFlush(ops[k].open))]

Record(recs) ==
    built' = [i \in OpIds |-> IF i \in DOMAIN recs THEN recs[i] ELSE built[i]]

(* flush_and_drop_op on every slot of K: a slot's op in flight is queued   *)
(* for the caller and the slot goes, with its sequence number.             *)
DropSilently(K) ==                 \* a fault: the op goes with its slot
    /\ ops' = Without(ops, K)
    /\ UNCHANGED ledger
FlushAndDrop(K) ==
    /\ ops' = Without(ops, K)
    /\ flushed_ops' = flushed_ops \cup { ops[k].open.id : k \in Opened(K) }
    /\ Record(FlushRecords(K))
    /\ UNCHANGED <<op_counter, published>>

(* A handler returns the op of slot k as finished: the slot stays, empty.  *)
TakeOpen(k, ts, resp) ==
    LET op == ops[k].open IN
    /\ ops' = [ops EXCEPT ![k].open = None, ![k].last_ts = ts]
    /\ published' = [published EXCEPT ![op.id] = @ + 1]
    /\ built' = [built EXCEPT ![op.id] = BuildOp(k, op, resp)]
    /\ UNCHANGED <<op_counter, flushed_ops>>

Touch(k, ts) ==
    /\ ops' = [ops EXCEPT ![k].last_ts = ts]
    /\ UNCHANGED ledger

-----------------------------------------------------------------------------
(* Connections *)

(* A link of this pointer held by another process is a previous life's. *)
StaleLink(c, t) ==
    /\ fd_links_rev[c] # None
    /\ fd_links_rev[c][1] # t
    /\ fd_links[fd_links_rev[c]] # None

OnConnect(c, t, ts, latency) ==
    LET stale == IF StaleLink(c, t) THEN {fd_links_rev[c]} ELSE {}
        seen  == [conns EXCEPT ![c] = [pid |-> t, ts |-> SatSub(ts, latency)]]
    IN  /\ FlushAndDrop(stale)
        /\ fd_links' = Without(fd_links, stale)
        /\ fd_links_rev' = Without(fd_links_rev, IF stale = {} THEN {} ELSE {c})
        /\ tls' = Forget(tls, c)
        /\ \E V \in ConnVictims(c, seen) : conns' = Without(seen, V)

(* The link a close owns: one that is not stamped after it. *)
OwnLinkAnyAge(c, ts) == fd_links_rev[c] # None  \* a fault: the stamp is not looked at
OwnLink(c, ts) ==
    /\ fd_links_rev[c] # None
    /\ \/ fd_links[fd_links_rev[c]] = None
       \/ ts = 0
       \/ fd_links[fd_links_rev[c]].ts <= ts

BioKeys == { k \in Keys : k[2] = 0 /\ ops[k] # None }
(* The first scan of a close without a link: an op open on the cookie. *)
BioOpen(c)  == { k \in Opened(BioKeys) : ops[k].open.cookie = c }
(* The second: a slot the cookie was last seen on. *)
BioOwned(c) == { k \in BioKeys : ops[k].last_bio_cookie = c }

(* The slots a close may flush; `find` returns any match of a HashMap. *)
ClosingSlots(c, ts) ==
    IF OwnLink(c, ts) THEN {{fd_links_rev[c]}}
    ELSE IF fd_links_rev[c] # None THEN {{}}
    ELSE IF BioOpen(c) # {} THEN {{k} : k \in BioOpen(c)}
    ELSE IF BioOwned(c) # {} THEN {{k} : k \in BioOwned(c)}
    ELSE {{}}

OnClose(c, ts) ==
    /\ \E K \in ClosingSlots(c, ts) : FlushAndDrop(K)
    /\ conns' = Forget(conns, c)
    /\ tls' = Forget(tls, c)
    /\ IF OwnLink(c, ts)
       THEN /\ fd_links' = [fd_links EXCEPT ![fd_links_rev[c]] = None]
            /\ fd_links_rev' = [fd_links_rev EXCEPT ![c] = None]
       ELSE UNCHANGED links

(* The slot the key held is a previous life's, whatever cookie it was on. *)
RetiredNever(k, c) == {}           \* a fault: the slot bleeds into the new connection
Retired(k, c) == {k}

(* The key the cookie had before, and the cookie the key had before. *)
OldKey(k, c) == IF fd_links_rev[c] \in {None, k} THEN {} ELSE {fd_links_rev[c]}
OldPtrKept(k, c) == {}             \* a fault: the reverse entry is left behind
OldPtr(k, c) ==
    IF fd_links[k] = None \/ fd_links[k].cookie = c THEN {} ELSE {fd_links[k].cookie}

(* Rebinding (tgid, fd) to a cookie: both maps drop the partner each side  *)
(* had, then the map of links is cut back to its cap.                      *)
OnConnId(t, f, c, ts) ==
    LET k       == <<t, f>>
        oldKey  == OldKey(k, c)
        oldPtr  == OldPtr(k, c)
        bound   == [Without(fd_links, oldKey) EXCEPT ![k] = [cookie |-> c, ts |-> ts]]
        back    == [Without(fd_links_rev, oldPtr) EXCEPT ![c] = k]
    IN  \E V \in LinkVictims(k, bound) :
            /\ FlushAndDrop(Retired(k, c) \cup oldKey \cup V)
            /\ fd_links' = Without(bound, V)
            /\ fd_links_rev' = Without(back, { d \in Cookies :
                  \E v \in V : bound[v].cookie = d /\ back[d] = v })
            /\ UNCHANGED <<conns, tls>>

-----------------------------------------------------------------------------
(* TLS facts of a connection *)

TlsEntry(c, ts) ==
    IF tls[c] = None THEN [sni |-> None, version |-> None, ts |-> ts] ELSE tls[c]

OnTlsHandshake(c, sni, ts) ==
    LET seen == [tls EXCEPT ![c] = [TlsEntry(c, ts) EXCEPT !.sni = sni, !.ts = ts]]
    IN  /\ \E V \in ConnVictims(c, seen) : tls' = Without(seen, V)
        /\ UNCHANGED <<conns, links, ops, ledger>>

(* version None: the probe could not decode it and sent 0. *)
OnTlsServer(c, version, ts) ==
    LET entry == TlsEntry(c, ts)
        seen  == [tls EXCEPT ![c] =
                    IF version = None THEN entry ELSE [entry EXCEPT !.version = version]]
    IN  /\ \E V \in ConnVictims(c, seen) : tls' = Without(seen, V)
        /\ UNCHANGED <<conns, links, ops, ledger>>

-----------------------------------------------------------------------------
(* Operations. bio is the cookie the probe inferred for an fd-0 event.     *)

(* A different BIO cookie on the slot: a new connection has taken it over. *)
BioConnChanged(k, bio) ==
    /\ bio # None
    /\ ops[k] # None
    /\ ops[k].last_bio_cookie \notin {None, bio}

(* The op the write interrupts, and how it is reported. *)
Overtaken(k, bio) ==
    HasOpen(k) /\ ops[k].open.resp = None /\ ~BioConnChanged(k, bio)

InterruptedUnmarked(k, bio) ==     \* a fault: only the newcomer is marked
    BuildOp(k, ops[k].open, RespOnFlush(ops[k].open))
Interrupted(k, bio) ==
    LET op == ops[k].open
    IN  BuildOp(k, [op EXCEPT !.ambiguous = @ \/ Overtaken(k, bio)], RespOnFlush(op))

OpenSlot(k, bio, ts) ==
    LET seq == IF ops[k] = None \/ BioConnChanged(k, bio) THEN 0 ELSE ops[k].next_seq
    IN  [next_seq |-> seq + 1,
         last_ts  |-> ts,
         last_bio_cookie |-> IF bio # None \/ ops[k] = None THEN bio
                             ELSE ops[k].last_bio_cookie,
         open |-> [id |-> op_counter + 1, seq |-> seq, cookie |-> bio,
                   ambiguous |-> Overtaken(k, bio), resp |-> None]]

(* The op the write returns as finished. *)
FinishedIfAnswered(k) ==           \* a fault: an unanswered op is overwritten
    IF HasResp(k) THEN {ops[k].open.id} ELSE {}
Finished(k) == IF HasOpen(k) THEN {ops[k].open.id} ELSE {}

OnTlsWrite(t, f, bio, ts) ==
    LET k    == <<t, f>>
        prev == Finished(k)
        map  == [ops EXCEPT ![k] = OpenSlot(k, bio, ts)]
    IN  /\ op_counter < MaxOps
        /\ op_counter' = op_counter + 1
        /\ published' = [i \in OpIds |-> published[i] + IF i \in prev THEN 1 ELSE 0]
        /\ \E V \in OpsVictims(k, map) :
            /\ ops' = Without(map, V)
            /\ flushed_ops' = flushed_ops \cup { ops[v].open.id : v \in Opened(V) }
            /\ LET recs == FlushRecords(V) IN
               built' = [i \in OpIds |-> IF i \in prev THEN Interrupted(k, bio)
                                         ELSE IF i \in DOMAIN recs THEN recs[i]
                                         ELSE built[i]]
        /\ UNCHANGED <<conns, tls, links>>

(* An fd-0 read pairs only with an op of the connection it came from. *)
SlotConn(k, bio) == TRUE           \* a fault: whoever holds the slot gets the read
SameBioConn(k, bio) ==
    (bio # None /\ HasOpen(k)) => ops[k].open.cookie \in {None, bio}

BodyDone(rs, len) == rs.seen + len >= rs.target

(* len more bytes of a response body. *)
TallyBody(k, ts, len) ==
    /\ ops[k] # None
    /\ IF ~HasResp(k) THEN Touch(k, ts)
       ELSE LET rs == ops[k].open.resp IN
            IF BodyDone(rs, len) THEN TakeOpen(k, ts, "complete")
            ELSE /\ ops' = [ops EXCEPT ![k].last_ts = ts, ![k].open.resp.seen = @ + len]
                 /\ UNCHANGED ledger

OnTlsReadBody(t, f, bio, ts, len) ==
    /\ SameBioConn(<<t, f>>, bio)
    /\ TallyBody(<<t, f>>, ts, len)
    /\ UNCHANGED <<conns, tls, links>>

(* A head-looking read while a declared body is outstanding is body. *)
OnTlsReadAsBody(t, f, bio, ts, len) ==
    /\ AwaitingBody(<<t, f>>)
    /\ SameBioConn(<<t, f>>, bio)
    /\ TallyBody(<<t, f>>, ts, len)
    /\ UNCHANGED <<conns, tls, links>>

(* A 1xx response keeps the op open. *)
OnTlsReadInterim(t, f, bio, ts) ==
    /\ SameBioConn(<<t, f>>, bio)
    /\ ops[<<t, f>>] # None
    /\ ~AwaitingBody(<<t, f>>)
    /\ Touch(<<t, f>>, ts)
    /\ UNCHANGED <<conns, tls, links>>

(* A final response head that declares a body of `target` bytes (0: none   *)
(* that can be tallied), `inHead` of which came with it.                   *)
OnTlsReadHead(t, f, bio, ts, target, inHead) ==
    LET k == <<t, f>> IN
    /\ SameBioConn(k, bio)
    /\ ops[k] # None
    /\ ~AwaitingBody(k)
    /\ IF ~HasOpen(k) THEN Touch(k, ts)
       ELSE IF inHead < target
       THEN /\ ops' = [ops EXCEPT ![k].last_ts = ts,
                         ![k].open.resp = [target |-> target, seen |-> inHead]]
            /\ UNCHANGED ledger
       ELSE TakeOpen(k, ts, IF target > 0 THEN "complete" ELSE "head")
    /\ UNCHANGED <<conns, tls, links>>

-----------------------------------------------------------------------------
(* The caller's side: taking the queue after a fold, and shutdown. *)

TakeFlushedOps ==
    /\ flushed_ops # {}
    /\ flushed_ops' = {}
    /\ published' = [i \in OpIds |-> published[i] + IF i \in flushed_ops THEN 1 ELSE 0]
    /\ UNCHANGED <<conns, tls, links, ops, op_counter, built>>

FlushOpenOps ==
    /\ FlushAndDrop(Keys)
    /\ UNCHANGED <<conns, tls, links>>

-----------------------------------------------------------------------------
Init ==
    /\ conns = [c \in Cookies |-> None]
    /\ tls = [c \in Cookies |-> None]
    /\ fd_links = [k \in Keys |-> None]
    /\ fd_links_rev = [c \in Cookies |-> None]
    /\ ops = [k \in Keys |-> None]
    /\ op_counter = 0
    /\ flushed_ops = {}
    /\ published = [i \in OpIds |-> 0]
    /\ built = [i \in OpIds |-> None]

(* The cookies a plaintext event of fd f can carry as its BIO fallback. *)
BioCookies(f) == IF f = 0 THEN Cookies \cup {None} ELSE {None}

ConnNext ==
    \/ \E c \in Cookies, t \in Tgids, ts, latency \in Ts : OnConnect(c, t, ts, latency)
    \/ \E c \in Cookies, ts \in Ts : OnClose(c, ts)
    \/ \E t \in Tgids, f \in Fds, c \in Cookies, ts \in Ts : OnConnId(t, f, c, ts)
    \/ \E c \in Cookies, sni \in Snis, ts \in Ts : OnTlsHandshake(c, sni, ts)
    \/ \E c \in Cookies, v \in Versions, ts \in Ts : OnTlsServer(c, v, ts)

OpNext ==
    \E t \in Tgids, f \in Fds, ts \in Ts : \E bio \in BioCookies(f) :
        \/ OnTlsWrite(t, f, bio, ts)
        \/ OnTlsReadInterim(t, f, bio, ts)
        \/ \E len \in 1 .. MaxBody : OnTlsReadBody(t, f, bio, ts, len)
        \/ \E len \in 1 .. MaxBody : OnTlsReadAsBody(t, f, bio, ts, len)
        \/ \E target, inHead \in 0 .. MaxBody : OnTlsReadHead(t, f, bio, ts, target, inHead)

Next == ConnNext \/ OpNext \/ TakeFlushedOps \/ FlushOpenOps

Spec == Init /\ [][Next]_vars

-----------------------------------------------------------------------------
(* Properties *)

(* Every map holds values of its type.                                     *)
TypeOK ==
    /\ conns \in [Cookies -> ConnState \cup {None}]
    /\ tls \in [Cookies -> TlsInfo \cup {None}]
    /\ fd_links \in [Keys -> FdLink \cup {None}]
    /\ fd_links_rev \in [Cookies -> Keys \cup {None}]
    /\ ops \in [Keys -> ConnOps \cup {None}]
    /\ op_counter \in 0 .. MaxOps
    /\ flushed_ops \in SUBSET OpIds
    /\ published \in [OpIds -> Nat]
    /\ built \in [OpIds -> Operation \cup {None}]

(* The link map and its reverse stay exact inverses through every rebind,  *)
(* close, takeover by another process and eviction: a close finds its fd,  *)
(* and no fd resolves to a cookie that has moved on.                       *)
LinksInverse ==
    /\ \A k \in Keys : fd_links[k] # None => fd_links_rev[fd_links[k].cookie] = k
    /\ \A c \in Cookies : fd_links_rev[c] # None =>
          /\ fd_links[fd_links_rev[c]] # None
          /\ fd_links[fd_links_rev[c]].cookie = c

(* However many closes are lost, no map outgrows its cap once a handler    *)
(* has returned.                                                           *)
Bounded ==
    /\ Cardinality({ c \in Cookies : conns[c] # None }) <= MaxOpen
    /\ Cardinality({ c \in Cookies : tls[c] # None }) <= MaxOpen
    /\ Cardinality({ k \in Keys : fd_links[k] # None }) <= MaxOpen
    /\ Cardinality({ k \in Keys : ops[k] # None }) <= MaxOpen

(* No request is lost and none is reported twice: an op that was opened is *)
(* in flight in one slot, or queued for the caller, or handed to it once.  *)
(* Slots go on a close, an fd or pointer reuse, an eviction and at         *)
(* shutdown, and none of these may drop the op they hold.                  *)
OpConserved ==
    \A i \in OpIds :
        /\ published[i] <= 1
        /\ (i <= op_counter) = (InFlight(i) \/ i \in flushed_ops \/ published[i] = 1)
        /\ ~(InFlight(i) /\ i \in flushed_ops)
        /\ ~(InFlight(i) /\ published[i] = 1)
        /\ ~(i \in flushed_ops /\ published[i] = 1)
        /\ \A j, k \in Keys :
              (HasOpen(j) /\ HasOpen(k) /\ ops[j].open.id = i /\ ops[k].open.id = i) => j = k

(* An op keeps waiting only while its declared body is short, whichever of *)
(* the head, the body events or head-looking body bytes completed it.      *)
BodyShort ==
    \A k \in Keys : HasResp(k) => ops[k].open.resp.seen < ops[k].open.resp.target

(* Two requests overlapped on one connection only if both say so: every    *)
(* ambiguous op has an ambiguous neighbour on the same (tgid, fd), in      *)
(* flight or already reported.                                             *)
AmbiguousOn(i, k) ==
    \/ built[i] # None /\ built[i].ambiguous /\ built[i].key = k
    \/ HasOpen(k) /\ ops[k].open.id = i /\ ops[k].open.ambiguous
AmbiguityIsMutual ==
    \A i \in OpIds, k \in Keys :
        AmbiguousOn(i, k) => \E j \in OpIds \ {i} : AmbiguousOn(j, k)

(* The op a write has just opened is in flight after it, even when the     *)
(* write was stamped older than every resident slot and the map is full.   *)
FreshOpSurvives ==
    [][op_counter' # op_counter => InFlight(op_counter)']_vars

(* A declared Content-Length is authoritative until it is met: while an op *)
(* waits for its body nothing that arrives, a head-looking chunk of the    *)
(* object included, replaces the response it recorded or un-counts bytes.  *)
HeadIsFinal ==
    [][\A k \in Keys :
         (HasResp(k) /\ HasOpen(k)' /\ ops'[k].open.id = ops[k].open.id) =>
            /\ HasResp(k)'
            /\ ops'[k].open.resp.target = ops[k].open.resp.target
            /\ ops'[k].open.resp.seen >= ops[k].open.resp.seen]_vars

(* The two TLS hellos merge in either order: what one taught about a       *)
(* connection the other does not erase.                                    *)
HellosMerge ==
    [][\A c \in Cookies : (tls[c] # None /\ tls'[c] # None) =>
         /\ tls[c].sni # None => tls'[c].sni # None
         /\ tls[c].version # None => tls'[c].version # None]_vars

(* The engine as a ledger of requests. *)
Ledger == INSTANCE OpLedger WITH
    Ids <- OpIds,
    stage <- [i \in OpIds |->
        IF published[i] > 1 THEN "twice"
        ELSE IF published[i] = 1 THEN "reported"
        ELSE IF i \in flushed_ops THEN "due"
        ELSE IF InFlight(i) THEN "open"
        ELSE IF i > op_counter THEN "unborn" ELSE "lost"]

(* The engine implements the ledger: requests are numbered in order and    *)
(* each goes through in flight, perhaps due, to reported, once.            *)
LedgerSpec == Ledger!Spec
=============================================================================
