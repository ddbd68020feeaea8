------------------------------- MODULE DnsJoin -------------------------------
(***************************************************************************)
(* Naming a connection: the correlator's three DNS maps (s3tap-core,       *)
(* correlate.rs), fed by what the resolver puts on the wire and by what    *)
(* getaddrinfo returned, and read whenever a record is built.              *)
(*                                                                         *)
(* A caller's getaddrinfo is answered by a cache, or asks the name server  *)
(* from a UDP socket whose pointer and transaction id are recycled. The    *)
(* events of all this share the critical ring with everything else: a full *)
(* ring loses one, and the fold runs behind.                               *)
(*                                                                         *)
(* Abstracted: the text of names and messages, TTLs and counts; a name too *)
(* long to be captured, a message that does not parse, and the loss of the *)
(* probe's note of a call in flight, which all look like a lost event.     *)
(***************************************************************************)
EXTENDS Evict, Sequences

CONSTANTS
    Callers,        \* threads that resolve names
    Hosts, Ips,
    Resolves,       \* Hosts -> SUBSET Ips: what the name server answers
    Cookies,        \* pointers of the resolver's UDP sockets
    TxnIds,
    DNS_MAP_CAP,    \* the cap of each map
    RingCap,        \* events the ring holds
    MaxTs,          \* bound: timestamps are 0 .. MaxTs
    None

Ts   == 0 .. MaxTs
Keys == Cookies \X TxnIds

PendingQuery == [qname : Hosts, query_ts : Ts]
Resolution   == [hostname : Hosts, query_ts : Ts, resolved_ts : Ts]
Gai          == [latency : Ts, cache_hit : BOOLEAN, ts : Ts]
DnsBlock     == [hostname : Hosts, latency : Ts, via : {"getaddrinfo", "wire"},
                 cache_hit : BOOLEAN]
Call         == [host : Hosts, start : Ts, key : Keys \cup {None}, answered : BOOLEAN]
Conn         == [ip : Ips, ts : Ts, reported : SUBSET {"op", "connection"},
                 op_dns : DnsBlock \cup {None}, dns : DnsBlock \cup {None}]
Event        == [kind : {"query", "response"}, host : Hosts, key : Keys, ts : Ts]
           \cup [kind : {"getaddrinfo"}, host : Hosts, ok : BOOLEAN, latency : Ts,
                 ts : Ts, asked : BOOLEAN, own : BOOLEAN]

ASSUME DnsAssumption ==
    /\ Cookies \subseteq Nat /\ TxnIds \subseteq Nat
    /\ IsFiniteSet(Cookies) /\ IsFiniteSet(TxnIds) /\ IsFiniteSet(Hosts) /\ IsFiniteSet(Ips)
    /\ Resolves \in [Hosts -> SUBSET Ips]
    /\ \A h \in Hosts : Cardinality(Resolves[h]) <= DNS_MAP_CAP  \* at most 64 answers are parsed
    /\ DNS_MAP_CAP \in Nat \ {0} /\ RingCap \in Nat /\ MaxTs \in Nat
    /\ None \notin Keys \cup Ts \cup PendingQuery \cup Resolution \cup Gai
    /\ None \notin DnsBlock \cup Call \cup Conn

VARIABLES
    clock,
    calls,          \* caller -> its getaddrinfo in flight, None
    ring,           \* the events queued for the fold
    pending_dns,    \* (cookie, txn id) -> PendingQuery
    resolutions,    \* ip -> Resolution
    gai,            \* host -> Gai
    conn,           \* one connection and the dns blocks reported for it, None
    last_wire,      \* ghost: host -> when it was last asked or answered on the wire
    missing,        \* ghost: an event was lost, or an entry evicted
    displaced       \* ghost: an entry was replaced by one of another name

world  == <<clock, calls, ring>>
dns    == <<pending_dns, resolutions, gai>>
ghosts == <<last_wire, missing, displaced>>
vars   == <<world, dns, conn, ghosts>>

-----------------------------------------------------------------------------
(* Resolvers and the probes on them. *)

Stamp == clock < MaxTs /\ clock' = clock + 1

Emit(e) ==
    IF Len(ring) < RingCap THEN ring' = Append(ring, e) /\ UNCHANGED missing
    ELSE missing' = TRUE /\ UNCHANGED ring

StartCall(p, h) ==
    /\ Stamp
    /\ calls[p] = None
    /\ calls' = [calls EXCEPT ![p] =
                   [host |-> h, start |-> clock, key |-> None, answered |-> FALSE]]
    /\ UNCHANGED <<ring, dns, conn, ghosts>>

(* A query, or the retransmission of one that was not answered. *)
SendQuery(p, key) ==
    /\ Stamp
    /\ calls[p] # None /\ ~calls[p].answered /\ calls[p].key \in {None, key}
    /\ \A q \in Callers \ {p} :
          (calls[q] # None /\ calls[q].key # None) => calls[q].key[1] # key[1]
    /\ calls' = [calls EXCEPT ![p].key = key]
    /\ last_wire' = [last_wire EXCEPT ![calls[p].host] = clock]
    /\ Emit([kind |-> "query", host |-> calls[p].host, key |-> key, ts |-> clock])
    /\ UNCHANGED <<dns, conn, displaced>>

Answer(p) ==
    /\ Stamp
    /\ calls[p] # None /\ calls[p].key # None /\ ~calls[p].answered
    /\ calls' = [calls EXCEPT ![p].answered = TRUE]
    /\ last_wire' = [last_wire EXCEPT ![calls[p].host] = clock]
    /\ Emit([kind |-> "response", host |-> calls[p].host, key |-> calls[p].key, ts |-> clock])
    /\ UNCHANGED <<dns, conn, displaced>>

(* The call returns: from a cache, with the answer, or in failure, as it   *)
(* does for a name without an address.                                     *)
Return(p, ok) ==
    /\ Stamp
    /\ calls[p] # None
    /\ ok = (/\ Resolves[calls[p].host] # {}
             /\ calls[p].answered \/ calls[p].key = None)
    /\ calls' = [calls EXCEPT ![p] = None]
    /\ LET c == calls[p]
       IN  Emit([kind |-> "getaddrinfo", host |-> c.host, ok |-> ok,
                 latency |-> clock - c.start, ts |-> clock, own |-> c.answered,
                 asked |-> last_wire[c.host] # None /\ last_wire[c.host] >= c.start])
    /\ UNCHANGED <<dns, conn, last_wire, displaced>>

-----------------------------------------------------------------------------
(* The handlers. *)

KeyRank == [k \in Keys |-> Cardinality({ j \in Keys : \/ j[1] < k[1]
                                                      \/ j[1] = k[1] /\ j[2] < k[2] })]
AnyOrder(S) == CHOOSE rank \in [S -> 1 .. Cardinality(S)] :
                  \A a, b \in S : rank[a] = rank[b] => a = b
HostRank == AnyOrder(Hosts)
IpRank   == AnyOrder(Ips)

Present(map) == { k \in DOMAIN map : map[k] # None }
Without(map, K) == [k \in DOMAIN map |-> IF k \in K THEN None ELSE map[k]]

OnDnsQuery(key, host, ts) ==
    LET map == [pending_dns EXCEPT ![key] = [qname |-> host, query_ts |-> ts]]
        S   == Present(map)
    IN  /\ \E V \in Victims(S, DNS_MAP_CAP, [k \in S |-> map[k].query_ts], KeyRank, {key}) :
              /\ pending_dns' = Without(map, V)
              /\ missing' = (missing \/ V # {})
        /\ displaced' = (displaced \/ (pending_dns[key] # None /\ pending_dns[key].qname # host))
        /\ UNCHANGED <<resolutions, gai>>

(* The query a response pairs with: the pending one of its key, if its     *)
(* name is the one the response echoes.                                    *)
PairsByKey(key, host) == pending_dns[key] # None  \* a fault: the name is not compared
Pairs(key, host) == pending_dns[key] # None /\ pending_dns[key].qname = host

OnDnsResponse(key, host, ts) ==
    IF ~Pairs(key, host) THEN UNCHANGED <<dns, missing, displaced>>
    ELSE LET q     == pending_dns[key]
             fresh == Resolves[host]
             map   == [ip \in Ips |->
                         IF ip \in fresh
                         THEN [hostname |-> q.qname, query_ts |-> q.query_ts, resolved_ts |-> ts]
                         ELSE resolutions[ip]]
             S     == Present(map)
         IN  /\ pending_dns' = [pending_dns EXCEPT ![key] = None]
             /\ \E V \in Victims(S, DNS_MAP_CAP, [ip \in S |-> map[ip].resolved_ts],
                                 IpRank, fresh) :
                   /\ resolutions' = Without(map, V)
                   /\ missing' = (missing \/ V # {})
             /\ displaced' = (displaced \/ \E ip \in fresh :
                   resolutions[ip] # None /\ resolutions[ip].hostname # q.qname)
             /\ UNCHANGED gai

(* A wire lookup of the host overlapped the call. *)
PendingAnyAge(host, start, exit) == \* a fault: a query never answered counts for ever
    \E k \in Keys : pending_dns[k] # None /\ pending_dns[k].qname = host
PendingInWindow(host, start, exit) ==
    \E k \in Keys :
        /\ pending_dns[k] # None /\ pending_dns[k].qname = host
        /\ pending_dns[k].query_ts \in start .. exit
ResolvedInWindow(host, start, exit) ==
    \E ip \in Ips :
        /\ resolutions[ip] # None /\ resolutions[ip].hostname = host
        /\ resolutions[ip].query_ts <= exit /\ start <= resolutions[ip].resolved_ts

OnGetaddrinfo(host, ok, latency, ts) ==
    IF ~ok THEN UNCHANGED <<dns, missing, displaced>>
    ELSE LET start   == SatSub(ts, latency)
             sawWire == ResolvedInWindow(host, start, ts) \/ PendingInWindow(host, start, ts)
             map     == [gai EXCEPT ![host] =
                           [latency |-> latency, cache_hit |-> ~sawWire, ts |-> ts]]
             S       == Present(map)
         IN  /\ \E V \in Victims(S, DNS_MAP_CAP, [h \in S |-> map[h].ts], HostRank, {host}) :
                   gai' = Without(map, V)
             /\ UNCHANGED <<pending_dns, resolutions, missing, displaced>>

FoldQuery ==
    /\ ring # <<>> /\ Head(ring).kind = "query"
    /\ ring' = Tail(ring)
    /\ OnDnsQuery(Head(ring).key, Head(ring).host, Head(ring).ts)
    /\ UNCHANGED <<clock, calls, conn, last_wire>>

FoldResponse ==
    /\ ring # <<>> /\ Head(ring).kind = "response"
    /\ ring' = Tail(ring)
    /\ OnDnsResponse(Head(ring).key, Head(ring).host, Head(ring).ts)
    /\ UNCHANGED <<clock, calls, conn, last_wire>>

FoldGetaddrinfo ==
    /\ ring # <<>> /\ Head(ring).kind = "getaddrinfo"
    /\ ring' = Tail(ring)
    /\ OnGetaddrinfo(Head(ring).host, Head(ring).ok, Head(ring).latency, Head(ring).ts)
    /\ UNCHANGED <<clock, calls, conn, last_wire>>

-----------------------------------------------------------------------------
(* A connection, and the two records that carry its dns block. *)

DnsForIp(ip, conn_ts) ==
    IF resolutions[ip] = None THEN None
    ELSE LET res == resolutions[ip]
             g   == gai[res.hostname]
         IN  IF g # None /\ (g # None => g.ts <= conn_ts)
             THEN [hostname |-> res.hostname, latency |-> g.latency,
                   via |-> "getaddrinfo", cache_hit |-> g.cache_hit]
             ELSE [hostname |-> res.hostname,
                   latency |-> SatSub(res.resolved_ts, res.query_ts),
                   via |-> "wire", cache_hit |-> FALSE]

Connect(ip) ==
    /\ conn = None
    /\ conn' = [ip |-> ip, ts |-> clock, reported |-> {}, op_dns |-> None, dns |-> None]
    /\ UNCHANGED <<world, dns, ghosts>>

(* build_op, for the first op of the connection. *)
ReportOp ==
    /\ conn # None /\ conn.reported = {}
    /\ conn' = [conn EXCEPT !.op_dns = DnsForIp(conn.ip, conn.ts), !.reported = {"op"}]
    /\ UNCHANGED <<world, dns, ghosts>>

(* on_close. *)
ReportConnection ==
    /\ conn # None /\ "connection" \notin conn.reported
    /\ conn' = [conn EXCEPT !.dns = DnsForIp(conn.ip, conn.ts),
                            !.reported = @ \cup {"connection"}]
    /\ UNCHANGED <<world, dns, ghosts>>

-----------------------------------------------------------------------------
Init ==
    /\ clock = 0
    /\ calls = [p \in Callers |-> None]
    /\ ring = <<>>
    /\ pending_dns = [k \in Keys |-> None]
    /\ resolutions = [ip \in Ips |-> None]
    /\ gai = [h \in Hosts |-> None]
    /\ conn = None
    /\ last_wire = [h \in Hosts |-> None]
    /\ missing = FALSE /\ displaced = FALSE

Next ==
    \/ \E p \in Callers :
        \/ \E h \in Hosts : StartCall(p, h)
        \/ \E k \in Keys : SendQuery(p, k)
        \/ Answer(p)
        \/ \E ok \in BOOLEAN : Return(p, ok)
    \/ FoldQuery \/ FoldResponse \/ FoldGetaddrinfo
    \/ \E ip \in Ips : Connect(ip)
    \/ ReportOp \/ ReportConnection

Spec == Init /\ [][Next]_vars

-----------------------------------------------------------------------------
(* Properties *)

(* Every variable has its type, and no map outgrows its cap.               *)
DnsTypeOK ==
    /\ clock \in Ts
    /\ calls \in [Callers -> Call \cup {None}]
    /\ ring \in Seq(Event) /\ Len(ring) <= RingCap
    /\ pending_dns \in [Keys -> PendingQuery \cup {None}]
    /\ resolutions \in [Ips -> Resolution \cup {None}]
    /\ gai \in [Hosts -> Gai \cup {None}]
    /\ conn \in Conn \cup {None}
    /\ last_wire \in [Hosts -> Ts \cup {None}]
    /\ missing \in BOOLEAN /\ displaced \in BOOLEAN
    /\ Cardinality(Present(pending_dns)) <= DNS_MAP_CAP
    /\ Cardinality(Present(resolutions)) <= DNS_MAP_CAP
    /\ Cardinality(Present(gai)) <= DNS_MAP_CAP

(* An address is only ever labelled with a name that does resolve to it,   *)
(* and so is a record, although a lost query event makes the response to   *)
(* one name meet the pending query of another under a recycled key.        *)
LabelsAreTrue ==
    /\ \A ip \in Ips : resolutions[ip] # None => ip \in Resolves[resolutions[ip].hostname]
    /\ conn # None =>
          \A block \in {conn.op_dns, conn.dns} \ {None} :
              conn.ip \in Resolves[block.hostname]

(* A call is reported as a cache hit exactly when no lookup of its name    *)
(* was on the wire meanwhile: neither a query an earlier call never had    *)
(* answered nor the fold's delay changes the verdict. Only what the maps   *)
(* no longer hold does: a lost event, an eviction, or an entry that        *)
(* another name has taken.                                                 *)
HitIffNotAsked ==
    [][(FoldGetaddrinfo /\ ~missing /\ ~displaced) =>
         LET e == Head(ring)
         IN  e.ok => gai'[e.host].cache_hit = ~e.asked]_vars
=============================================================================
