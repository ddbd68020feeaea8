---------------------------- MODULE DnsJoinProofs ----------------------------
(***************************************************************************)
(* The DNS join for every set of callers, names, addresses, sockets and    *)
(* transaction ids, every cap and every ring: the maps hold values of      *)
(* their types within their caps, no address is ever labelled with a name  *)
(* that does not resolve to it, and a call is reported as a cache hit      *)
(* exactly when nothing of its name was on the wire meanwhile.             *)
(***************************************************************************)
EXTENDS DnsJoin, EvictProofs

(* The parts of DnsTypeOK, by who writes them.                             *)
CallsTyped ==
    /\ clock \in Ts
    /\ calls \in [Callers -> Call \cup {None}]
RingTyped == ring \in Seq(Event) /\ Len(ring) <= RingCap
PendingTyped == pending_dns \in [Keys -> PendingQuery \cup {None}]
ResolutionsTyped == resolutions \in [Ips -> Resolution \cup {None}]
GaiTyped == gai \in [Hosts -> Gai \cup {None}]
ConnTyped == conn \in Conn \cup {None}
GhostsTyped ==
    /\ last_wire \in [Hosts -> Ts \cup {None}]
    /\ missing \in BOOLEAN /\ displaced \in BOOLEAN
Capped ==
    /\ Cardinality(Present(pending_dns)) <= DNS_MAP_CAP
    /\ Cardinality(Present(resolutions)) <= DNS_MAP_CAP
    /\ Cardinality(Present(gai)) <= DNS_MAP_CAP

(* What the type lacks to be inductive: a call in flight began in the past, *)
(* so that its latency is no more than the clock.                          *)
BegunBefore == \A p \in Callers : calls[p] # None => calls[p].start <= clock

LabelsTrue ==
    \A ip \in Ips : resolutions[ip] # None => ip \in Resolves[resolutions[ip].hostname]
BlocksTrue ==
    conn # None => \A block \in {conn.op_dns, conn.dns} \ {None} :
                       conn.ip \in Resolves[block.hostname]

Inv ==
    /\ CallsTyped /\ RingTyped /\ PendingTyped /\ ResolutionsTyped /\ GaiTyped
    /\ ConnTyped /\ GhostsTyped /\ BegunBefore /\ Capped
    /\ LabelsTrue /\ BlocksTrue

LEMMA InvMeans == Inv => DnsTypeOK /\ LabelsAreTrue
  BY DEF Inv, CallsTyped, RingTyped, PendingTyped, ResolutionsTyped, GaiTyped, ConnTyped,
         GhostsTyped, Capped, LabelsTrue, BlocksTrue, DnsTypeOK, LabelsAreTrue

-----------------------------------------------------------------------------
(* The pass of evict_oldest_over when what it must keep is a whole batch:  *)
(* it reclaims the excess, as long as the batch itself is within the cap.  *)
LEMMA VictimsRestoreCapOfBatch ==
    ASSUME NEW S, IsFiniteSet(S), NEW cap \in Nat \ {0}, NEW stamp, NEW rank,
           NEW keep, IsFiniteSet(keep), Cardinality(keep) <= cap,
           NEW V \in Victims(S, cap, stamp, rank, keep)
    PROVE  Cardinality(S \ V) <= cap
<1>1. V \subseteq S \ keep
  BY VictimsSpareKeep
<1>2. /\ IsFiniteSet(V) /\ Cardinality(V) \in Nat
      /\ IsFiniteSet(S \ keep) /\ Cardinality(S \ keep) \in Nat
      /\ IsFiniteSet(S \cap keep) /\ Cardinality(S \cap keep) \in Nat
      /\ Cardinality(S) \in Nat /\ Cardinality(keep) \in Nat
  BY <1>1, FS_Subset, FS_CardinalityType, FS_Intersection
<1>3. Cardinality(S \cap keep) <= Cardinality(keep)
  BY FS_Subset
<1>4. Cardinality(S \ keep) = Cardinality(S) - Cardinality(S \cap keep)
  BY FS_Difference
<1>5. Cardinality(S \ V) = Cardinality(S) - Cardinality(V)
  <2>1. S \cap V = V
    BY <1>1
  <2> QED
    BY <2>1, <1>2, FS_Difference
<1>6. CASE Cardinality(S) > cap
  <2>1. Cardinality(V) = MinOf(EvictTarget(Cardinality(S), cap), Cardinality(S \ keep))
    BY <1>6 DEF Victims, OldestKeys
  <2>2. Cardinality(V) >= Cardinality(S) - cap
    BY <2>1, <1>2, <1>3, <1>4, <1>6, EvictTargetCovers DEF MinOf
  <2> QED
    BY <2>2, <1>2, <1>5
<1>7. CASE ~(Cardinality(S) > cap)
  <2>1. V = {}
    BY <1>7 DEF Victims
  <2> QED
    BY <2>1, <1>2, <1>7
<1> QED
  BY <1>6, <1>7

LEMMA KeysFinite == IsFiniteSet(Keys)
<1>1. IsFiniteSet(Cookies) /\ IsFiniteSet(TxnIds)
  BY DnsAssumption
<1> QED
  BY <1>1, FS_Product DEF Keys

(* A map cut back by the pass, over any finite set of keys.                *)
LEMMA CutBack ==
    ASSUME NEW D, IsFiniteSet(D), NEW T, NEW map \in [D -> T \cup {None}],
           NEW keep, IsFiniteSet(keep), Cardinality(keep) <= DNS_MAP_CAP,
           NEW stamp, NEW rank,
           NEW V \in Victims(Present(map), DNS_MAP_CAP, stamp, rank, keep)
    PROVE  /\ Without(map, V) \in [D -> T \cup {None}]
           /\ Cardinality(Present(Without(map, V))) <= DNS_MAP_CAP
<1>1. IsFiniteSet(Present(map))
  BY FS_Subset DEF Present
<1>2. Cardinality(Present(map) \ V) <= DNS_MAP_CAP
  BY <1>1, DnsAssumption, VictimsRestoreCapOfBatch
<1>3. Present(Without(map, V)) = Present(map) \ V
  BY DEF Present, Without
<1> QED
  BY <1>2, <1>3 DEF Without

LEMMA OneIsWithinCap ==
    ASSUME NEW k PROVE IsFiniteSet({k}) /\ Cardinality({k}) <= DNS_MAP_CAP
<1>1. IsFiniteSet({k}) /\ Cardinality({k}) = 1
  BY FS_Singleton
<1>2. DNS_MAP_CAP \in Nat \ {0}
  BY DnsAssumption
<1> QED
  BY <1>1, <1>2

-----------------------------------------------------------------------------
(* The probes.                                                             *)

LEMMA EmitTyped ==
    ASSUME RingTyped, missing \in BOOLEAN, NEW e \in Event, Emit(e)
    PROVE  RingTyped' /\ missing' \in BOOLEAN
<1>1. CASE Len(ring) < RingCap
  <2>1. ring' = Append(ring, e) /\ missing' = missing
    BY <1>1 DEF Emit
  <2>2. ring' \in Seq(Event) /\ Len(ring') = Len(ring) + 1
    BY <2>1 DEF RingTyped
  <2> QED
    BY <1>1, <2>1, <2>2, DnsAssumption DEF RingTyped
<1>2. CASE ~(Len(ring) < RingCap)
  BY <1>2 DEF Emit, RingTyped
<1> QED
  BY <1>1, <1>2

LEMMA CallTyped ==
    ASSUME CallsTyped, NEW p \in Callers, calls[p] # None
    PROVE  /\ calls[p] \in Call
           /\ calls[p].host \in Hosts /\ calls[p].start \in Ts
           /\ calls[p].key \in Keys \cup {None} /\ calls[p].answered \in BOOLEAN
  BY DEF CallsTyped, Call

LEMMA StampTyped ==
    ASSUME CallsTyped, Stamp
    PROVE  clock' \in Ts /\ clock' = clock + 1 /\ clock \in Nat
  BY DnsAssumption DEF CallsTyped, Stamp, Ts

LEMMA StartCallKeeps ==
    ASSUME Inv, NEW p \in Callers, NEW h \in Hosts, StartCall(p, h)
    PROVE  Inv'
<1> DEFINE c == [host |-> h, start |-> clock, key |-> None, answered |-> FALSE]
<1>1. calls' = [calls EXCEPT ![p] = c] /\ UNCHANGED <<ring, dns, conn, ghosts>> /\ Stamp
  BY DEF StartCall
<1>2. c \in Call
  BY DEF Inv, CallsTyped, Call
<1>3. CallsTyped' /\ BegunBefore'
  BY <1>1, <1>2, StampTyped DEF Inv, CallsTyped, BegunBefore, Call, Ts
<1> QED
  BY <1>1, <1>3 DEF Inv, RingTyped, PendingTyped, ResolutionsTyped, GaiTyped, ConnTyped,
     GhostsTyped, Capped, LabelsTrue, BlocksTrue, dns, ghosts

LEMMA SendQueryKeeps ==
    ASSUME Inv, NEW p \in Callers, NEW key \in Keys, SendQuery(p, key)
    PROVE  Inv'
<1> DEFINE e == [kind |-> "query", host |-> calls[p].host, key |-> key, ts |-> clock]
<1>1. /\ Stamp /\ calls[p] # None /\ calls' = [calls EXCEPT ![p].key = key]
      /\ last_wire' = [last_wire EXCEPT ![calls[p].host] = clock]
      /\ Emit(e) /\ UNCHANGED <<dns, conn, displaced>>
  BY DEF SendQuery
<1>2. e \in Event
  BY <1>1, CallTyped DEF Inv, CallsTyped, Event
<1>3. RingTyped' /\ missing' \in BOOLEAN
  BY <1>1, <1>2, EmitTyped DEF Inv, GhostsTyped
<1>4. CallsTyped' /\ BegunBefore'
  <2>1. [calls[p] EXCEPT !.key = key] \in Call
    BY <1>1, CallTyped DEF Inv, Call
  <2>2. calls' = [calls EXCEPT ![p] = [calls[p] EXCEPT !.key = key]]
    BY <1>1
  <2>3. [calls[p] EXCEPT !.key = key].start = calls[p].start
    BY <1>1, CallTyped DEF Inv, Call
  <2>4. calls' \in [Callers -> Call \cup {None}]
    BY <2>1, <2>2 DEF Inv, CallsTyped
  <2>5. \A q \in Callers : calls'[q] # None => calls[q] # None /\ calls'[q].start = calls[q].start
    BY <1>1, <2>2, <2>3 DEF Inv, CallsTyped
  <2> QED
    BY <1>1, <2>4, <2>5, CallTyped, StampTyped DEF Inv, CallsTyped, BegunBefore, Ts
<1>5. GhostsTyped'
  BY <1>1, <1>3, CallTyped DEF Inv, CallsTyped, GhostsTyped
<1> QED
  BY <1>1, <1>3, <1>4, <1>5 DEF Inv, PendingTyped, ResolutionsTyped, GaiTyped, ConnTyped,
     Capped, LabelsTrue, BlocksTrue, dns

LEMMA AnswerKeeps ==
    ASSUME Inv, NEW p \in Callers, Answer(p)
    PROVE  Inv'
<1> DEFINE e == [kind |-> "response", host |-> calls[p].host, key |-> calls[p].key, ts |-> clock]
<1>1. /\ Stamp /\ calls[p] # None /\ calls[p].key # None
      /\ calls' = [calls EXCEPT ![p].answered = TRUE]
      /\ last_wire' = [last_wire EXCEPT ![calls[p].host] = clock]
      /\ Emit(e) /\ UNCHANGED <<dns, conn, displaced>>
  BY DEF Answer
<1>2. e \in Event
  BY <1>1, CallTyped DEF Inv, CallsTyped, Event
<1>3. RingTyped' /\ missing' \in BOOLEAN
  BY <1>1, <1>2, EmitTyped DEF Inv, GhostsTyped
<1>4. CallsTyped' /\ BegunBefore'
  <2>1. [calls[p] EXCEPT !.answered = TRUE] \in Call
    BY <1>1, CallTyped DEF Inv, Call
  <2>2. calls' = [calls EXCEPT ![p] = [calls[p] EXCEPT !.answered = TRUE]]
    BY <1>1
  <2>3. [calls[p] EXCEPT !.answered = TRUE].start = calls[p].start
    BY <1>1, CallTyped DEF Inv, Call
  <2>4. calls' \in [Callers -> Call \cup {None}]
    BY <2>1, <2>2 DEF Inv, CallsTyped
  <2>5. \A q \in Callers : calls'[q] # None => calls[q] # None /\ calls'[q].start = calls[q].start
    BY <1>1, <2>2, <2>3 DEF Inv, CallsTyped
  <2> QED
    BY <1>1, <2>4, <2>5, CallTyped, StampTyped DEF Inv, CallsTyped, BegunBefore, Ts
<1>5. GhostsTyped'
  BY <1>1, <1>3, CallTyped DEF Inv, CallsTyped, GhostsTyped
<1> QED
  BY <1>1, <1>3, <1>4, <1>5 DEF Inv, PendingTyped, ResolutionsTyped, GaiTyped, ConnTyped,
     Capped, LabelsTrue, BlocksTrue, dns

LEMMA ReturnKeeps ==
    ASSUME Inv, NEW p \in Callers, NEW ok \in BOOLEAN, Return(p, ok)
    PROVE  Inv'
<1> DEFINE c == calls[p]
           e == [kind |-> "getaddrinfo", host |-> c.host, ok |-> ok,
                 latency |-> clock - c.start, ts |-> clock, own |-> c.answered,
                 asked |-> last_wire[c.host] # None /\ last_wire[c.host] >= c.start]
<1>1. /\ Stamp /\ calls[p] # None /\ calls' = [calls EXCEPT ![p] = None]
      /\ Emit(e) /\ UNCHANGED <<dns, conn, last_wire, displaced>>
  BY DEF Return
<1>2. e \in Event
  <2>1. clock - c.start \in Ts
    BY <1>1, CallTyped, DnsAssumption DEF Inv, CallsTyped, BegunBefore, Ts
  <2> QED
    BY <1>1, <2>1, CallTyped DEF Inv, CallsTyped, Event
<1>3. RingTyped' /\ missing' \in BOOLEAN
  BY <1>1, <1>2, EmitTyped DEF Inv, GhostsTyped
<1>4. CallsTyped' /\ BegunBefore'
  BY <1>1, CallTyped, StampTyped DEF Inv, CallsTyped, BegunBefore, Ts
<1>5. GhostsTyped'
  BY <1>1, <1>3 DEF Inv, GhostsTyped
<1> QED
  BY <1>1, <1>3, <1>4, <1>5 DEF Inv, PendingTyped, ResolutionsTyped, GaiTyped, ConnTyped,
     Capped, LabelsTrue, BlocksTrue, dns

-----------------------------------------------------------------------------
(* The handlers.                                                           *)

LEMMA HeadTyped ==
    ASSUME RingTyped, ring # <<>>
    PROVE  /\ Head(ring) \in Event /\ Tail(ring) \in Seq(Event)
           /\ Len(Tail(ring)) <= RingCap
  BY DnsAssumption DEF RingTyped

LEMMA QueryTyped ==
    ASSUME NEW e \in Event, e.kind \in {"query", "response"}
    PROVE  e.host \in Hosts /\ e.key \in Keys /\ e.ts \in Ts
  BY DEF Event

LEMMA ReturnTyped ==
    ASSUME NEW e \in Event, e.kind = "getaddrinfo"
    PROVE  e.host \in Hosts /\ e.ok \in BOOLEAN /\ e.latency \in Ts /\ e.ts \in Ts
  BY DEF Event

LEMMA FoldQueryKeeps ==
    ASSUME Inv, FoldQuery
    PROVE  Inv'
<1> DEFINE e == Head(ring)
           map == [pending_dns EXCEPT ![e.key] = [qname |-> e.host, query_ts |-> e.ts]]
           stamp == [k \in Present(map) |-> map[k].query_ts]
<1>1. /\ ring # <<>> /\ e.kind = "query" /\ ring' = Tail(ring)
      /\ OnDnsQuery(e.key, e.host, e.ts) /\ UNCHANGED <<clock, calls, conn, last_wire>>
  BY DEF FoldQuery
<1>2. e.host \in Hosts /\ e.key \in Keys /\ e.ts \in Ts /\ RingTyped'
  BY <1>1, HeadTyped, QueryTyped DEF Inv, RingTyped
<1>3. PICK V \in Victims(Present(map), DNS_MAP_CAP, stamp, KeyRank, {e.key}) :
        pending_dns' = Without(map, V) /\ missing' = (missing \/ V # {})
  BY <1>1 DEF OnDnsQuery
<1>4. /\ displaced' = (displaced \/ (pending_dns[e.key] # None /\ pending_dns[e.key].qname # e.host))
      /\ UNCHANGED <<resolutions, gai>>
  BY <1>1 DEF OnDnsQuery
<1>5. map \in [Keys -> PendingQuery \cup {None}]
  BY <1>2 DEF Inv, PendingTyped, PendingQuery
<1> HIDE DEF map, stamp
<1>6. PendingTyped' /\ Cardinality(Present(pending_dns')) <= DNS_MAP_CAP
  BY <1>3, <1>5, CutBack, KeysFinite, OneIsWithinCap DEF PendingTyped
<1>7. GhostsTyped'
  BY <1>1, <1>3, <1>4 DEF Inv, GhostsTyped
<1> QED
  BY <1>1, <1>2, <1>4, <1>6, <1>7 DEF Inv, CallsTyped, ResolutionsTyped, GaiTyped, ConnTyped,
     BegunBefore, Capped, LabelsTrue, BlocksTrue

LEMMA FoldResponseKeeps ==
    ASSUME Inv, FoldResponse
    PROVE  Inv'
<1> DEFINE e == Head(ring)
           q == pending_dns[e.key]
           fresh == Resolves[e.host]
           map == [ip \in Ips |->
                     IF ip \in fresh
                     THEN [hostname |-> q.qname, query_ts |-> q.query_ts, resolved_ts |-> e.ts]
                     ELSE resolutions[ip]]
           stamp == [ip \in Present(map) |-> map[ip].resolved_ts]
<1>1. /\ ring # <<>> /\ e.kind = "response" /\ ring' = Tail(ring)
      /\ OnDnsResponse(e.key, e.host, e.ts) /\ UNCHANGED <<clock, calls, conn, last_wire>>
  BY DEF FoldResponse
<1>2. e.host \in Hosts /\ e.key \in Keys /\ e.ts \in Ts /\ RingTyped'
  BY <1>1, HeadTyped, QueryTyped DEF Inv, RingTyped
<1>3. CASE ~Pairs(e.key, e.host)
  BY <1>1, <1>2, <1>3 DEF OnDnsResponse, Inv, CallsTyped, PendingTyped, ResolutionsTyped, GaiTyped,
     ConnTyped, GhostsTyped, BegunBefore, Capped, LabelsTrue, BlocksTrue, dns
<1>4. CASE Pairs(e.key, e.host)
  <2>1. /\ pending_dns' = [pending_dns EXCEPT ![e.key] = None] /\ UNCHANGED gai
        /\ displaced' = (displaced \/ \E ip \in fresh :
              resolutions[ip] # None /\ resolutions[ip].hostname # q.qname)
    BY <1>1, <1>4 DEF OnDnsResponse
  <2>2. PICK V \in Victims(Present(map), DNS_MAP_CAP, stamp, IpRank, fresh) :
          resolutions' = Without(map, V) /\ missing' = (missing \/ V # {})
    BY <1>1, <1>4 DEF OnDnsResponse
  <2>3. q \in PendingQuery /\ q.qname = e.host /\ q.qname \in Hosts /\ q.query_ts \in Ts
    BY <1>2, <1>4 DEF Pairs, Inv, PendingTyped, PendingQuery
  <2>4. map \in [Ips -> Resolution \cup {None}]
    BY <1>2, <2>3 DEF Inv, ResolutionsTyped, Resolution
  <2>5. fresh \subseteq Ips /\ IsFiniteSet(fresh) /\ IsFiniteSet(Ips) /\ Cardinality(fresh) <= DNS_MAP_CAP
    BY <1>2, DnsAssumption, FS_Subset
  <2>6. \A ip \in Ips : map[ip] # None => ip \in Resolves[map[ip].hostname]
    BY <2>3 DEF Inv, LabelsTrue
  <2> HIDE DEF map, stamp
  <2>7. ResolutionsTyped' /\ Cardinality(Present(resolutions')) <= DNS_MAP_CAP
    BY <2>2, <2>4, <2>5, CutBack DEF ResolutionsTyped
  <2>8. LabelsTrue'
    BY <2>2, <2>4, <2>6 DEF LabelsTrue, Without
  <2>9. PendingTyped' /\ Cardinality(Present(pending_dns')) <= DNS_MAP_CAP
    <3>1. PendingTyped' /\ Present(pending_dns') \subseteq Present(pending_dns)
      BY <2>1, <1>2 DEF Inv, PendingTyped, Present
    <3>2. IsFiniteSet(Present(pending_dns)) /\ Present(pending_dns) \subseteq Keys
      BY KeysFinite, FS_Subset DEF Inv, PendingTyped, Present
    <3>3. /\ Cardinality(Present(pending_dns')) <= Cardinality(Present(pending_dns))
          /\ Cardinality(Present(pending_dns')) \in Nat /\ Cardinality(Present(pending_dns)) \in Nat
      BY <3>1, <3>2, FS_Subset, FS_CardinalityType
    <3> QED
      BY <3>1, <3>3, DnsAssumption DEF Inv, Capped
  <2>10. GhostsTyped'
    BY <1>1, <2>1, <2>2 DEF Inv, GhostsTyped
  <2> QED
    BY <1>1, <1>2, <2>1, <2>7, <2>8, <2>9, <2>10 DEF Inv, CallsTyped, GaiTyped, ConnTyped,
       BegunBefore, Capped, BlocksTrue
<1> QED
  BY <1>3, <1>4

LEMMA FoldGetaddrinfoKeeps ==
    ASSUME Inv, FoldGetaddrinfo
    PROVE  Inv'
<1> DEFINE e == Head(ring)
<1>1. /\ ring # <<>> /\ e.kind = "getaddrinfo" /\ ring' = Tail(ring)
      /\ OnGetaddrinfo(e.host, e.ok, e.latency, e.ts) /\ UNCHANGED <<clock, calls, conn, last_wire>>
  BY DEF FoldGetaddrinfo
<1>2. e.host \in Hosts /\ e.latency \in Ts /\ e.ts \in Ts /\ RingTyped'
  BY <1>1, HeadTyped, ReturnTyped DEF Inv, RingTyped
<1>3. UNCHANGED <<pending_dns, resolutions, missing, displaced>>
  BY <1>1 DEF OnGetaddrinfo, dns
<1>4. GaiTyped' /\ Cardinality(Present(gai')) <= DNS_MAP_CAP
  <2>1. CASE ~e.ok
    BY <1>1, <2>1 DEF OnGetaddrinfo, dns, Inv, GaiTyped, Capped
  <2>2. CASE e.ok
    <3> DEFINE sawWire == \/ ResolvedInWindow(e.host, SatSub(e.ts, e.latency), e.ts)
                          \/ PendingInWindow(e.host, SatSub(e.ts, e.latency), e.ts)
               map == [gai EXCEPT ![e.host] =
                         [latency |-> e.latency, cache_hit |-> ~sawWire, ts |-> e.ts]]
               stamp == [h \in Present(map) |-> map[h].ts]
    <3>1. PICK V \in Victims(Present(map), DNS_MAP_CAP, stamp, HostRank, {e.host}) :
            gai' = Without(map, V)
      BY <1>1, <2>2 DEF OnGetaddrinfo
    <3> HIDE DEF sawWire
    <3>2. (~sawWire) \in BOOLEAN
      OBVIOUS
    <3>3. map \in [Hosts -> Gai \cup {None}]
      BY <1>2, <3>2 DEF Inv, GaiTyped, Gai
    <3> HIDE DEF map, stamp
    <3>4. IsFiniteSet(Hosts)
      BY DnsAssumption
    <3> QED
      BY <3>1, <3>3, <3>4, CutBack, OneIsWithinCap DEF GaiTyped
  <2> QED
    BY <2>1, <2>2
<1> QED
  BY <1>1, <1>2, <1>3, <1>4 DEF Inv, CallsTyped, PendingTyped, ResolutionsTyped, ConnTyped,
     GhostsTyped, BegunBefore, Capped, LabelsTrue, BlocksTrue

-----------------------------------------------------------------------------
(* The records.                                                            *)

LEMMA BlockTrue ==
    ASSUME Inv, NEW ip \in Ips, NEW ts \in Ts, DnsForIp(ip, ts) # None
    PROVE  /\ DnsForIp(ip, ts) \in DnsBlock
           /\ ip \in Resolves[DnsForIp(ip, ts).hostname]
<1> DEFINE res == resolutions[ip]
           g == gai[res.hostname]
<1>1. /\ res # None /\ res \in Resolution
      /\ res.hostname \in Hosts /\ res.query_ts \in Ts /\ res.resolved_ts \in Ts
  BY DEF DnsForIp, Inv, ResolutionsTyped, Resolution
<1>2. ip \in Resolves[res.hostname]
  BY <1>1 DEF Inv, LabelsTrue
<1>3. SatSub(res.resolved_ts, res.query_ts) \in Ts
  BY <1>1, DnsAssumption DEF SatSub, Ts
<1>4. CASE g # None /\ (g # None => g.ts <= ts)
  <2>1. g \in Gai /\ g.latency \in Ts /\ g.cache_hit \in BOOLEAN
    BY <1>1, <1>4 DEF Inv, GaiTyped, Gai
  <2>2. DnsForIp(ip, ts) = [hostname |-> res.hostname, latency |-> g.latency,
                            via |-> "getaddrinfo", cache_hit |-> g.cache_hit]
    BY <1>1, <1>4 DEF DnsForIp
  <2> QED
    BY <1>1, <1>2, <2>1, <2>2 DEF DnsBlock
<1>5. CASE ~(g # None /\ (g # None => g.ts <= ts))
  <2>1. DnsForIp(ip, ts) = [hostname |-> res.hostname,
                            latency |-> SatSub(res.resolved_ts, res.query_ts),
                            via |-> "wire", cache_hit |-> FALSE]
    BY <1>1, <1>5 DEF DnsForIp
  <2> QED
    BY <1>1, <1>2, <1>3, <2>1 DEF DnsBlock
<1> QED
  BY <1>4, <1>5

LEMMA ConnectKeeps ==
    ASSUME Inv, NEW ip \in Ips, Connect(ip)
    PROVE  Inv'
<1>1. conn' = [ip |-> ip, ts |-> clock, reported |-> {}, op_dns |-> None, dns |-> None]
  BY DEF Connect
<1>2. ConnTyped' /\ BlocksTrue'
  BY <1>1 DEF Inv, CallsTyped, ConnTyped, Conn, BlocksTrue
<1> QED
  BY <1>2 DEF Connect, Inv, CallsTyped, RingTyped, PendingTyped, ResolutionsTyped, GaiTyped,
     GhostsTyped, BegunBefore, Capped, LabelsTrue, world, dns, ghosts

LEMMA ReportKeeps ==
    ASSUME Inv, ReportOp \/ ReportConnection
    PROVE  Inv'
<1> DEFINE block == DnsForIp(conn.ip, conn.ts)
<1>1. /\ conn # None /\ conn \in Conn /\ conn.ip \in Ips /\ conn.ts \in Ts
      /\ conn.reported \in SUBSET {"op", "connection"}
      /\ conn.op_dns \in DnsBlock \cup {None} /\ conn.dns \in DnsBlock \cup {None}
  BY DEF ReportOp, ReportConnection, Inv, ConnTyped, Conn
<1>2. block \in DnsBlock \cup {None} /\ (block # None => conn.ip \in Resolves[block.hostname])
  BY <1>1, BlockTrue
<1>3. \A b \in {conn.op_dns, conn.dns} \ {None} : conn.ip \in Resolves[b.hostname]
  BY <1>1 DEF Inv, BlocksTrue
<1> HIDE DEF block
<1>4. CASE ReportOp
  <2>1. conn' = [conn EXCEPT !.op_dns = block, !.reported = {"op"}] /\ UNCHANGED <<world, dns, ghosts>>
    BY <1>4 DEF ReportOp, block
  <2>2. /\ conn' \in Conn /\ conn'.ip = conn.ip /\ conn'.op_dns = block /\ conn'.dns = conn.dns
    BY <1>1, <1>2, <2>1 DEF Conn
  <2> QED
    BY <1>2, <1>3, <2>1, <2>2 DEF Inv, CallsTyped, RingTyped, PendingTyped, ResolutionsTyped, GaiTyped,
       GhostsTyped, BegunBefore, Capped, LabelsTrue, ConnTyped, BlocksTrue, world, dns, ghosts
<1>5. CASE ReportConnection
  <2>1. /\ conn' = [conn EXCEPT !.dns = block, !.reported = @ \cup {"connection"}]
        /\ UNCHANGED <<world, dns, ghosts>>
    BY <1>5 DEF ReportConnection, block
  <2>2. /\ conn' \in Conn /\ conn'.ip = conn.ip /\ conn'.dns = block /\ conn'.op_dns = conn.op_dns
    BY <1>1, <1>2, <2>1 DEF Conn
  <2> QED
    BY <1>2, <1>3, <2>1, <2>2 DEF Inv, CallsTyped, RingTyped, PendingTyped, ResolutionsTyped, GaiTyped,
       GhostsTyped, BegunBefore, Capped, LabelsTrue, ConnTyped, BlocksTrue, world, dns, ghosts
<1> QED
  BY <1>4, <1>5

-----------------------------------------------------------------------------
LEMMA InitInv == Init => Inv
<1> SUFFICES ASSUME Init PROVE Inv
  OBVIOUS
<1>1. Present(pending_dns) = {} /\ Present(resolutions) = {} /\ Present(gai) = {}
  BY DEF Init, Present
<1>2. Capped
  BY <1>1, FS_EmptySet, DnsAssumption DEF Capped
<1>3. 0 \in Ts /\ <<>> \in Seq(Event) /\ Len(<<>>) <= RingCap
  BY DnsAssumption DEF Ts
<1> QED
  BY <1>2, <1>3 DEF Init, Inv, CallsTyped, RingTyped, PendingTyped, ResolutionsTyped, GaiTyped,
     ConnTyped, GhostsTyped, BegunBefore, LabelsTrue, BlocksTrue

LEMMA NextInv == Inv /\ [Next]_vars => Inv'
<1> SUFFICES ASSUME Inv, [Next]_vars PROVE Inv'
  OBVIOUS
<1>1. CASE \E p \in Callers :
             \/ \E h \in Hosts : StartCall(p, h)
             \/ \E k \in Keys : SendQuery(p, k)
             \/ Answer(p)
             \/ \E ok \in BOOLEAN : Return(p, ok)
  BY <1>1, StartCallKeeps, SendQueryKeeps, AnswerKeeps, ReturnKeeps
<1>2. CASE FoldQuery \/ FoldResponse \/ FoldGetaddrinfo
  BY <1>2, FoldQueryKeeps, FoldResponseKeeps, FoldGetaddrinfoKeeps
<1>3. CASE \E ip \in Ips : Connect(ip)
  BY <1>3, ConnectKeeps
<1>4. CASE ReportOp \/ ReportConnection
  BY <1>4, ReportKeeps
<1>5. CASE UNCHANGED vars
  BY <1>5 DEF vars, world, dns, ghosts, Inv, CallsTyped, RingTyped, PendingTyped, ResolutionsTyped,
     GaiTyped, ConnTyped, GhostsTyped, BegunBefore, Capped, LabelsTrue, BlocksTrue
<1> QED
  BY <1>1, <1>2, <1>3, <1>4, <1>5 DEF Next

THEOREM InvHolds == Spec => []Inv
  BY InitInv, NextInv, PTL DEF Spec

(* No map of the DNS join outgrows its cap, though a response brings a     *)
(* batch of addresses at once, and every latency stays a time.             *)
THEOREM DnsTyped == Spec => []DnsTypeOK
  BY InvHolds, InvMeans, PTL

(* Whatever queries the ring lost and however sockets and transaction ids  *)
(* were recycled, a response never labels an address with the name of      *)
(* another query.                                                          *)
THEOREM Labelled == Spec => []LabelsAreTrue
  BY InvHolds, InvMeans, PTL

-----------------------------------------------------------------------------
(* The verdict of a call. What the fold sees of the wire is behind what    *)
(* has happened on it, but in its order: when the return of a call is      *)
(* folded, the maps hold exactly what its time knew, less what was lost.   *)

Wire(e) == e.kind \in {"query", "response"}

(* t is before every event still queued and before the next.               *)
Past(t) == t < clock /\ \A i \in DOMAIN ring : t < ring[i].ts

Ordered ==
    /\ \A i \in DOMAIN ring : ring[i].ts < clock
    /\ \A i, j \in DOMAIN ring : i < j => ring[i].ts < ring[j].ts
MapsBehind ==
    /\ \A k \in Keys : pending_dns[k] # None => Past(pending_dns[k].query_ts)
    /\ \A ip \in Ips : resolutions[ip] # None =>
          Past(resolutions[ip].query_ts) /\ Past(resolutions[ip].resolved_ts)

(* No two calls in flight share a socket.                                  *)
KeysOwn ==
    \A p, q \in Callers :
        (/\ p # q /\ calls[p] # None /\ calls[q] # None
         /\ calls[p].key # None /\ calls[q].key # None) => calls[p].key # calls[q].key

(* The last word on key k before place i of the ring is the query of h:    *)
(* a response there will pair.                                             *)
Awaited(i, k, h) ==
    /\ \A j \in DOMAIN ring :
          (/\ j < i /\ Wire(ring[j]) /\ ring[j].key = k
           /\ \A m \in DOMAIN ring : (j < m /\ m < i /\ Wire(ring[m])) => ring[m].key # k)
          => ring[j].kind = "query" /\ ring[j].host = h
    /\ (\A j \in DOMAIN ring : (j < i /\ Wire(ring[j])) => ring[j].key # k)
          => pending_dns[k] # None /\ pending_dns[k].qname = h
Pairing ==
    ~missing =>
        /\ \A p \in Callers, k \in Keys, h \in Hosts, n \in Nat :
              (/\ calls[p] # None /\ calls[p].key = k /\ ~calls[p].answered
               /\ calls[p].host = h /\ n > Len(ring)) => Awaited(n, k, h)
        /\ \A i \in DOMAIN ring, k \in Keys, h \in Hosts :
              (ring[i].kind = "response" /\ ring[i].key = k /\ ring[i].host = h)
              => Awaited(i, k, h)

(* The maps, or the ring before place i, tell of the host on the wire at   *)
(* t or later; or they tell of nothing then.                               *)
Shown(h, t, i) ==
    \/ \E k \in Keys : pending_dns[k] # None /\ pending_dns[k].qname = h /\ pending_dns[k].query_ts >= t
    \/ \E ip \in Ips : resolutions[ip] # None /\ resolutions[ip].hostname = h /\ resolutions[ip].resolved_ts >= t
    \/ \E j \in DOMAIN ring : j < i /\ Wire(ring[j]) /\ ring[j].host = h /\ ring[j].ts >= t
Returned(i, h, t, asked) ==
    /\ ring[i].kind = "getaddrinfo" /\ ring[i].ok /\ ring[i].host = h
    /\ SatSub(ring[i].ts, ring[i].latency) = t /\ ring[i].asked = asked

SilentWire ==
    /\ \A h \in Hosts, t \in Nat, n \in Nat :
          (last_wire[h] # None => last_wire[h] < t) => ~Shown(h, t, n)
    /\ \A i \in DOMAIN ring, h \in Hosts, t \in Nat :
          Returned(i, h, t, FALSE) => ~Shown(h, t, i)
ShownWire ==
    (~missing /\ ~displaced) =>
        /\ \A h \in Hosts, n \in Nat :
              (last_wire[h] # None /\ Resolves[h] # {} /\ n > Len(ring))
              => \A t \in Ts : t <= last_wire[h] => Shown(h, t, n)
        /\ \A i \in DOMAIN ring, h \in Hosts, t \in Nat :
              Returned(i, h, t, TRUE) => Resolves[h] # {} /\ Shown(h, t, i)

WireInv == Ordered /\ MapsBehind /\ KeysOwn /\ Pairing /\ SilentWire /\ ShownWire
-----------------------------------------------------------------------------
(* The ring grows at its end.                                              *)

LEMMA EventAt ==
    ASSUME RingTyped, NEW i \in DOMAIN ring
    PROVE  /\ ring[i] \in Event /\ i \in Nat /\ i >= 1 /\ i <= Len(ring) /\ Len(ring) \in Nat
           /\ ring[i].ts \in Nat /\ ring[i].host \in Hosts
           /\ ring[i].kind \in {"query", "response", "getaddrinfo"}
           /\ Wire(ring[i]) => ring[i].key \in Keys
           /\ ring[i].kind = "getaddrinfo" =>
                /\ ring[i].latency \in Nat /\ ring[i].ok \in BOOLEAN /\ ring[i].asked \in BOOLEAN
                /\ SatSub(ring[i].ts, ring[i].latency) \in Nat
<1>1. ring[i] \in Event /\ i \in 1 .. Len(ring) /\ Len(ring) \in Nat
  BY DEF RingTyped
<1>2. \A t \in Ts : t \in Nat
  BY DEF Ts
<1> QED
  BY <1>1, <1>2 DEF Event, Wire, SatSub

LEMMA RingGrows ==
    ASSUME RingTyped, missing \in BOOLEAN, NEW e, Emit(e)
    PROVE  /\ Len(ring) \in Nat /\ DOMAIN ring = 1 .. Len(ring)
           /\ DOMAIN ring' = 1 .. Len(ring')
           /\ \/ /\ ring' = ring /\ missing'
              \/ /\ missing' = missing /\ Len(ring') = Len(ring) + 1 /\ ring'[Len(ring) + 1] = e
           /\ \A i \in DOMAIN ring : i \in DOMAIN ring' /\ ring'[i] = ring[i]
           /\ \A i \in DOMAIN ring' : i \in DOMAIN ring \/ (i = Len(ring) + 1 /\ ring'[i] = e)
<1>1. CASE Len(ring) < RingCap
  <2>1. ring' = Append(ring, e) /\ missing' = missing
    BY <1>1 DEF Emit
  <2> QED
    BY <2>1 DEF RingTyped
<1>2. CASE ~(Len(ring) < RingCap)
  BY <1>2 DEF Emit, RingTyped
<1> QED
  BY <1>1, <1>2

LEMMA OrderGrows ==
    ASSUME Inv, Ordered, MapsBehind, Stamp, UNCHANGED <<pending_dns, resolutions>>,
           NEW e, Emit(e), e.ts = clock
    PROVE  Ordered' /\ MapsBehind'
<1>1. clock \in Nat /\ clock' = clock + 1 /\ RingTyped /\ missing \in BOOLEAN
  BY StampTyped DEF Inv, GhostsTyped
<1>2. \A i \in DOMAIN ring : ring[i].ts \in Nat /\ i <= Len(ring) /\ i \in Nat
  BY <1>1, EventAt
<1>3. Ordered'
  <2>1. \A i \in DOMAIN ring' : \/ i \in DOMAIN ring /\ ring'[i] = ring[i]
                                \/ i = Len(ring) + 1 /\ ring'[i].ts = clock
    BY <1>1, RingGrows
  <2>4. Len(ring) \in Nat
    BY <1>1, RingGrows
  <2>2. \A i \in DOMAIN ring' : ring'[i].ts < clock'
    BY <1>1, <1>2, <2>1, <2>4 DEF Ordered
  <2>3. ASSUME NEW i \in DOMAIN ring', NEW j \in DOMAIN ring', i < j
        PROVE  ring'[i].ts < ring'[j].ts
    BY <1>2, <2>1, <2>3, <2>4 DEF Ordered
  <2> QED
    BY <2>2, <2>3 DEF Ordered
<1>4. ASSUME NEW t \in Nat, Past(t) PROVE Past(t)'
  BY <1>1, <1>4, RingGrows DEF Past
<1>5. \A k \in Keys : pending_dns[k] # None => pending_dns[k].query_ts \in Nat
  BY DEF Inv, PendingTyped, PendingQuery, Ts
<1>6. \A ip \in Ips : resolutions[ip] # None =>
         resolutions[ip].query_ts \in Nat /\ resolutions[ip].resolved_ts \in Nat
  BY DEF Inv, ResolutionsTyped, Resolution, Ts
<1>7. ASSUME NEW k \in Keys, pending_dns'[k] # None PROVE Past(pending_dns[k].query_ts)'
  BY <1>4, <1>5, <1>7 DEF MapsBehind, Past
<1>8. ASSUME NEW ip \in Ips, resolutions'[ip] # None
      PROVE Past(resolutions[ip].query_ts)' /\ Past(resolutions[ip].resolved_ts)'
  BY <1>4, <1>6, <1>8 DEF MapsBehind, Past
<1> QED
  BY <1>3, <1>7, <1>8 DEF MapsBehind

LEMMA ShownGrows ==
    ASSUME RingTyped, missing \in BOOLEAN, UNCHANGED <<pending_dns, resolutions>>,
           NEW e, Emit(e), NEW h, NEW t, NEW i \in Nat, NEW m \in Nat, i <= m, Shown(h, t, i)
    PROVE  Shown(h, t, m)'
  BY RingGrows, EventAt DEF Shown

LEMMA SilentGrows ==
    ASSUME RingTyped, missing \in BOOLEAN, UNCHANGED <<pending_dns, resolutions>>,
           NEW e, Emit(e), NEW h, NEW t, NEW i \in Nat, Shown(h, t, i)'
    PROVE  \/ Shown(h, t, i)
           \/ i > Len(ring) + 1 /\ Wire(e) /\ e.host = h /\ e.ts >= t
  BY RingGrows DEF Shown

LEMMA AwaitedGrows ==
    ASSUME RingTyped, missing \in BOOLEAN, UNCHANGED pending_dns,
           NEW e, Emit(e), NEW k, NEW h, NEW i \in Nat, i <= Len(ring) + 1, Awaited(i, k, h)
    PROVE  Awaited(i, k, h)'
<1>1. \A j \in DOMAIN ring' : j < i => j \in DOMAIN ring /\ ring'[j] = ring[j]
  <2>1. /\ Len(ring) \in Nat
        /\ \A j \in DOMAIN ring' : (j \in DOMAIN ring /\ ring'[j] = ring[j]) \/ j = Len(ring) + 1
    BY RingGrows
  <2> QED
    BY <2>1
<1>2. \A j \in DOMAIN ring : j \in DOMAIN ring' /\ ring'[j] = ring[j]
  BY RingGrows
<1> QED
  BY <1>1, <1>2 DEF Awaited

LEMMA AwaitedPasses ==
    ASSUME RingTyped, missing \in BOOLEAN, UNCHANGED pending_dns,
           NEW e, Emit(e), NEW k, NEW h, NEW n \in Nat, n > Len(ring'),
           Awaited(Len(ring) + 1, k, h), ~(Wire(e) /\ e.key = k)
    PROVE  Awaited(n, k, h)'
<1> DEFINE l == Len(ring)
<1>1. l \in Nat /\ DOMAIN ring = 1 .. l /\ DOMAIN ring' = 1 .. Len(ring') /\ Len(ring') >= l
  BY RingGrows
<1>2. \A j \in DOMAIN ring' : (Wire(ring'[j]) /\ ring'[j].key = k) => j \in DOMAIN ring /\ ring'[j] = ring[j]
  BY RingGrows
<1>3. \A j \in DOMAIN ring : j \in DOMAIN ring' /\ ring'[j] = ring[j] /\ j < l + 1 /\ j < n
  <2>1. \A j \in DOMAIN ring : j \in DOMAIN ring' /\ ring'[j] = ring[j]
    BY RingGrows
  <2> HIDE DEF l
  <2>2. \A j \in DOMAIN ring : j < l + 1 /\ j < n
    BY <1>1
  <2> QED
    BY <2>1, <2>2
<1> HIDE DEF l
<1>4. Awaited(l + 1, k, h)
  BY DEF l
<1>5. ASSUME NEW j \in DOMAIN ring', j < n, Wire(ring'[j]), ring'[j].key = k,
             \A m \in DOMAIN ring' : (j < m /\ m < n /\ Wire(ring'[m])) => ring'[m].key # k
      PROVE  ring'[j].kind = "query" /\ ring'[j].host = h
  BY <1>2, <1>3, <1>4, <1>5 DEF Awaited
<1>6. ASSUME \A j \in DOMAIN ring' : (j < n /\ Wire(ring'[j])) => ring'[j].key # k
      PROVE  pending_dns'[k] # None /\ pending_dns'[k].qname = h
  BY <1>3, <1>4, <1>6 DEF Awaited
<1> QED
  BY <1>5, <1>6 DEF Awaited

LEMMA AwaitedAsks ==
    ASSUME RingTyped, missing \in BOOLEAN, ~missing', NEW e, Emit(e), e.kind = "query",
           NEW n \in Nat, n > Len(ring')
    PROVE  Awaited(n, e.key, e.host)'
<1>1. /\ Len(ring) \in Nat /\ Len(ring') = Len(ring) + 1 /\ ring'[Len(ring')] = e
      /\ DOMAIN ring' = 1 .. Len(ring')
  BY RingGrows
<1>2. Wire(ring'[Len(ring')]) /\ Len(ring') \in DOMAIN ring' /\ Len(ring') < n
  BY <1>1 DEF Wire
<1>3. \A j \in DOMAIN ring' : j = Len(ring') \/ j < Len(ring')
  BY <1>1
<1> QED
  BY <1>1, <1>2, <1>3 DEF Awaited
(* Nothing is told of the present.                                         *)
LEMMA AllPast ==
    ASSUME Inv, Ordered, MapsBehind, NEW h, NEW t \in Nat, clock < t, NEW n
    PROVE  ~Shown(h, t, n)
<1>1. clock \in Nat /\ RingTyped
  BY DEF Inv, CallsTyped, Ts
<1>2. \A i \in DOMAIN ring : ring[i].ts \in Nat /\ ring[i].ts < t
  BY <1>1, EventAt DEF Ordered
<1>3. \A k \in Keys : pending_dns[k] # None =>
         pending_dns[k].query_ts \in Nat /\ pending_dns[k].query_ts < t
  BY <1>1 DEF Inv, PendingTyped, PendingQuery, Ts, MapsBehind, Past
<1>4. \A ip \in Ips : resolutions[ip] # None =>
         resolutions[ip].resolved_ts \in Nat /\ resolutions[ip].resolved_ts < t
  BY <1>1 DEF Inv, ResolutionsTyped, Resolution, Ts, MapsBehind, Past
<1> QED
  BY <1>2, <1>3, <1>4 DEF Shown
LEMMA NoneAway == None \notin Call /\ None \notin Keys
  BY DnsAssumption

LEMMA KeysAway == \A k \in Keys : k # None
  BY DnsAssumption

(* What is told of the wire when one of its events is emitted.             *)
LEMMA WireTold ==
    ASSUME Inv, WireInv, Stamp, UNCHANGED <<pending_dns, resolutions, displaced>>,
           NEW e, Emit(e), Wire(e), NEW h0 \in Hosts, e.host = h0, e.ts = clock,
           last_wire' = [last_wire EXCEPT ![h0] = clock]
    PROVE  SilentWire' /\ ShownWire'
<1>1. /\ RingTyped /\ missing \in BOOLEAN /\ clock \in Nat /\ clock' = clock + 1
      /\ last_wire \in [Hosts -> Ts \cup {None}] /\ clock \in Ts
      /\ e.kind # "getaddrinfo"
  BY StampTyped DEF Inv, CallsTyped, GhostsTyped, Wire
<1>2. last_wire'[h0] = clock /\ \A h \in Hosts \ {h0} : last_wire'[h] = last_wire[h]
  BY <1>1
<1>3. ASSUME NEW h \in Hosts, NEW t \in Nat, NEW n \in Nat, last_wire'[h] # None => last_wire'[h] < t
      PROVE  ~Shown(h, t, n)'
  <2>1. CASE h # h0
    BY <1>1, <1>2, <1>3, <2>1, SilentGrows DEF WireInv, SilentWire
  <2>2. CASE h = h0
    <3>1. clock < t
      BY <1>1, <1>2, <1>3, <2>2, DnsAssumption
    <3>2. ~Shown(h, t, n)
      BY <1>1, <3>1, AllPast DEF WireInv
    <3> QED
      BY <1>1, <3>1, <3>2, SilentGrows
  <2> QED
    BY <2>1, <2>2
<1>4. ASSUME NEW i \in DOMAIN ring', NEW h \in Hosts, NEW t \in Nat, NEW asked \in BOOLEAN,
             Returned(i, h, t, asked)'
      PROVE  i \in DOMAIN ring /\ i \in Nat /\ i <= Len(ring) + 1 /\ Returned(i, h, t, asked)
  <2>1. i \in DOMAIN ring /\ ring'[i] = ring[i]
    BY <1>1, <1>4, RingGrows DEF Returned
  <2> QED
    BY <1>1, <1>4, <2>1, EventAt DEF Returned
<1>5. ASSUME NEW i \in DOMAIN ring', NEW h \in Hosts, NEW t \in Nat, Returned(i, h, t, FALSE)'
      PROVE  ~Shown(h, t, i)'
  <2>1. i \in DOMAIN ring /\ i \in Nat /\ i <= Len(ring) + 1 /\ Returned(i, h, t, FALSE)
    BY <1>4, <1>5
  <2>2. ~Shown(h, t, i)
    BY <2>1 DEF WireInv, SilentWire
  <2>3. ~(i > Len(ring) + 1)
    BY <1>1, <2>1, RingGrows
  <2> QED
    BY <1>1, <2>1, <2>2, <2>3, SilentGrows
<1>6. ASSUME ~missing', ~displaced', NEW h \in Hosts, NEW n \in Nat,
             last_wire'[h] # None, Resolves[h] # {}, n > Len(ring'), NEW t \in Ts, t <= last_wire'[h]
      PROVE  Shown(h, t, n)'
  <2>1. /\ ~missing /\ ~displaced /\ Len(ring) + 1 \in Nat /\ Len(ring) + 1 > Len(ring)
        /\ Len(ring) + 1 <= n
        /\ Len(ring') \in DOMAIN ring' /\ ring'[Len(ring')] = e /\ Len(ring') < n
    BY <1>1, <1>6, RingGrows
  <2>2. CASE h # h0
    <3>1. Shown(h, t, Len(ring) + 1)
      BY <1>2, <1>6, <2>1, <2>2 DEF WireInv, ShownWire
    <3> QED
      BY <1>1, <2>1, <3>1, ShownGrows
  <2>3. CASE h = h0
    <3>1. e.ts >= t
      BY <1>1, <1>2, <1>6, <2>3 DEF Ts
    <3> QED
      BY <2>1, <2>3, <3>1 DEF Shown
  <2> QED
    BY <2>2, <2>3
<1>7. ASSUME ~missing', ~displaced', NEW i \in DOMAIN ring', NEW h \in Hosts, NEW t \in Nat,
             Returned(i, h, t, TRUE)'
      PROVE  Resolves[h] # {} /\ Shown(h, t, i)'
  <2>1. i \in DOMAIN ring /\ i \in Nat /\ i <= Len(ring) + 1 /\ Returned(i, h, t, TRUE)
    BY <1>4, <1>7
  <2>2. ~missing /\ ~displaced
    BY <1>1, <1>7, RingGrows
  <2>3. Resolves[h] # {} /\ Shown(h, t, i)
    BY <2>1, <2>2 DEF WireInv, ShownWire
  <2> QED
    BY <1>1, <2>1, <2>3, ShownGrows
<1> QED
  BY <1>3, <1>5, <1>6, <1>7 DEF SilentWire, ShownWire
(* What an event of the wire, or a return, adds.                           *)
LEMMA SendQueryWire ==
    ASSUME Inv, WireInv, NEW p \in Callers, NEW key \in Keys, SendQuery(p, key)
    PROVE  WireInv'
<1> DEFINE e == [kind |-> "query", host |-> calls[p].host, key |-> key, ts |-> clock]
<1>1. /\ Stamp /\ calls[p] # None /\ ~calls[p].answered /\ calls[p].key \in {None, key}
      /\ \A q \in Callers \ {p} :
            (calls[q] # None /\ calls[q].key # None) => calls[q].key[1] # key[1]
      /\ calls' = [calls EXCEPT ![p] = [calls[p] EXCEPT !.key = key]]
      /\ last_wire' = [last_wire EXCEPT ![calls[p].host] = clock]
      /\ Emit(e) /\ UNCHANGED <<pending_dns, resolutions, displaced>>
  BY DEF SendQuery, dns
<1>2. /\ RingTyped /\ missing \in BOOLEAN /\ calls[p] \in Call /\ calls[p].host \in Hosts
      /\ clock \in Nat /\ clock' = clock + 1 /\ calls \in [Callers -> Call \cup {None}]
  BY <1>1, CallTyped, StampTyped DEF Inv, CallsTyped, GhostsTyped
<1>3. PICK h0 \in Hosts : h0 = calls[p].host
  BY <1>2
<1>4. PICK c0 : c0 = clock
  OBVIOUS
<1>5. PICK ev : ev = e
  OBVIOUS
<1>6. /\ Emit(ev) /\ ev.kind = "query" /\ ev.host = h0 /\ ev.key = key /\ ev.ts = clock /\ Wire(ev)
  BY <1>1, <1>3, <1>5 DEF Wire
<1>7. /\ calls'[p] # None /\ calls'[p].key = key /\ calls'[p].host = h0
      /\ calls'[p].answered = calls[p].answered
      /\ \A q \in Callers \ {p} : calls'[q] = calls[q]
  BY <1>1, <1>2, <1>3, NoneAway DEF Call
<1>8. Ordered' /\ MapsBehind'
  BY <1>1, <1>6, OrderGrows DEF WireInv
<1>9. KeysOwn'
  BY <1>1, <1>7 DEF WireInv, KeysOwn
<1>10. Pairing'
  <2> SUFFICES ASSUME ~missing' PROVE Pairing'
    BY DEF Pairing
  <2>1. ~missing
    BY <1>2, <1>6, RingGrows
  <2>2. ASSUME NEW q \in Callers, NEW k \in Keys, NEW h \in Hosts, NEW n \in Nat,
               calls'[q] # None, calls'[q].key = k, ~calls'[q].answered, calls'[q].host = h, n > Len(ring')
        PROVE  Awaited(n, k, h)'
    <3>1. CASE q = p
      BY <1>2, <1>6, <1>7, <2>2, <3>1, AwaitedAsks
    <3>2. CASE q # p
      <4>1. k # key
        BY <1>1, <1>7, <2>2, <3>2, KeysAway
      <4>2. Len(ring) + 1 \in Nat /\ Len(ring) + 1 > Len(ring)
        BY <1>2, <1>6, RingGrows
      <4>3. Awaited(Len(ring) + 1, k, h)
        BY <1>7, <2>1, <2>2, <3>2, <4>2 DEF WireInv, Pairing
      <4> QED
        BY <1>1, <1>2, <1>6, <2>2, <4>1, <4>3, AwaitedPasses
    <3> QED
      BY <3>1, <3>2
  <2>3. ASSUME NEW i \in DOMAIN ring', NEW k \in Keys, NEW h \in Hosts,
               ring'[i].kind = "response", ring'[i].key = k, ring'[i].host = h
        PROVE  Awaited(i, k, h)'
    <3>1. i \in DOMAIN ring /\ ring'[i] = ring[i]
      BY <1>2, <1>6, <2>3, RingGrows
    <3>2. Awaited(i, k, h) /\ i \in Nat /\ i <= Len(ring) + 1
      BY <1>2, <2>1, <2>3, <3>1, EventAt DEF WireInv, Pairing
    <3> QED
      BY <1>1, <1>2, <1>6, <3>2, AwaitedGrows
  <2> QED
    BY <2>2, <2>3 DEF Pairing
<1>11. SilentWire' /\ ShownWire'
  BY <1>1, <1>2, <1>3, <1>6, WireTold
<1> QED
  BY <1>8, <1>9, <1>10, <1>11 DEF WireInv

LEMMA AnswerWire ==
    ASSUME Inv, WireInv, NEW p \in Callers, Answer(p)
    PROVE  WireInv'
<1>1. /\ Stamp /\ calls[p] # None /\ ~calls[p].answered /\ calls[p].key # None
      /\ calls' = [calls EXCEPT ![p] = [calls[p] EXCEPT !.answered = TRUE]]
      /\ last_wire' = [last_wire EXCEPT ![calls[p].host] = clock]
      /\ Emit([kind |-> "response", host |-> calls[p].host, key |-> calls[p].key, ts |-> clock])
      /\ UNCHANGED <<pending_dns, resolutions, displaced>>
  BY DEF Answer, dns
<1>2. /\ RingTyped /\ missing \in BOOLEAN /\ calls[p] \in Call /\ calls[p].host \in Hosts
      /\ calls[p].key \in Keys
      /\ clock \in Nat /\ clock' = clock + 1 /\ calls \in [Callers -> Call \cup {None}]
  BY <1>1, CallTyped, StampTyped DEF Inv, CallsTyped, GhostsTyped
<1>3. PICK h0 \in Hosts, key \in Keys : h0 = calls[p].host /\ key = calls[p].key
  BY <1>2
<1>5. PICK ev : ev = [kind |-> "response", host |-> h0, key |-> key, ts |-> clock]
  OBVIOUS
<1>6. /\ Emit(ev) /\ ev.kind = "response" /\ ev.host = h0 /\ ev.key = key /\ ev.ts = clock /\ Wire(ev)
  BY <1>1, <1>3, <1>5 DEF Wire
<1>7. /\ calls'[p] # None /\ calls'[p].key = key /\ calls'[p].answered
      /\ \A q \in Callers \ {p} : calls'[q] = calls[q]
  BY <1>1, <1>2, <1>3, NoneAway DEF Call
<1>8. Ordered' /\ MapsBehind'
  BY <1>1, <1>6, OrderGrows DEF WireInv
<1>9. KeysOwn'
  BY <1>1, <1>3, <1>7 DEF WireInv, KeysOwn
<1>10. Pairing'
  <2> SUFFICES ASSUME ~missing' PROVE Pairing'
    BY DEF Pairing
  <2>1. ~missing
    BY <1>2, <1>6, RingGrows
  <2>4. Len(ring) + 1 \in Nat /\ Len(ring) + 1 > Len(ring)
    BY <1>2, <1>6, RingGrows
  <2>2. ASSUME NEW q \in Callers, NEW k \in Keys, NEW h \in Hosts, NEW n \in Nat,
               calls'[q] # None, calls'[q].key = k, ~calls'[q].answered, calls'[q].host = h, n > Len(ring')
        PROVE  Awaited(n, k, h)'
    <3>1. q # p /\ calls'[q] = calls[q]
      BY <1>7, <2>2
    <3>2. k # key
      BY <1>1, <1>3, <2>2, <3>1, KeysAway DEF WireInv, KeysOwn
    <3>3. Awaited(Len(ring) + 1, k, h)
      BY <2>1, <2>2, <2>4, <3>1 DEF WireInv, Pairing
    <3> QED
      BY <1>1, <1>2, <1>6, <2>2, <3>2, <3>3, AwaitedPasses
  <2>3. ASSUME NEW i \in DOMAIN ring', NEW k \in Keys, NEW h \in Hosts,
               ring'[i].kind = "response", ring'[i].key = k, ring'[i].host = h
        PROVE  Awaited(i, k, h)'
    <3>1. CASE i \in DOMAIN ring /\ ring'[i] = ring[i]
      <4>1. Awaited(i, k, h) /\ i \in Nat /\ i <= Len(ring) + 1
        BY <1>2, <2>1, <2>3, <3>1, EventAt DEF WireInv, Pairing
      <4> QED
        BY <1>1, <1>2, <1>6, <4>1, AwaitedGrows
    <3>2. CASE i = Len(ring) + 1 /\ ring'[i] = ev
      <4>1. k = key /\ h = h0
        BY <1>6, <2>3, <3>2
      <4>2. Awaited(Len(ring) + 1, key, h0)
        BY <1>1, <1>3, <2>1, <2>4 DEF WireInv, Pairing
      <4>3. Awaited(i, key, h0) /\ i \in Nat /\ i <= Len(ring) + 1
        BY <2>4, <3>2, <4>2
      <4> QED
        BY <1>1, <1>2, <1>6, <4>1, <4>3, AwaitedGrows
    <3> QED
      BY <1>2, <1>6, <3>1, <3>2, RingGrows
  <2> QED
    BY <2>2, <2>3 DEF Pairing
<1>11. SilentWire' /\ ShownWire'
  BY <1>1, <1>2, <1>3, <1>6, WireTold
<1> QED
  BY <1>8, <1>9, <1>10, <1>11 DEF WireInv

LEMMA ReturnWire ==
    ASSUME Inv, WireInv, NEW p \in Callers, NEW ok \in BOOLEAN, Return(p, ok)
    PROVE  WireInv'
<1> DEFINE c == calls[p]
           e == [kind |-> "getaddrinfo", host |-> c.host, ok |-> ok,
                 latency |-> clock - c.start, ts |-> clock, own |-> c.answered,
                 asked |-> last_wire[c.host] # None /\ last_wire[c.host] >= c.start]
<1>1. /\ Stamp /\ calls[p] # None /\ calls' = [calls EXCEPT ![p] = None]
      /\ ok => Resolves[c.host] # {}
      /\ Emit(e) /\ UNCHANGED <<pending_dns, resolutions, last_wire, displaced>>
  BY DEF Return, dns
<1>2. /\ RingTyped /\ missing \in BOOLEAN /\ c.host \in Hosts /\ c.start \in Nat
      /\ c.start <= clock /\ last_wire \in [Hosts -> Ts \cup {None}]
      /\ clock \in Nat /\ clock' = clock + 1 /\ calls \in [Callers -> Call \cup {None}]
  BY <1>1, CallTyped, StampTyped DEF Inv, CallsTyped, GhostsTyped, BegunBefore, Ts
<1>3. PICK h0 \in Hosts, t0 \in Nat : h0 = c.host /\ t0 = c.start
  BY <1>2
<1>4. PICK asked \in BOOLEAN : asked = (last_wire[h0] # None /\ last_wire[h0] >= t0)
  OBVIOUS
<1>5. PICK ev : ev = e
  OBVIOUS
<1>6. /\ Emit(ev) /\ ev.kind = "getaddrinfo" /\ ~Wire(ev) /\ ev.host = h0 /\ ev.ts = clock
      /\ ev.ok = ok /\ ev.asked = asked /\ ev.latency = clock - t0
  BY <1>1, <1>3, <1>4, <1>5 DEF Wire
<1>7. calls'[p] = None /\ \A q \in Callers \ {p} : calls'[q] = calls[q]
  BY <1>1, <1>2
<1>8. Ordered' /\ MapsBehind'
  BY <1>1, <1>6, OrderGrows DEF WireInv
<1>9. KeysOwn'
  BY <1>7 DEF WireInv, KeysOwn
<1>10. Pairing'
  <2> SUFFICES ASSUME ~missing' PROVE Pairing'
    BY DEF Pairing
  <2>1. ~missing
    BY <1>2, <1>6, RingGrows
  <2>4. Len(ring) + 1 \in Nat /\ Len(ring) + 1 > Len(ring)
    BY <1>2, <1>6, RingGrows
  <2>2. ASSUME NEW q \in Callers, NEW k \in Keys, NEW h \in Hosts, NEW n \in Nat,
               calls'[q] # None, calls'[q].key = k, ~calls'[q].answered, calls'[q].host = h, n > Len(ring')
        PROVE  Awaited(n, k, h)'
    <3>1. q # p /\ calls'[q] = calls[q]
      BY <1>7, <2>2
    <3>3. Awaited(Len(ring) + 1, k, h)
      BY <2>1, <2>2, <2>4, <3>1 DEF WireInv, Pairing
    <3> QED
      BY <1>1, <1>2, <1>6, <2>2, <3>3, AwaitedPasses
  <2>3. ASSUME NEW i \in DOMAIN ring', NEW k \in Keys, NEW h \in Hosts,
               ring'[i].kind = "response", ring'[i].key = k, ring'[i].host = h
        PROVE  Awaited(i, k, h)'
    <3>1. i \in DOMAIN ring /\ ring'[i] = ring[i]
      BY <1>2, <1>6, <2>3, RingGrows
    <3>2. Awaited(i, k, h) /\ i \in Nat /\ i <= Len(ring) + 1
      BY <1>2, <2>1, <2>3, <3>1, EventAt DEF WireInv, Pairing
    <3> QED
      BY <1>1, <1>2, <1>6, <3>2, AwaitedGrows
  <2> QED
    BY <2>2, <2>3 DEF Pairing
<1>11. SilentWire' /\ ShownWire'
  <2>1. ASSUME NEW h \in Hosts, NEW t \in Nat, NEW n \in Nat, last_wire'[h] # None => last_wire'[h] < t
        PROVE  ~Shown(h, t, n)'
    BY <1>1, <1>2, <1>6, <2>1, SilentGrows DEF WireInv, SilentWire
  <2>2. ASSUME NEW i \in DOMAIN ring', NEW h \in Hosts, NEW t \in Nat, Returned(i, h, t, FALSE)'
        PROVE  ~Shown(h, t, i)'
    <3>1. CASE i \in DOMAIN ring /\ ring'[i] = ring[i]
      <4>1. Returned(i, h, t, FALSE) /\ i \in Nat
        BY <1>2, <2>2, <3>1, EventAt DEF Returned
      <4>2. ~Shown(h, t, i)
        BY <3>1, <4>1 DEF WireInv, SilentWire
      <4> QED
        BY <1>1, <1>2, <1>6, <4>1, <4>2, SilentGrows
    <3>2. CASE i = Len(ring) + 1 /\ ring'[i] = ev
      <4>1. h = h0 /\ t = t0 /\ ~asked /\ i \in Nat
        BY <1>2, <1>3, <1>6, <2>2, <3>2, RingGrows DEF Returned, SatSub
      <4>2. last_wire[h] # None => last_wire[h] < t
        <5>1. ~(last_wire[h] # None /\ last_wire[h] >= t)
          BY <1>4, <4>1
        <5>2. last_wire[h] # None => last_wire[h] \in Nat
          BY <1>2 DEF Ts
        <5> QED
          BY <5>1, <5>2
      <4> QED
        BY <1>1, <2>1, <4>1, <4>2
    <3> QED
      BY <1>2, <1>6, <3>1, <3>2, RingGrows
  <2>3. ASSUME ~missing', ~displaced', NEW h \in Hosts, NEW n \in Nat,
               last_wire'[h] # None, Resolves[h] # {}, n > Len(ring'),
               NEW t \in Ts, t <= last_wire'[h]
        PROVE  Shown(h, t, n)'
    <3>1. /\ ~missing /\ ~displaced /\ Len(ring) + 1 \in Nat /\ Len(ring) + 1 > Len(ring)
          /\ Len(ring) + 1 <= n
      BY <1>1, <1>2, <1>6, <2>3, RingGrows
    <3>2. Shown(h, t, Len(ring) + 1)
      BY <1>1, <2>3, <3>1 DEF WireInv, ShownWire
    <3> QED
      BY <1>1, <1>2, <1>6, <3>1, <3>2, ShownGrows
  <2>4. ASSUME ~missing', ~displaced', NEW i \in DOMAIN ring', NEW h \in Hosts, NEW t \in Nat,
               Returned(i, h, t, TRUE)'
        PROVE  Resolves[h] # {} /\ Shown(h, t, i)'
    <3>1. /\ ~missing /\ ~displaced /\ Len(ring) + 1 \in Nat /\ Len(ring) + 1 > Len(ring)
      BY <1>1, <1>2, <1>6, <2>4, RingGrows
    <3>2. CASE i \in DOMAIN ring /\ ring'[i] = ring[i]
      <4>1. Returned(i, h, t, TRUE) /\ i \in Nat
        BY <1>2, <2>4, <3>2, EventAt DEF Returned
      <4>2. Resolves[h] # {} /\ Shown(h, t, i)
        BY <3>1, <3>2, <4>1 DEF WireInv, ShownWire
      <4> QED
        BY <1>1, <1>2, <1>6, <4>1, <4>2, ShownGrows
    <3>3. CASE i = Len(ring) + 1 /\ ring'[i] = ev
      <4>1. h = h0 /\ t = t0 /\ asked /\ ok /\ i \in Nat
        BY <1>2, <1>3, <1>6, <2>4, <3>1, <3>3 DEF Returned, SatSub
      <4>2. last_wire[h] # None /\ t <= last_wire[h] /\ t \in Ts /\ Resolves[h] # {}
        BY <1>1, <1>2, <1>3, <1>4, <4>1, CallTyped DEF Ts, Inv
      <4>3. Shown(h, t, i)
        BY <3>1, <3>3, <4>2 DEF WireInv, ShownWire
      <4> QED
        BY <1>1, <1>2, <1>6, <4>1, <4>2, <4>3, ShownGrows
    <3> QED
      BY <1>2, <1>6, <3>2, <3>3, RingGrows
  <2> QED
    BY <2>1, <2>2, <2>3, <2>4 DEF SilentWire, ShownWire
<1> QED
  BY <1>8, <1>9, <1>10, <1>11 DEF WireInv
LEMMA QuietWire ==
    ASSUME Inv, WireInv, NEW p \in Callers, NEW h0 \in Hosts, StartCall(p, h0)
    PROVE  WireInv'
<1>1. /\ Stamp /\ calls[p] = None /\ UNCHANGED <<ring, dns, conn, ghosts>>
      /\ calls' = [calls EXCEPT ![p] =
                     [host |-> h0, start |-> clock, key |-> None, answered |-> FALSE]]
  BY DEF StartCall
<1>2. clock \in Nat /\ clock' = clock + 1 /\ RingTyped
  BY <1>1, StampTyped DEF Inv
<1>3. \A q \in Callers : /\ calls'[q] # None => (calls'[q].key = None \/ calls'[q] = calls[q])
  BY <1>1 DEF Inv, CallsTyped
<1>4. Ordered' /\ MapsBehind'
  <2>1. \A i \in DOMAIN ring : ring[i].ts \in Nat
    BY <1>2, EventAt
  <2>2. \A k \in Keys : pending_dns[k] # None => pending_dns[k].query_ts \in Nat
    BY DEF Inv, PendingTyped, PendingQuery, Ts
  <2>3. \A ip \in Ips : resolutions[ip] # None =>
           resolutions[ip].query_ts \in Nat /\ resolutions[ip].resolved_ts \in Nat
    BY DEF Inv, ResolutionsTyped, Resolution, Ts
  <2> QED
    BY <1>1, <1>2, <2>1, <2>2, <2>3 DEF WireInv, Ordered, MapsBehind, Past, dns
<1>5. KeysOwn'
  BY <1>3 DEF WireInv, KeysOwn
<1>6. Pairing'
  BY <1>1, <1>3, KeysAway DEF WireInv, Pairing, Awaited, dns, ghosts
<1>7. SilentWire' /\ ShownWire'
  BY <1>1 DEF WireInv, SilentWire, ShownWire, Shown, Returned, dns, ghosts
<1> QED
  BY <1>4, <1>5, <1>6, <1>7 DEF WireInv

-----------------------------------------------------------------------------
(* The ring is folded at its head.                                         *)

LEMMA RingFolds ==
    ASSUME RingTyped, ring # <<>>, ring' = Tail(ring)
    PROVE  /\ Len(ring) \in Nat \ {0} /\ Head(ring) = ring[1] /\ 1 \in DOMAIN ring
           /\ Len(ring') = Len(ring) - 1
           /\ DOMAIN ring = 1 .. Len(ring) /\ DOMAIN ring' = 1 .. Len(ring')
           /\ \A i \in DOMAIN ring' : i + 1 \in DOMAIN ring /\ ring'[i] = ring[i + 1]
           /\ \A i \in DOMAIN ring : i # 1 => i - 1 \in DOMAIN ring' /\ ring'[i - 1] = ring[i]
  BY DEF RingTyped

(* What a fold does to the maps: a query replaces the entry of its key, a  *)
(* response that pairs moves it to the addresses; the pass may take what   *)
(* is not spared, and then says so.                                        *)
LEMMA QueryFolds ==
    ASSUME Inv, FoldQuery
    PROVE  LET e == ring[1] IN
           /\ e.key \in Keys /\ e.host \in Hosts
           /\ \A k \in Keys : pending_dns'[k] # None =>
                 \/ k # e.key /\ pending_dns'[k] = pending_dns[k]
                 \/ k = e.key /\ pending_dns'[k].qname = e.host /\ pending_dns'[k].query_ts = e.ts
           /\ pending_dns'[e.key] # None
           /\ ~missing' => ~missing /\ \A k \in Keys \ {e.key} : pending_dns'[k] = pending_dns[k]
           /\ ~displaced' => ~displaced /\ (pending_dns[e.key] # None => pending_dns[e.key].qname = e.host)
           /\ UNCHANGED <<clock, calls, last_wire, resolutions, gai>> /\ ring # <<>> /\ ring' = Tail(ring)
<1> DEFINE e == Head(ring)
           q == [qname |-> e.host, query_ts |-> e.ts]
           map == [pending_dns EXCEPT ![e.key] = q]
           stamp == [k \in Present(map) |-> map[k].query_ts]
<1>1. /\ ring # <<>> /\ e.kind = "query" /\ ring' = Tail(ring)
      /\ OnDnsQuery(e.key, e.host, e.ts) /\ UNCHANGED <<clock, calls, conn, last_wire>>
  BY DEF FoldQuery
<1>2. e.host \in Hosts /\ e.key \in Keys /\ e.ts \in Ts /\ RingTyped
  BY <1>1, HeadTyped, QueryTyped DEF Inv
<1>3. PICK V \in Victims(Present(map), DNS_MAP_CAP, stamp, KeyRank, {e.key}) :
        pending_dns' = Without(map, V) /\ missing' = (missing \/ V # {})
  BY <1>1 DEF OnDnsQuery
<1>4. /\ displaced' = (displaced \/ (pending_dns[e.key] # None /\ pending_dns[e.key].qname # e.host))
      /\ UNCHANGED <<resolutions, gai>>
  BY <1>1 DEF OnDnsQuery
<1>5. map \in [Keys -> PendingQuery \cup {None}] /\ q \in PendingQuery
  BY <1>2 DEF Inv, PendingTyped, PendingQuery
<1>6. q # None /\ map[e.key] = q /\ \A k \in Keys \ {e.key} : map[k] = pending_dns[k]
  BY <1>2, <1>5, DnsAssumption DEF Inv, PendingTyped
<1> HIDE DEF map, stamp
<1>7. IsFiniteSet(Present(map))
  BY <1>5, KeysFinite, FS_Subset DEF Present
<1>8. e.key \notin V
  BY <1>3, <1>7, DnsAssumption, VictimsSpareKeep
<1>9. \A k \in Keys : pending_dns'[k] = IF k \in V THEN None ELSE map[k]
  BY <1>3, <1>5 DEF Without
<1>10. e = ring[1]
  BY <1>1, <1>2, RingFolds
<1>11. q.qname = e.host /\ q.query_ts = e.ts
  OBVIOUS
<1> HIDE DEF q
<1>12. \A k \in Keys : pending_dns'[k] # None =>
                 \/ k # e.key /\ pending_dns'[k] = pending_dns[k]
                 \/ k = e.key /\ pending_dns'[k].qname = e.host /\ pending_dns'[k].query_ts = e.ts
  BY <1>6, <1>9, <1>11
<1>13. pending_dns'[e.key] # None
  BY <1>2, <1>6, <1>8, <1>9
<1>14. ~missing' => ~missing /\ \A k \in Keys \ {e.key} : pending_dns'[k] = pending_dns[k]
  BY <1>3, <1>6, <1>9
<1>15. ~displaced' => ~displaced /\ (pending_dns[e.key] # None => pending_dns[e.key].qname = e.host)
  BY <1>4
<1> HIDE DEF e
<1> QED
  BY <1>1, <1>2, <1>4, <1>10, <1>12, <1>13, <1>14, <1>15

LEMMA ResponseFolds ==
    ASSUME Inv, FoldResponse, Pairs(ring[1].key, ring[1].host)
    PROVE  LET e == ring[1] IN
           /\ e.key \in Keys /\ e.host \in Hosts /\ Resolves[e.host] \subseteq Ips
           /\ pending_dns[e.key] # None /\ pending_dns[e.key].qname = e.host
           /\ pending_dns'[e.key] = None
           /\ \A k \in Keys \ {e.key} : pending_dns'[k] = pending_dns[k]
           /\ \A ip \in Ips : resolutions'[ip] # None =>
                 \/ ip \notin Resolves[e.host] /\ resolutions'[ip] = resolutions[ip]
                 \/ /\ ip \in Resolves[e.host] /\ resolutions'[ip].hostname = e.host
                    /\ resolutions'[ip].query_ts = pending_dns[e.key].query_ts
                    /\ resolutions'[ip].resolved_ts = e.ts
           /\ \A ip \in Resolves[e.host] : resolutions'[ip] # None
           /\ ~missing' => ~missing /\ \A ip \in Ips \ Resolves[e.host] : resolutions'[ip] = resolutions[ip]
           /\ ~displaced' => ~displaced /\ \A ip \in Resolves[e.host] :
                 resolutions[ip] # None => resolutions[ip].hostname = e.host
           /\ UNCHANGED <<clock, calls, last_wire, gai>> /\ ring # <<>> /\ ring' = Tail(ring)
<1> DEFINE e == Head(ring)
           q == pending_dns[e.key]
           fresh == Resolves[e.host]
           res == [hostname |-> q.qname, query_ts |-> q.query_ts, resolved_ts |-> e.ts]
           map == [ip \in Ips |-> IF ip \in fresh THEN res ELSE resolutions[ip]]
           stamp == [ip \in Present(map) |-> map[ip].resolved_ts]
<1>1. /\ ring # <<>> /\ e.kind = "response" /\ ring' = Tail(ring)
      /\ OnDnsResponse(e.key, e.host, e.ts) /\ UNCHANGED <<clock, calls, conn, last_wire>>
  BY DEF FoldResponse
<1>2. e.host \in Hosts /\ e.key \in Keys /\ e.ts \in Ts /\ RingTyped
  BY <1>1, HeadTyped, QueryTyped DEF Inv
<1>3. e = ring[1] /\ Pairs(e.key, e.host)
  BY <1>1, <1>2, RingFolds
<1>4. /\ pending_dns' = [pending_dns EXCEPT ![e.key] = None] /\ UNCHANGED gai
      /\ displaced' = (displaced \/ \E ip \in fresh :
            resolutions[ip] # None /\ resolutions[ip].hostname # q.qname)
  BY <1>1, <1>3 DEF OnDnsResponse
<1>5. PICK V \in Victims(Present(map), DNS_MAP_CAP, stamp, IpRank, fresh) :
        resolutions' = Without(map, V) /\ missing' = (missing \/ V # {})
  BY <1>1, <1>3 DEF OnDnsResponse
<1>6. q # None /\ q \in PendingQuery /\ q.qname = e.host /\ q.query_ts \in Ts
  BY <1>2, <1>3 DEF Pairs, Inv, PendingTyped, PendingQuery
<1>7. /\ fresh \subseteq Ips /\ IsFiniteSet(Ips)
  BY <1>2, DnsAssumption
<1>8. res \in Resolution /\ res # None
  BY <1>2, <1>6, DnsAssumption DEF Resolution
<1>9. res.hostname = e.host /\ res.query_ts = q.query_ts /\ res.resolved_ts = e.ts
  BY <1>6
<1> HIDE DEF res
<1>10. /\ \A ip \in fresh : map[ip] = res
       /\ \A ip \in Ips \ fresh : map[ip] = resolutions[ip]
       /\ DOMAIN map = Ips
  BY <1>7
<1> HIDE DEF map, stamp
<1>11. IsFiniteSet(Present(map))
  BY <1>7, <1>10, FS_Subset DEF Present
<1>12. V \cap fresh = {}
  BY <1>5, <1>11, DnsAssumption, VictimsSpareKeep
<1>13. \A ip \in Ips : resolutions'[ip] = IF ip \in V THEN None ELSE map[ip]
  BY <1>5, <1>10 DEF Without
<1> HIDE DEF fresh
<1>14. \A ip \in Ips : resolutions'[ip] # None =>
                 \/ ip \notin fresh /\ resolutions'[ip] = resolutions[ip]
                 \/ /\ ip \in fresh /\ resolutions'[ip].hostname = e.host
                    /\ resolutions'[ip].query_ts = q.query_ts
                    /\ resolutions'[ip].resolved_ts = e.ts
  BY <1>9, <1>10, <1>13
<1>15. \A ip \in fresh : resolutions'[ip] # None
  BY <1>7, <1>8, <1>10, <1>12, <1>13
<1>16. ~missing' => ~missing /\ \A ip \in Ips \ fresh : resolutions'[ip] = resolutions[ip]
  BY <1>5, <1>10, <1>13
<1>17. ~displaced' => ~displaced /\ \A ip \in fresh :
                 resolutions[ip] # None => resolutions[ip].hostname = e.host
  BY <1>4, <1>6
<1>18. pending_dns'[e.key] = None /\ \A k \in Keys \ {e.key} : pending_dns'[k] = pending_dns[k]
  BY <1>2, <1>4 DEF Inv, PendingTyped
<1>19. fresh = Resolves[e.host] /\ q = pending_dns[e.key]
  BY DEF fresh
<1> HIDE DEF e, q
<1> QED
  BY <1>1, <1>2, <1>3, <1>4, <1>6, <1>7, <1>14, <1>15, <1>16, <1>17, <1>18, <1>19
LEMMA ReturnFolds ==
    ASSUME FoldGetaddrinfo
    PROVE  /\ UNCHANGED <<clock, calls, last_wire, pending_dns, resolutions, missing, displaced>>
           /\ ring # <<>> /\ ring' = Tail(ring) /\ Head(ring).kind = "getaddrinfo"
  BY DEF FoldGetaddrinfo, OnGetaddrinfo, dns

LEMMA UnpairedFolds ==
    ASSUME FoldResponse, RingTyped, ~Pairs(ring[1].key, ring[1].host)
    PROVE  /\ UNCHANGED <<clock, calls, last_wire, pending_dns, resolutions, missing, displaced>>
           /\ ring # <<>> /\ ring' = Tail(ring)
<1>1. ring # <<>> /\ ring' = Tail(ring)
  BY DEF FoldResponse
<1>2. Head(ring) = ring[1]
  BY <1>1, RingFolds
<1> QED
  BY <1>2 DEF FoldResponse, OnDnsResponse, dns

Fold == FoldQuery \/ FoldResponse \/ FoldGetaddrinfo

LEMMA FoldIs ==
    ASSUME Inv, Fold
    PROVE  /\ UNCHANGED <<clock, calls, last_wire>> /\ ring # <<>> /\ ring' = Tail(ring)
           /\ Head(ring) = ring[1] /\ RingTyped
           /\ ~missing' => ~missing
           /\ ~displaced' => ~displaced
<1>1. RingTyped
  BY DEF Inv
<1>2. CASE FoldQuery
  BY <1>1, <1>2, QueryFolds, RingFolds
<1>3. CASE FoldResponse /\ Pairs(ring[1].key, ring[1].host)
  BY <1>1, <1>3, ResponseFolds, RingFolds
<1>4. CASE FoldResponse /\ ~Pairs(ring[1].key, ring[1].host)
  BY <1>1, <1>4, UnpairedFolds, RingFolds
<1>5. CASE FoldGetaddrinfo
  BY <1>1, <1>5, ReturnFolds, RingFolds
<1> QED
  BY <1>2, <1>3, <1>4, <1>5 DEF Fold

(* A response that was awaited pairs.                                      *)
LEMMA AwaitedPairs ==
    ASSUME Inv, Pairing, ~missing, FoldResponse
    PROVE  Pairs(ring[1].key, ring[1].host)
<1>1. /\ ring # <<>> /\ Head(ring).kind = "response" /\ RingTyped
  BY DEF FoldResponse, Inv
<1>2. 1 \in DOMAIN ring /\ Head(ring) = ring[1]
  BY <1>1, RingFolds DEF FoldResponse
<1>3. ring[1].key \in Keys /\ ring[1].host \in Hosts /\ \A j \in DOMAIN ring : ~(j < 1)
  BY <1>1, <1>2, EventAt DEF Wire
<1>4. Awaited(1, ring[1].key, ring[1].host)
  BY <1>1, <1>2, <1>3 DEF Pairing
<1> QED
  BY <1>3, <1>4 DEF Awaited, Pairs

LEMMA OrderFolds ==
    ASSUME Inv, Ordered, MapsBehind, Fold
    PROVE  Ordered' /\ MapsBehind'
<1>1. /\ clock' = clock /\ ring # <<>> /\ ring' = Tail(ring) /\ RingTyped
  BY FoldIs
<1>2. /\ 1 \in DOMAIN ring
      /\ \A i \in DOMAIN ring' : i \in Nat /\ 1 <= i /\ i + 1 \in DOMAIN ring /\ ring'[i] = ring[i + 1]
  BY <1>1, RingFolds
<1>3. Ordered'
  BY <1>1, <1>2 DEF Ordered
<1>4. \A t : Past(t) => Past(t)'
  BY <1>1, <1>2 DEF Past
<1>5. PICK t1 : t1 = ring[1].ts
  OBVIOUS
<1>6. t1 < clock /\ \A i \in DOMAIN ring : i # 1 => t1 < ring[i].ts
  <2>1. \A i \in DOMAIN ring : i \in Nat /\ i >= 1
    BY <1>1, EventAt
  <2> QED
    BY <1>2, <1>5, <2>1 DEF Ordered
<1>7. Past(t1)'
  <2>1. \A i \in DOMAIN ring' : i + 1 # 1
    BY <1>2
  <2> QED
    BY <1>1, <1>2, <1>6, <2>1 DEF Past
<1>8. MapsBehind'
  <2>1. ASSUME NEW k \in Keys, pending_dns'[k] # None PROVE Past(pending_dns[k].query_ts)'
    <3>1. pending_dns'[k] = pending_dns[k] \/ pending_dns'[k].query_ts = t1
      <4>1. CASE FoldQuery
        BY <2>1, <4>1, <1>5, QueryFolds
      <4>2. CASE FoldResponse /\ Pairs(ring[1].key, ring[1].host)
        BY <2>1, <4>2, ResponseFolds
      <4>3. CASE FoldResponse /\ ~Pairs(ring[1].key, ring[1].host)
        BY <1>1, <4>3, UnpairedFolds
      <4>4. CASE FoldGetaddrinfo
        BY <4>4, ReturnFolds
      <4> QED
        BY <4>1, <4>2, <4>3, <4>4 DEF Fold
    <3> QED
      BY <1>4, <1>7, <2>1, <3>1 DEF MapsBehind, Past
  <2>2. ASSUME NEW ip \in Ips, resolutions'[ip] # None
        PROVE  Past(resolutions[ip].query_ts)' /\ Past(resolutions[ip].resolved_ts)'
    <3>1. \/ resolutions'[ip] = resolutions[ip]
          \/ /\ resolutions'[ip].resolved_ts = t1
             /\ \E k \in Keys : pending_dns[k] # None /\ resolutions'[ip].query_ts = pending_dns[k].query_ts
      <4>1. CASE FoldQuery
        BY <4>1, QueryFolds
      <4>2. CASE FoldResponse /\ Pairs(ring[1].key, ring[1].host)
        BY <2>2, <4>2, <1>5, ResponseFolds
      <4>3. CASE FoldResponse /\ ~Pairs(ring[1].key, ring[1].host)
        BY <1>1, <4>3, UnpairedFolds
      <4>4. CASE FoldGetaddrinfo
        BY <4>4, ReturnFolds
      <4> QED
        BY <4>1, <4>2, <4>3, <4>4 DEF Fold
    <3> QED
      BY <1>4, <1>7, <2>2, <3>1 DEF MapsBehind, Past
  <2> QED
    BY <2>1, <2>2 DEF MapsBehind
<1> QED
  BY <1>3, <1>8

(* What is told stays told, a place nearer to the head, unless it was lost *)
(* or displaced.                                                           *)
LEMMA ShownFolds ==
    ASSUME Inv, Pairing, MapsBehind, Fold, ~missing', ~displaced',
           NEW h \in Hosts, Resolves[h] # {}, NEW t \in Nat,
           NEW i \in Nat, NEW n \in Nat, n <= i + 1, Shown(h, t, n)
    PROVE  Shown(h, t, i)'
<1>1. /\ ring # <<>> /\ ring' = Tail(ring) /\ RingTyped /\ ~missing /\ ~displaced
  BY FoldIs
<1>2. /\ 1 \in DOMAIN ring /\ \A j \in DOMAIN ring : j \in Nat
      /\ \A j \in DOMAIN ring : j # 1 => j - 1 \in DOMAIN ring' /\ ring'[j - 1] = ring[j]
  BY <1>1, RingFolds
<1>3. ASSUME NEW j \in DOMAIN ring, j # 1, j < n, Wire(ring[j]), ring[j].host = h, ring[j].ts >= t
      PROVE  Shown(h, t, i)'
  <2>1. j - 1 < i /\ j - 1 \in DOMAIN ring' /\ ring'[j - 1] = ring[j]
    BY <1>2, <1>3
  <2> QED
    BY <1>3, <2>1 DEF Shown
<1>4. ring[1].ts \in Nat
  BY <1>1, <1>2, EventAt
<1>5. CASE FoldQuery
  <2>1. ASSUME NEW k \in Keys, pending_dns[k] # None, pending_dns[k].qname = h, pending_dns[k].query_ts >= t
        PROVE  Shown(h, t, i)'
    <3>1. CASE k = ring[1].key
      <4>1. pending_dns[k].query_ts \in Nat /\ pending_dns[k].query_ts < ring[1].ts
        BY <1>2, <2>1 DEF MapsBehind, Past, Inv, PendingTyped, PendingQuery, Ts
      <4>2. pending_dns'[k] # None /\ pending_dns'[k].qname = h /\ pending_dns'[k].query_ts >= t
        BY <1>4, <1>5, <2>1, <3>1, <4>1, QueryFolds
      <4> QED
        BY <4>2 DEF Shown
    <3>2. CASE k # ring[1].key
      <4>1. pending_dns'[k] = pending_dns[k]
        BY <1>5, <3>2, QueryFolds
      <4> QED
        BY <2>1, <4>1 DEF Shown
    <3> QED
      BY <3>1, <3>2
  <2>2. ASSUME NEW ip \in Ips, resolutions[ip] # None, resolutions[ip].hostname = h, resolutions[ip].resolved_ts >= t
        PROVE  Shown(h, t, i)'
    BY <1>5, <2>2, QueryFolds DEF Shown
  <2>3. ASSUME ring[1].host = h, ring[1].ts >= t PROVE Shown(h, t, i)'
    BY <1>5, <2>3, QueryFolds DEF Shown
  <2> QED
    BY <1>3, <2>1, <2>2, <2>3 DEF Shown
<1>6. CASE FoldResponse
  <2> DEFINE e == ring[1]
  <2>0. Pairs(e.key, e.host)
    BY <1>1, <1>6, AwaitedPairs
  <2>4. ASSUME e.host = h, e.ts >= t PROVE Shown(h, t, i)'
    <3>1. PICK ip \in Resolves[h] : TRUE
      OBVIOUS
    <3>2. ip \in Ips /\ resolutions'[ip] # None
      BY <1>6, <2>0, <2>4, ResponseFolds
    <3>3. resolutions'[ip].hostname = h /\ resolutions'[ip].resolved_ts >= t
      BY <1>6, <2>0, <2>4, <3>2, ResponseFolds
    <3> QED
      BY <3>2, <3>3 DEF Shown
  <2>1. ASSUME NEW k \in Keys, pending_dns[k] # None, pending_dns[k].qname = h, pending_dns[k].query_ts >= t
        PROVE  Shown(h, t, i)'
    <3>1. CASE k = e.key
      <4>1. pending_dns[k].query_ts \in Nat /\ pending_dns[k].query_ts < e.ts
        BY <1>2, <2>1 DEF MapsBehind, Past, Inv, PendingTyped, PendingQuery, Ts
      <4>2. e.host = h
        BY <1>6, <2>0, <2>1, <3>1, ResponseFolds
      <4>3. e.ts >= t
        BY <1>4, <2>1, <4>1
      <4> QED
        BY <2>4, <4>2, <4>3
    <3>2. CASE k # e.key
      <4>1. pending_dns'[k] = pending_dns[k]
        BY <1>6, <2>0, <3>2, ResponseFolds
      <4> QED
        BY <2>1, <4>1 DEF Shown
    <3> QED
      BY <3>1, <3>2
  <2>2. ASSUME NEW ip \in Ips, resolutions[ip] # None, resolutions[ip].hostname = h, resolutions[ip].resolved_ts >= t
        PROVE  Shown(h, t, i)'
    <3>1. CASE ip \in Resolves[e.host]
      <4>1. e.host = h
        BY <1>6, <2>0, <2>2, <3>1, ResponseFolds
      <4>2. resolutions[ip].resolved_ts \in Nat /\ resolutions[ip].resolved_ts < e.ts
        BY <1>2, <2>2 DEF MapsBehind, Past, Inv, ResolutionsTyped, Resolution, Ts
      <4> QED
        BY <1>4, <2>2, <2>4, <4>1, <4>2
    <3>2. CASE ip \notin Resolves[e.host]
      <4>1. resolutions'[ip] = resolutions[ip]
        BY <1>6, <2>0, <3>2, ResponseFolds
      <4> QED
        BY <2>2, <4>1 DEF Shown
    <3> QED
      BY <3>1, <3>2
  <2> QED
    BY <1>3, <2>1, <2>2, <2>4 DEF Shown
<1>7. CASE FoldGetaddrinfo
  <2>1. pending_dns' = pending_dns /\ resolutions' = resolutions /\ ~Wire(ring[1])
    BY <1>1, <1>7, ReturnFolds, FoldIs DEF Wire
  <2> QED
    BY <1>3, <2>1 DEF Shown
<1> QED
  BY <1>5, <1>6, <1>7 DEF Fold

(* Nothing new is told.                                                    *)
LEMMA SilentFolds ==
    ASSUME Inv, Fold, NEW h, NEW t, NEW i \in Nat, NEW n \in Nat, n >= i + 1, n >= 2, Shown(h, t, i)'
    PROVE  Shown(h, t, n)
<1>1. /\ ring # <<>> /\ ring' = Tail(ring) /\ RingTyped
  BY FoldIs
<1>2. /\ 1 \in DOMAIN ring
      /\ \A j \in DOMAIN ring' : j \in Nat /\ j + 1 \in DOMAIN ring /\ ring'[j] = ring[j + 1]
  BY <1>1, RingFolds
<1>3. ASSUME NEW j \in DOMAIN ring', j < i, Wire(ring'[j]), ring'[j].host = h, ring'[j].ts >= t
      PROVE  Shown(h, t, n)
  <2>1. j + 1 < n /\ j + 1 \in DOMAIN ring /\ ring'[j] = ring[j + 1]
    BY <1>2, <1>3
  <2> QED
    BY <1>3, <2>1 DEF Shown
<1>4. ASSUME Wire(ring[1]), ring[1].host = h, ring[1].ts >= t
      PROVE  Shown(h, t, n)
  <2>1. 1 < n
    OBVIOUS
  <2> QED
    BY <1>2, <1>4, <2>1 DEF Shown
<1>5. CASE FoldQuery
  <2>0. Wire(ring[1])
    BY <1>5, FoldIs DEF Fold, FoldQuery, Wire
  <2>1. ASSUME NEW k \in Keys, pending_dns'[k] # None, pending_dns'[k].qname = h, pending_dns'[k].query_ts >= t
        PROVE  Shown(h, t, n)
    <3>1. CASE k # ring[1].key /\ pending_dns'[k] = pending_dns[k]
      BY <2>1, <3>1 DEF Shown
    <3>2. CASE pending_dns'[k].qname = ring[1].host /\ pending_dns'[k].query_ts = ring[1].ts
      BY <1>4, <2>0, <2>1, <3>2
    <3> QED
      BY <1>5, <2>1, <3>1, <3>2, QueryFolds
  <2>2. resolutions' = resolutions
    BY <1>5, QueryFolds
  <2> QED
    BY <1>3, <2>1, <2>2 DEF Shown
<1>6. CASE FoldResponse /\ Pairs(ring[1].key, ring[1].host)
  <2>0. Wire(ring[1])
    BY <1>6, FoldIs DEF Fold, FoldResponse, Wire
  <2>1. \A k \in Keys : pending_dns'[k] # None => pending_dns'[k] = pending_dns[k]
    BY <1>6, ResponseFolds
  <2>2. ASSUME NEW ip \in Ips, resolutions'[ip] # None, resolutions'[ip].hostname = h, resolutions'[ip].resolved_ts >= t
        PROVE  Shown(h, t, n)
    <3>1. CASE resolutions'[ip] = resolutions[ip]
      BY <2>2, <3>1 DEF Shown
    <3>2. CASE resolutions'[ip].hostname = ring[1].host /\ resolutions'[ip].resolved_ts = ring[1].ts
      BY <1>4, <2>0, <2>2, <3>2
    <3> QED
      BY <1>6, <2>2, <3>1, <3>2, ResponseFolds
  <2> QED
    BY <1>3, <2>1, <2>2 DEF Shown
<1>7. CASE FoldGetaddrinfo \/ (FoldResponse /\ ~Pairs(ring[1].key, ring[1].host))
  <2>1. pending_dns' = pending_dns /\ resolutions' = resolutions
    BY <1>1, <1>7, ReturnFolds, UnpairedFolds
  <2> QED
    BY <1>3, <2>1 DEF Shown
<1> QED
  BY <1>5, <1>6, <1>7 DEF Fold

(* A response stays awaited.                                               *)
LEMMA AwaitedFolds ==
    ASSUME Inv, Fold, ~missing', NEW k \in Keys, NEW h \in Hosts,
           NEW i \in Nat, i >= 1, Awaited(i + 1, k, h)
    PROVE  Awaited(i, k, h)'
<1>1. /\ ring # <<>> /\ ring' = Tail(ring) /\ RingTyped /\ ~missing /\ Head(ring) = ring[1]
  BY FoldIs
<1>2. /\ 1 \in DOMAIN ring /\ 1 < i + 1
      /\ \A j \in DOMAIN ring : j \in Nat /\ j >= 1
      /\ \A j \in DOMAIN ring' : j \in Nat /\ j + 1 \in DOMAIN ring /\ ring'[j] = ring[j + 1]
      /\ \A j \in DOMAIN ring : j # 1 => j - 1 \in DOMAIN ring' /\ ring'[j - 1] = ring[j]
  BY <1>1, RingFolds
<1>3. ASSUME NEW j \in DOMAIN ring', j < i, Wire(ring'[j]), ring'[j].key = k,
             \A m \in DOMAIN ring' : (j < m /\ m < i /\ Wire(ring'[m])) => ring'[m].key # k
      PROVE  ring'[j].kind = "query" /\ ring'[j].host = h
  <2>1. j + 1 \in DOMAIN ring /\ j + 1 < i + 1 /\ ring'[j] = ring[j + 1]
    BY <1>2, <1>3
  <2>2. ASSUME NEW m \in DOMAIN ring, j + 1 < m, m < i + 1, Wire(ring[m]) PROVE ring[m].key # k
    <3>1. m - 1 \in DOMAIN ring' /\ ring'[m - 1] = ring[m] /\ j < m - 1 /\ m - 1 < i
      BY <1>2, <2>2
    <3> QED
      BY <1>3, <2>2, <3>1
  <2> QED
    BY <1>3, <2>1, <2>2 DEF Awaited
<1>4. ASSUME \A j \in DOMAIN ring' : (j < i /\ Wire(ring'[j])) => ring'[j].key # k
      PROVE  pending_dns'[k] # None /\ pending_dns'[k].qname = h
  <2>1. ASSUME NEW m \in DOMAIN ring, m # 1, m < i + 1, Wire(ring[m]) PROVE ring[m].key # k
    <3>1. m - 1 \in DOMAIN ring' /\ ring'[m - 1] = ring[m] /\ m - 1 < i
      BY <1>2, <2>1
    <3> QED
      BY <1>4, <2>1, <3>1
  <2>2. CASE Wire(ring[1]) /\ ring[1].key = k
    <3>1. ring[1].kind = "query" /\ ring[1].host = h
      BY <1>2, <2>1, <2>2 DEF Awaited
    <3>2. FoldQuery
      BY <1>1, <3>1 DEF Fold, FoldQuery, FoldResponse, FoldGetaddrinfo
    <3> QED
      BY <2>2, <3>1, <3>2, QueryFolds
  <2>3. CASE ~(Wire(ring[1]) /\ ring[1].key = k)
    <3>1. pending_dns[k] # None /\ pending_dns[k].qname = h
      <4>1. \A j \in DOMAIN ring : (j < i + 1 /\ Wire(ring[j])) => ring[j].key # k
        BY <2>1, <2>3
      <4> QED
        BY <4>1 DEF Awaited
    <3>2. pending_dns'[k] = pending_dns[k]
      <4>1. CASE FoldQuery
        <5>1. Wire(ring[1])
          BY <1>1, <4>1 DEF FoldQuery, Wire
        <5> QED
          BY <2>3, <4>1, <5>1, QueryFolds
      <4>2. CASE FoldResponse /\ Pairs(ring[1].key, ring[1].host)
        <5>1. Wire(ring[1])
          BY <1>1, <4>2 DEF FoldResponse, Wire
        <5> QED
          BY <2>3, <4>2, <5>1, ResponseFolds
      <4>3. CASE FoldResponse /\ ~Pairs(ring[1].key, ring[1].host)
        BY <1>1, <4>3, UnpairedFolds
      <4>4. CASE FoldGetaddrinfo
        BY <4>4, ReturnFolds
      <4> QED
        BY <4>1, <4>2, <4>3, <4>4 DEF Fold
    <3> QED
      BY <3>1, <3>2
  <2> QED
    BY <2>2, <2>3
<1> QED
  BY <1>3, <1>4 DEF Awaited
LEMMA FoldWire ==
    ASSUME Inv, WireInv, Fold
    PROVE  WireInv'
<1>1. /\ UNCHANGED <<clock, calls, last_wire>> /\ ring # <<>> /\ ring' = Tail(ring)
      /\ RingTyped /\ (~missing' => ~missing) /\ (~displaced' => ~displaced)
  BY FoldIs
<1>2. /\ Len(ring) \in Nat /\ Len(ring') \in Nat /\ Len(ring) = Len(ring') + 1
      /\ \A i \in DOMAIN ring' : i \in Nat /\ i >= 1 /\ i + 1 \in DOMAIN ring /\ ring'[i] = ring[i + 1]
  BY <1>1, RingFolds
<1>3. Ordered' /\ MapsBehind'
  BY OrderFolds DEF WireInv
<1>4. KeysOwn'
  BY <1>1 DEF WireInv, KeysOwn
<1>5. Pairing'
  <2> SUFFICES ASSUME ~missing' PROVE Pairing'
    BY DEF Pairing
  <2>1. ASSUME NEW p \in Callers, NEW k \in Keys, NEW h \in Hosts, NEW n \in Nat,
               calls'[p] # None, calls'[p].key = k, ~calls'[p].answered, calls'[p].host = h, n > Len(ring')
        PROVE  Awaited(n, k, h)'
    <3>1. n + 1 > Len(ring) /\ n + 1 \in Nat /\ n >= 1
      BY <1>2, <2>1
    <3>2. Awaited(n + 1, k, h)
      BY <1>1, <2>1, <3>1 DEF WireInv, Pairing
    <3> QED
      BY <3>1, <3>2, AwaitedFolds
  <2>2. ASSUME NEW i \in DOMAIN ring', NEW k \in Keys, NEW h \in Hosts,
               ring'[i].kind = "response", ring'[i].key = k, ring'[i].host = h
        PROVE  Awaited(i, k, h)'
    <3>1. Awaited(i + 1, k, h)
      BY <1>1, <1>2, <2>2 DEF WireInv, Pairing
    <3> QED
      BY <1>2, <3>1, AwaitedFolds
  <2> QED
    BY <2>1, <2>2 DEF Pairing
<1>6. ASSUME NEW i \in DOMAIN ring', NEW h \in Hosts, NEW t \in Nat, NEW asked \in BOOLEAN,
             Returned(i, h, t, asked)'
      PROVE  i + 1 \in DOMAIN ring /\ i \in Nat /\ i >= 1 /\ Returned(i + 1, h, t, asked)
  BY <1>2, <1>6 DEF Returned
<1>7. SilentWire'
  <2>1. ASSUME NEW h \in Hosts, NEW t \in Nat, NEW n \in Nat, last_wire'[h] # None => last_wire'[h] < t
        PROVE  ~Shown(h, t, n)'
    <3>1. n + 2 \in Nat /\ n + 2 >= n + 1 /\ n + 2 >= 2
      OBVIOUS
    <3>2. ~Shown(h, t, n + 2)
      BY <1>1, <2>1, <3>1 DEF WireInv, SilentWire
    <3> QED
      BY <3>1, <3>2, SilentFolds
  <2>2. ASSUME NEW i \in DOMAIN ring', NEW h \in Hosts, NEW t \in Nat, Returned(i, h, t, FALSE)'
        PROVE  ~Shown(h, t, i)'
    <3>1. i + 1 \in DOMAIN ring /\ i \in Nat /\ i >= 1 /\ Returned(i + 1, h, t, FALSE)
      BY <1>6, <2>2
    <3>2. ~Shown(h, t, i + 1)
      BY <3>1 DEF WireInv, SilentWire
    <3>3. i + 1 \in Nat /\ i + 1 >= i + 1 /\ i + 1 >= 2
      BY <3>1
    <3> QED
      BY <3>1, <3>2, <3>3, SilentFolds
  <2> QED
    BY <2>1, <2>2 DEF SilentWire
<1>8. ShownWire'
  <2>1. ASSUME ~missing', ~displaced', NEW h \in Hosts, NEW n \in Nat,
               last_wire'[h] # None, Resolves[h] # {}, n > Len(ring'), NEW t \in Ts, t <= last_wire'[h]
        PROVE  Shown(h, t, n)'
    <3>1. n + 1 \in Nat /\ n + 1 > Len(ring) /\ n + 1 <= n + 1 /\ t \in Nat
      BY <1>2, <2>1 DEF Ts
    <3>2. Shown(h, t, n + 1)
      BY <1>1, <2>1, <3>1 DEF WireInv, ShownWire
    <3> QED
      BY <2>1, <3>1, <3>2, ShownFolds DEF WireInv
  <2>2. ASSUME ~missing', ~displaced', NEW i \in DOMAIN ring', NEW h \in Hosts, NEW t \in Nat,
               Returned(i, h, t, TRUE)'
        PROVE  Resolves[h] # {} /\ Shown(h, t, i)'
    <3>1. i + 1 \in DOMAIN ring /\ i \in Nat /\ Returned(i + 1, h, t, TRUE)
      BY <1>6, <2>2
    <3>3. i + 1 \in Nat /\ i + 1 <= i + 1
      BY <3>1
    <3>2. Resolves[h] # {} /\ Shown(h, t, i + 1)
      BY <1>1, <2>2, <3>1 DEF WireInv, ShownWire
    <3> QED
      BY <2>2, <3>1, <3>2, <3>3, ShownFolds DEF WireInv
  <2> QED
    BY <2>1, <2>2 DEF ShownWire
<1> QED
  BY <1>3, <1>4, <1>5, <1>7, <1>8 DEF WireInv

LEMMA WireInit == Init => WireInv
<1> SUFFICES ASSUME Init PROVE WireInv
  OBVIOUS
<1>1. DOMAIN ring = {} /\ \A p \in Callers : calls[p] = None
  BY DEF Init
<1>2. ASSUME NEW h \in Hosts PROVE last_wire[h] = None
  BY DEF Init
<1>3. \A h, t, n : ~Shown(h, t, n)
  BY <1>1 DEF Init, Shown
<1> QED
  BY <1>1, <1>2, <1>3 DEF WireInv, Ordered, MapsBehind, KeysOwn, Pairing, SilentWire, ShownWire, Init

LEMMA WireStep == Inv /\ WireInv /\ [Next]_vars => WireInv'
<1> SUFFICES ASSUME Inv, WireInv, [Next]_vars PROVE WireInv'
  OBVIOUS
<1>1. CASE \E p \in Callers :
             \/ \E h \in Hosts : StartCall(p, h)
             \/ \E k \in Keys : SendQuery(p, k)
             \/ Answer(p)
             \/ \E ok \in BOOLEAN : Return(p, ok)
  BY <1>1, QuietWire, SendQueryWire, AnswerWire, ReturnWire
<1>2. CASE Fold
  BY <1>2, FoldWire
<1>3. CASE UNCHANGED <<world, dns, ghosts>>
  BY <1>3 DEF world, dns, ghosts, WireInv, Ordered, MapsBehind, Past, KeysOwn, Pairing, Awaited,
     SilentWire, ShownWire, Shown, Returned
<1> QED
  BY <1>1, <1>2, <1>3 DEF Next, Fold, Connect, ReportOp, ReportConnection, vars

(* What the fold of a return finds on the wire is what the return knew.    *)
LEMMA VerdictStep ==
    ASSUME Inv, WireInv, FoldGetaddrinfo, ~missing, ~displaced, Head(ring).ok
    PROVE  gai'[Head(ring).host].cache_hit = ~Head(ring).asked
<1> DEFINE e == Head(ring)
           start == SatSub(e.ts, e.latency)
           sawWire == ResolvedInWindow(e.host, start, e.ts) \/ PendingInWindow(e.host, start, e.ts)
           g == [latency |-> e.latency, cache_hit |-> ~sawWire, ts |-> e.ts]
           map == [gai EXCEPT ![e.host] = g]
           stamp == [h \in Present(map) |-> map[h].ts]
<1>1. /\ RingTyped /\ ring # <<>> /\ ring' = Tail(ring) /\ e.kind = "getaddrinfo"
      /\ OnGetaddrinfo(e.host, e.ok, e.latency, e.ts)
  BY DEF Inv, FoldGetaddrinfo
<1>2. e = ring[1] /\ 1 \in DOMAIN ring
  BY <1>1, RingFolds
<1>3. e.host \in Hosts /\ e.ts \in Nat /\ e.latency \in Nat /\ start \in Nat /\ e.asked \in BOOLEAN
  BY <1>1, <1>2, EventAt
<1>4. PICK V \in Victims(Present(map), DNS_MAP_CAP, stamp, HostRank, {e.host}) :
        gai' = Without(map, V)
  BY <1>1 DEF OnGetaddrinfo
<1>5. gai'[e.host].cache_hit = ~sawWire
  <2>1. map[e.host] = g /\ e.host \in DOMAIN map
    BY <1>3 DEF Inv, GaiTyped
  <2>2. g.cache_hit = ~sawWire
    OBVIOUS
  <2> HIDE DEF g, map, stamp, sawWire
  <2>3. e.host \notin V
    BY <1>4, VictimsSpareKeep
  <2> QED
    BY <1>4, <2>1, <2>2, <2>3 DEF Without
<1>6. Returned(1, e.host, start, e.asked)
  BY <1>1, <1>2 DEF Returned
<1>7. \A j \in DOMAIN ring : ~(j < 1)
  BY <1>1, EventAt
<1>8. Shown(e.host, start, 1) <=> sawWire
  <2>1. ASSUME NEW k \in Keys, pending_dns[k] # None
        PROVE  pending_dns[k].query_ts \in start .. e.ts <=> pending_dns[k].query_ts >= start
    BY <1>2, <1>3, <2>1 DEF Inv, PendingTyped, PendingQuery, Ts, WireInv, MapsBehind, Past
  <2>2. ASSUME NEW ip \in Ips, resolutions[ip] # None
        PROVE  /\ resolutions[ip].query_ts <= e.ts
               /\ start <= resolutions[ip].resolved_ts <=> resolutions[ip].resolved_ts >= start
    BY <1>2, <1>3, <2>2 DEF Inv, ResolutionsTyped, Resolution, Ts, WireInv, MapsBehind, Past
  <2> HIDE DEF start, e
  <2> QED
    BY <1>7, <2>1, <2>2 DEF Shown, ResolvedInWindow, PendingInWindow
<1>9. CASE e.asked
  <2>1. Returned(1, e.host, start, TRUE)
    BY <1>3, <1>6, <1>9
  <2>2. Shown(e.host, start, 1)
    BY <1>2, <1>3, <2>1 DEF WireInv, ShownWire
  <2> HIDE DEF sawWire
  <2> QED
    BY <1>5, <1>8, <1>9, <2>2
<1>10. CASE ~e.asked
  <2>1. Returned(1, e.host, start, FALSE)
    BY <1>3, <1>6, <1>10
  <2>2. ~Shown(e.host, start, 1)
    BY <1>2, <1>3, <2>1 DEF WireInv, SilentWire
  <2> HIDE DEF sawWire
  <2> QED
    BY <1>5, <1>8, <1>10, <2>2
<1> QED
  BY <1>9, <1>10

(* A call is reported as a cache hit exactly when nothing of its name was  *)
(* on the wire while it ran, as long as no event was lost, no entry        *)
(* evicted and none displaced by another name; the delay of the fold and   *)
(* the reuse of sockets and transaction ids do not matter.                 *)
THEOREM HitsAreTrue == Spec => HitIffNotAsked
<1> DEFINE Act == (FoldGetaddrinfo /\ ~missing /\ ~displaced) =>
                     LET e == Head(ring)
                     IN  e.ok => gai'[e.host].cache_hit = ~e.asked
<1>1. Inv /\ WireInv => Act
  BY VerdictStep
<1>2. Inv /\ WireInv /\ [Next]_vars => [Act]_vars
  BY <1>1
<1> HIDE DEF Act
<1>3. Spec => [][Act]_vars
  BY <1>2, InitInv, NextInv, WireInit, WireStep, PTL DEF Spec
<1> QED
  BY <1>3 DEF HitIffNotAsked, Act
=============================================================================
