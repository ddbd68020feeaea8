---------------------------- MODULE CaptureProofs ----------------------------
(***************************************************************************)
(* The capture path for every number of connections, pointers, fds and     *)
(* events, and rings of any capacity. What the fold learns of a connection *)
(* it learns from events that carry a recycled name; the proofs rest on    *)
(* three facts about the lives of a name:                                  *)
(*   - a pointer's earlier lives are dead, an fd's earlier lives closed;   *)
(*   - each ring keeps the events of one name in the order of its lives;   *)
(*   - what the correlator holds under a name is of a life no later than   *)
(*     that of any event of the name still queued.                         *)
(***************************************************************************)
EXTENDS Capture, CorrelatorProofs

KernelTyped ==
    /\ sock \in [Gens -> Socket \cup {None}]
    /\ clock \in Ts
    /\ tid_cookie \in [Tgids \X Threads -> Cookies \cup {None}]
    /\ events \in Seq(Event)
    /\ tls_events \in Seq(Event)

GhostsTyped ==
    /\ op_gen \in [OpIds -> Gens \cup {None}]
    /\ op_bio \in [OpIds -> Cookies \cup {None}]
    /\ conn_gen \in [Cookies -> Gens \cup {None}]
    /\ tls_gen \in [Cookies -> Gens \cup {None}]
    /\ link_gen \in [Keys -> Gens \cup {None}]

(* Two generations of one pointer, and of one fd of a process. *)
SamePointer(g, h) == sock[g].cookie = sock[h].cookie
SameFd(g, h)      == LinkKey(g) = LinkKey(h)

(* Connections are made in order, each after its name's previous life.     *)
Lives ==
    \A g \in Gens : sock[g] # None =>
        /\ sock[g].syn_ts < clock
        /\ sock[g].http = "body" => MaxBody >= 1
        /\ \A h \in Gens : h < g => /\ sock[h] # None
                                    /\ SamePointer(g, h) => ~HoldsPointer(h)
                                    /\ SameFd(g, h) => ~HoldsFd(h)

-----------------------------------------------------------------------------
(* The critical ring *)

Critical(e) ==
    /\ e.kind \in {"connect", "hello", "server_hello", "close"}
    /\ sock[e.gen] # None
    /\ e.kind = "close" =>
          /\ ~HoldsPointer(e.gen) /\ 0 < e.ts /\ e.ts < clock
          /\ \A g \in Gens : (sock[g] # None /\ g > e.gen /\ SamePointer(g, e.gen)) =>
                e.ts < sock[g].syn_ts

(* The ring keeps the events of a pointer in the order of its lives.       *)
PointerOrder(q) ==
    \A i, j \in DOMAIN q :
        (i < j /\ SamePointer(q[i].gen, q[j].gen)) => q[i].gen <= q[j].gen

(* What is held of a pointer is of no later life than what is queued.      *)
NotAhead(gen_of) ==
    \A c \in Cookies : gen_of[c] # None =>
        /\ sock[gen_of[c]] # None /\ sock[gen_of[c]].cookie = c
        /\ \A i \in DOMAIN events :
              sock[events[i].gen].cookie = c => gen_of[c] <= events[i].gen

CriticalInv ==
    /\ \A i \in DOMAIN events : Critical(events[i])
    /\ PointerOrder(events)
    /\ NotAhead(conn_gen)
    /\ NotAhead(tls_gen)
    /\ \A c \in Cookies : /\ conns[c] # None => conn_gen[c] # None
                          /\ tls[c] # None => tls_gen[c] # None

-----------------------------------------------------------------------------
(* The plaintext ring *)

Plaintext(e) ==
    /\ e.kind \in {"conn_id", "write", "head", "body"}
    /\ sock[e.gen] # None
    /\ e.kind = "conn_id" => e.ts = sock[e.gen].syn_ts
    /\ e.kind = "body" => MaxBody >= 1
    /\ sock[e.gen].observed => e.bio = None

FdOrder(q) ==
    \A i, j \in DOMAIN q :
        (i < j /\ SameFd(q[i].gen, q[j].gen)) => q[i].gen <= q[j].gen

(* A link is that of the last connection announced on its fd.              *)
LinkOf(k) ==
    /\ link_gen[k] # None => /\ sock[link_gen[k]] # None /\ LinkKey(link_gen[k]) = k
                             /\ \A i \in DOMAIN tls_events :
                                   LinkKey(tls_events[i].gen) = k
                                     => link_gen[k] <= tls_events[i].gen
    /\ fd_links[k] # None => /\ link_gen[k] # None
                             /\ fd_links[k].cookie = sock[link_gen[k]].cookie
                             /\ fd_links[k].ts = sock[link_gen[k]].syn_ts

LinkInv ==
    /\ \A i \in DOMAIN tls_events : Plaintext(tls_events[i])
    /\ FdOrder(tls_events)
    /\ \A k \in Keys : LinkOf(k)

(* What of g is in the first n events of the plaintext ring.               *)
Ahead(kind, g, n) ==
    \E j \in DOMAIN tls_events : j < n /\ tls_events[j].kind = kind /\ tls_events[j].gen = g

(* While nothing is lost, a connection's conn_id is folded first.          *)
Announced(g, n) == link_gen[LinkKey(g)] = g \/ Ahead("conn_id", g, n)
AnnouncedFirst ==
    /\ \A g \in Gens : HoldsFd(g) => Announced(g, Len(tls_events) + 1)
    /\ \A i \in DOMAIN tls_events :
          tls_events[i].kind # "conn_id" => Announced(tls_events[i].gen, i)

(* An op in flight is of the connection whose name its slot goes by, and   *)
(* carries the cookie that was stamped on its request.                     *)
OpenIsOwn ==
    \A k \in Keys : HasOpen(k) =>
        LET g == op_gen[ops[k].open.id]
        IN  /\ g \in Gens /\ sock[g] # None /\ PlainKey(g) = k
            /\ ops[k].open.cookie = op_bio[ops[k].open.id]
            /\ sock[g].observed => link_gen[k] = g /\ op_bio[ops[k].open.id] = None

(* A slot that has numbered a request has one of the life it is in.        *)
Predecessor(i) == \E j \in OpIds : j < i /\ op_gen[j] = op_gen[i]
SlotsAreOwn ==
    \A k \in Keys : k[2] # 0 =>
        /\ ops[k] # None => \E j \in OpIds : j <= op_counter /\ op_gen[j] = link_gen[k]
        /\ (HasOpen(k) /\ ops[k].open.seq > 0) => Predecessor(ops[k].open.id)

(* The writer of a recorded request is known. *)
WritersKnown ==
    \A i \in OpIds : /\ op_gen[i] # None => i <= op_counter /\ sock[op_gen[i]] # None
                     /\ i <= op_counter => op_gen[i] # None

(* Requests of one pointer are folded in the order of its lives, and the   *)
(* shared slot of unobserved fds holds the latest life of its op's.        *)
Wrote(g) == \E i \in OpIds : op_gen[i] = g
WritesInOrder ==
    /\ PointerOrder(tls_events)
    /\ \A i \in OpIds, n \in DOMAIN tls_events :
          (op_gen[i] # None /\ SamePointer(op_gen[i], tls_events[n].gen)) =>
              op_gen[i] <= tls_events[n].gen
    /\ \A k \in Keys, i \in OpIds :
          (/\ HasOpen(k) /\ op_gen[i] # None /\ PlainKey(op_gen[i]) = k
           /\ SamePointer(op_gen[i], op_gen[ops[k].open.id])) =>
              op_gen[i] <= op_gen[ops[k].open.id]

(* A response is read after the request was written. *)
AskedFirst ==
    /\ \A g \in Gens : (sock[g] # None /\ sock[g].http # "idle") =>
          Wrote(g) \/ Ahead("write", g, Len(tls_events) + 1)
    /\ \A i \in DOMAIN tls_events :
          tls_events[i].kind \in {"head", "body"} =>
              Wrote(tls_events[i].gen) \/ Ahead("write", tls_events[i].gen, i)

-----------------------------------------------------------------------------
(* Rings *)

LEMMA OfferIs ==
    ASSUME NEW q \in Seq(Event), NEW cap, NEW e \in Event
    PROVE  LET r == Offer(q, cap, e)
           IN  /\ r \in Seq(Event) /\ Len(q) <= Len(r) /\ Len(r) <= Len(q) + 1
               /\ DOMAIN q \subseteq DOMAIN r /\ \A i \in DOMAIN q : r[i] = q[i]
               /\ \A i \in DOMAIN r : i \in DOMAIN q \/ (i = Len(q) + 1 /\ r[i] = e)
               /\ Len(q) < cap => Len(r) = Len(q) + 1 /\ r[Len(r)] = e
  BY DEF Offer

LEMMA TailIs ==
    ASSUME NEW q \in Seq(Event), q # <<>>
    PROVE  /\ Tail(q) \in Seq(Event) /\ Len(Tail(q)) = Len(q) - 1
           /\ 1 \in DOMAIN q /\ Head(q) = q[1] /\ Head(q) \in Event
           /\ \A i \in DOMAIN Tail(q) : i \in Nat /\ i + 1 \in DOMAIN q /\ Tail(q)[i] = q[i + 1]
           /\ \A i \in DOMAIN q : i # 1 => i - 1 \in DOMAIN Tail(q) /\ Tail(q)[i - 1] = q[i]
  OBVIOUS

LEMMA DomainIs ==
    ASSUME NEW q \in Seq(Event)
    PROVE  /\ Len(q) \in Nat /\ DOMAIN q = 1 .. Len(q)
           /\ \A i \in DOMAIN q : i \in Nat /\ q[i] \in Event /\ q[i].gen \in Gens /\ q[i].ts \in Ts
<1>1. Len(q) \in Nat /\ DOMAIN q = 1 .. Len(q) /\ \A i \in 1 .. Len(q) : q[i] \in Event
  OBVIOUS
<1>2. \A e \in Event : e.gen \in Gens /\ e.ts \in Ts
  BY DEF Event
<1> QED
  BY <1>1, <1>2

LEMMA EmittedTyped ==
    ASSUME KernelTyped, NEW g \in Gens, NEW target \in 0 .. MaxBody,
           NEW kind \in {"connect", "hello", "server_hello", "close",
                         "conn_id", "write", "head", "body"},
           NEW bio \in Cookies \cup {None}
    PROVE  LET e == Emitted(kind, g, target, bio)
           IN  /\ e \in Event /\ e.kind = kind /\ e.gen = g
               /\ e.ts = clock /\ e.bio = bio
  BY DEF Emitted, Event, KernelTyped

-----------------------------------------------------------------------------
(* The kernel: a connection keeps its names, and gives them up for good.   *)

SameLife(g) ==
    /\ sock'[g] # None
    /\ sock'[g].tgid = sock[g].tgid /\ sock'[g].fd = sock[g].fd
    /\ sock'[g].cookie = sock[g].cookie /\ sock'[g].observed = sock[g].observed
    /\ sock'[g].syn_ts = sock[g].syn_ts
    /\ HoldsFd(g)' => HoldsFd(g)
    /\ HoldsPointer(g)' => HoldsPointer(g)

SockMoved ==
    /\ clock' >= clock
    /\ \A g \in Gens : sock[g] # None => SameLife(g)
    /\ \A g \in Gens : (sock[g] = None /\ sock'[g] # None) => sock'[g].syn_ts = clock

LEMMA SockTyped ==
    ASSUME KernelTyped, NEW g \in Gens, sock[g] # None
    PROVE  /\ sock[g] \in Socket
           /\ sock[g].tgid \in Tgids /\ sock[g].fd \in Fds \ {0} /\ sock[g].cookie \in Cookies
           /\ sock[g].observed \in BOOLEAN /\ sock[g].syn_ts \in Ts
           /\ LinkKey(g) \in Keys /\ LinkKey(g)[2] # 0
  BY CaptureAssumption DEF KernelTyped, Socket, LinkKey, Keys

LEMMA SocketMoves ==
    ASSUME KernelTyped, Lives, NEW g \in Gens, sock[g] # None, NEW s \in Socket,
           s.tgid = sock[g].tgid, s.fd = sock[g].fd, s.cookie = sock[g].cookie,
           s.observed = sock[g].observed, s.syn_ts = sock[g].syn_ts,
           s.phase \in {"syn", "open"} => HoldsFd(g),
           s.phase # "dead" => HoldsPointer(g),
           s.http = "body" => MaxBody >= 1,
           sock' = [sock EXCEPT ![g] = s], clock' \in Ts, clock' >= clock
    PROVE  SockMoved /\ Lives' /\ sock' \in [Gens -> Socket \cup {None}]
<1>1. /\ sock \in [Gens -> Socket \cup {None}] /\ clock \in Nat /\ clock' \in Nat
      /\ sock' \in [Gens -> Socket \cup {None}]
      /\ sock'[g] = s /\ \A h \in Gens \ {g} : sock'[h] = sock[h]
      /\ s # None
  BY CaptureAssumption DEF KernelTyped, Ts
<1>2. \A h \in Gens : sock[h] # None => SameLife(h)
  BY <1>1 DEF SameLife, HoldsFd, HoldsPointer
<1>3. \A h \in Gens : sock[h] = None <=> sock'[h] = None
  BY <1>1
<1>4. SockMoved
  BY <1>2, <1>3 DEF SockMoved
<1>5. ASSUME NEW a \in Gens, sock'[a] # None
      PROVE  sock'[a].syn_ts < clock' /\ (sock'[a].http = "body" => MaxBody >= 1)
  <2>1. sock'[a].syn_ts = sock[a].syn_ts /\ sock[a].syn_ts < clock /\ sock[a].syn_ts \in Nat
    BY <1>2, <1>3, <1>5, SockTyped DEF SameLife, Lives, Ts
  <2>2. sock'[a].http = "body" => MaxBody >= 1
    BY <1>1, <1>3, <1>5 DEF Lives
  <2> QED
    BY <1>1, <2>1, <2>2
<1>6. ASSUME NEW a \in Gens, sock'[a] # None, NEW b \in Gens, b < a
      PROVE  /\ sock'[b] # None
             /\ SamePointer(a, b)' => ~HoldsPointer(b)'
             /\ SameFd(a, b)' => ~HoldsFd(b)'
  <2>1. sock[a] # None /\ sock[b] # None /\ SameLife(a) /\ SameLife(b)
    BY <1>2, <1>3, <1>6 DEF Lives
  <2>2. /\ SamePointer(a, b) => ~HoldsPointer(b)
        /\ SameFd(a, b) => ~HoldsFd(b)
    BY <1>6, <2>1 DEF Lives
  <2> QED
    BY <2>1, <2>2 DEF SameLife, SamePointer, SameFd, LinkKey
<1>7. Lives'
  BY <1>5, <1>6 DEF Lives
<1> QED
  BY <1>1, <1>4, <1>7

LEMMA ConnectMoves ==
    ASSUME KernelTyped, Lives, NEW g \in Gens, NEW t \in Tgids, NEW f \in Fds \ {0},
           NEW c \in Cookies, NEW o \in Observed, Connect(g, t, f, c, o)
    PROVE  /\ SockMoved /\ Lives' /\ KernelTyped'
           /\ sock[g] = None /\ HoldsFd(g)' /\ sock'[g].http = "idle"
           /\ \A h \in Gens \ {g} : sock'[h] = sock[h]
           /\ sock'[g].syn_ts = clock /\ clock' = clock + 1
<1> DEFINE s == [tgid |-> t, fd |-> f, cookie |-> c, observed |-> o,
                 syn_ts |-> clock, phase |-> "syn", http |-> "idle", hello |-> FALSE]
<1>1. /\ sock \in [Gens -> Socket \cup {None}] /\ clock \in Ts /\ clock \in Nat
      /\ clock < MaxTs /\ clock' = clock + 1 /\ clock' \in Ts
      /\ sock' = [sock EXCEPT ![g] = s] /\ sock[g] = None
      /\ tls_events' = Offer(tls_events, TlsCap, Emitted("conn_id", g, 0, None))
      /\ events' = events /\ tid_cookie' = tid_cookie
  BY CorrelatorAssumption DEF Connect, EmitTls, KernelTyped, Ts
<1>2. s \in Socket /\ s # None
  <2>1. s \in Socket
    BY <1>1 DEF Socket, Phases
  <2> QED
    BY <2>1, CaptureAssumption
<1>3. sock' \in [Gens -> Socket \cup {None}] /\ sock'[g] = s
      /\ \A h \in Gens \ {g} : sock'[h] = sock[h]
  BY <1>1, <1>2
<1>4. KernelTyped'
  <2>1. 0 \in 0 .. MaxBody
    BY CorrelatorAssumption
  <2>2. Emitted("conn_id", g, 0, None) \in Event
    BY <2>1, EmittedTyped
  <2>3. tls_events' \in Seq(Event)
    BY <1>1, <2>2, OfferIs DEF KernelTyped
  <2> QED
    BY <1>1, <1>3, <2>3 DEF KernelTyped
<1>5. \A h \in Gens : sock[h] # None => h # g /\ SameLife(h)
  BY <1>1, <1>3 DEF SameLife, HoldsFd, HoldsPointer
<1>6. SockMoved
  BY <1>1, <1>3, <1>5 DEF SockMoved
<1>7. \A h \in Gens : h < g => sock[h] # None
  BY DEF Connect
<1>8. \A h \in Gens : h > g => sock[h] = None
  BY <1>1 DEF Lives, Gens
<1>9. ASSUME NEW a \in Gens, sock'[a] # None
      PROVE  sock'[a].syn_ts < clock' /\ (sock'[a].http = "body" => MaxBody >= 1)
  <2>1. CASE a = g
    BY <1>1, <1>3, <2>1
  <2>2. CASE a # g
    <3>1. /\ sock'[a] = sock[a] /\ sock[a].syn_ts < clock /\ sock[a].syn_ts \in Nat
          /\ sock[a].http = "body" => MaxBody >= 1
      BY <1>3, <1>9, <2>2, SockTyped DEF Lives, Ts
    <3> QED
      BY <1>1, <3>1
  <2> QED
    BY <2>1, <2>2
<1>10. ASSUME NEW a \in Gens, sock'[a] # None, NEW b \in Gens, b < a
       PROVE  /\ sock'[b] # None
              /\ SamePointer(a, b)' => ~HoldsPointer(b)'
              /\ SameFd(a, b)' => ~HoldsFd(b)'
  <2>1. CASE a = g
    <3>1. b # g /\ sock[b] # None /\ sock'[b] = sock[b]
      BY <1>3, <1>7, <1>10, <2>1 DEF Gens
    <3>2. /\ HoldsFd(b) => LinkKey(b) # <<t, f>>
          /\ HoldsPointer(b) => sock[b].cookie # c
      BY DEF Connect
    <3> QED
      BY <1>3, <2>1, <3>1, <3>2 DEF SamePointer, SameFd, LinkKey, HoldsFd, HoldsPointer
  <2>2. CASE a # g
    <3>1. sock[a] # None /\ sock'[a] = sock[a]
      BY <1>3, <1>10, <2>2
    <3>2. b # g
      BY <1>8, <1>10, <3>1 DEF Gens
    <3>3. sock'[b] = sock[b] /\ sock[b] # None
      BY <1>3, <1>10, <3>1, <3>2 DEF Lives
    <3>4. /\ SamePointer(a, b) => ~HoldsPointer(b)
          /\ SameFd(a, b) => ~HoldsFd(b)
      BY <1>10, <3>1 DEF Lives
    <3> QED
      BY <3>1, <3>3, <3>4 DEF SamePointer, SameFd, LinkKey, HoldsFd, HoldsPointer
  <2> QED
    BY <2>1, <2>2
<1>11. Lives'
  BY <1>9, <1>10 DEF Lives
<1>12. HoldsFd(g)' /\ sock'[g].http = "idle" /\ sock'[g].syn_ts = clock
  BY <1>2, <1>3 DEF HoldsFd
<1> QED
  BY <1>1, <1>3, <1>4, <1>6, <1>11, <1>12

(* What one step of the kernel does on behalf of connection g. *)
Grown(q, r, g) ==
    /\ DOMAIN q \subseteq DOMAIN r /\ \A i \in DOMAIN q : r[i] = q[i]
    /\ \A i \in DOMAIN r \ DOMAIN q : i > Len(q) /\ r[i].gen = g

EmittedCritical(g) ==
    /\ Grown(events, events', g)
    /\ \A i \in DOMAIN events' \ DOMAIN events :
          /\ HoldsPointer(g)
          /\ \A h \in Gens : sock'[h] # None => sock[h] # None
          /\ events'[i].kind \in {"connect", "hello", "server_hello", "close"}
          /\ events'[i].kind = "close" =>
                ~HoldsPointer(g)' /\ events'[i].ts = clock /\ clock < clock'

Sent(kind, g) ==
    \E i \in DOMAIN tls_events' \ DOMAIN tls_events :
        tls_events'[i].kind = kind /\ tls_events'[i].gen = g

EmittedPlain(g) ==
    /\ Grown(tls_events, tls_events', g)
    /\ Len(tls_events') - Len(tls_events) <= clock' - clock
    /\ \A i \in DOMAIN tls_events' \ DOMAIN tls_events :
          /\ HoldsFd(g)'
          /\ tls_events'[i].kind \in {"conn_id", "write", "head", "body"}
          /\ tls_events'[i].kind = "conn_id" => tls_events'[i].ts = sock'[g].syn_ts
          /\ tls_events'[i].kind # "conn_id" => HoldsFd(g)
          /\ tls_events'[i].kind = "body" => MaxBody >= 1
          /\ tls_events'[i].kind \in {"head", "body"} => sock[g].http # "idle"
          /\ sock'[g].observed => tls_events'[i].bio = None
    /\ \A h \in Gens : HoldsFd(h)' =>
          \/ HoldsFd(h)
          \/ h = g /\ clock < clock' /\ (Len(tls_events) < TlsCap => Sent("conn_id", g))
    /\ \A h \in Gens : (sock'[h] # None /\ sock'[h].http # "idle") =>
          \/ sock[h] # None /\ sock[h].http # "idle"
          \/ h = g /\ clock < clock' /\ (Len(tls_events) < TlsCap => Sent("write", g))

KernelStep(g) ==
    /\ UNCHANGED vars /\ UNCHANGED ghosts
    /\ KernelTyped' /\ Lives' /\ SockMoved
    /\ EmittedCritical(g) /\ EmittedPlain(g)

(* A step of which the rings and the sockets show nothing: a thread's      *)
(* cookie moves or is forgotten.                                           *)
Still ==
    /\ UNCHANGED <<vars, ghosts, sock, clock, rings>>
    /\ tid_cookie' \in [Tgids \X Threads -> Cookies \cup {None}]

LEMMA SameRing == ASSUME NEW q \in Seq(Event), NEW g PROVE Grown(q, q, g)
  BY DEF Grown

LEMMA OfferGrows ==
    ASSUME NEW q \in Seq(Event), NEW cap, NEW e \in Event
    PROVE  LET r == Offer(q, cap, e)
           IN  Grown(q, r, e.gen) /\ \A i \in DOMAIN r \ DOMAIN q : r[i] = e
<1> DEFINE r == Offer(q, cap, e)
<1>1. /\ DOMAIN q \subseteq DOMAIN r /\ \A i \in DOMAIN q : r[i] = q[i]
      /\ \A i \in DOMAIN r \ DOMAIN q : i = Len(q) + 1 /\ r[i] = e
  BY OfferIs
<1>2. Len(q) \in Nat
  OBVIOUS
<1> HIDE DEF r
<1>3. \A i \in DOMAIN r \ DOMAIN q : i > Len(q)
  BY <1>1, <1>2
<1> QED
  BY <1>1, <1>3 DEF Grown, r

LEMMA EmitEventIs ==
    ASSUME KernelTyped, NEW g \in Gens, HoldsPointer(g),
           NEW kind \in {"connect", "hello", "server_hello", "close"},
           EmitEvent(kind, g), kind = "close" => ~HoldsPointer(g)',
           \A h \in Gens : sock'[h] # None => sock[h] # None
    PROVE  /\ clock' = clock + 1 /\ clock' \in Ts /\ events' \in Seq(Event)
           /\ tls_events' = tls_events /\ tid_cookie' = tid_cookie /\ EmittedCritical(g)
<1>1. /\ clock < MaxTs /\ clock' = clock + 1 /\ clock \in Nat /\ clock' \in Ts
      /\ events' = Offer(events, EventsCap, Emitted(kind, g, 0, None))
      /\ tls_events' = tls_events /\ tid_cookie' = tid_cookie
  BY CorrelatorAssumption DEF EmitEvent, KernelTyped, Ts
<1>2. 0 \in 0 .. MaxBody
  BY CorrelatorAssumption
<1>3. PICK e \in Event : /\ e = Emitted(kind, g, 0, None)
                         /\ e.kind = kind /\ e.gen = g /\ e.ts = clock
  BY <1>2, EmittedTyped
<1>4. /\ events' \in Seq(Event) /\ Grown(events, events', g)
      /\ \A i \in DOMAIN events' \ DOMAIN events : events'[i] = e
  BY <1>1, <1>3, OfferIs, OfferGrows DEF KernelTyped
<1>5. EmittedCritical(g)
  BY <1>1, <1>3, <1>4 DEF EmittedCritical
<1> QED
  BY <1>1, <1>4, <1>5

LEMMA EmitTlsIs ==
    ASSUME KernelTyped, NEW g \in Gens, NEW target \in 0 .. MaxBody,
           NEW kind \in {"conn_id", "write", "head", "body"},
           NEW bio \in Cookies \cup {None}, EmitTls(kind, g, target, bio)
    PROVE  /\ clock' = clock + 1 /\ clock' \in Ts /\ tls_events' \in Seq(Event)
           /\ events' = events /\ tid_cookie' = tid_cookie
           /\ Grown(tls_events, tls_events', g)
           /\ Len(tls_events') - Len(tls_events) <= clock' - clock
           /\ \A i \in DOMAIN tls_events' \ DOMAIN tls_events :
                 /\ tls_events'[i].kind = kind /\ tls_events'[i].ts = clock
                 /\ tls_events'[i].bio = bio
           /\ Len(tls_events) < TlsCap => Sent(kind, g)
<1>1. /\ clock < MaxTs /\ clock' = clock + 1 /\ clock \in Nat /\ clock' \in Ts
      /\ tls_events' = Offer(tls_events, TlsCap, Emitted(kind, g, target, bio))
      /\ events' = events /\ tid_cookie' = tid_cookie
      /\ tls_events \in Seq(Event)
  BY CorrelatorAssumption DEF EmitTls, KernelTyped, Ts
<1>2. PICK e \in Event : /\ e = Emitted(kind, g, target, bio)
                         /\ e.kind = kind /\ e.gen = g /\ e.ts = clock /\ e.bio = bio
  BY EmittedTyped
<1>3. /\ tls_events' \in Seq(Event) /\ Grown(tls_events, tls_events', g)
      /\ \A i \in DOMAIN tls_events' \ DOMAIN tls_events : tls_events'[i] = e
  BY <1>1, <1>2, OfferIs, OfferGrows
<1>4. /\ Len(tls_events') <= Len(tls_events) + 1
      /\ Len(tls_events) < TlsCap => /\ Len(tls_events') = Len(tls_events) + 1
                                     /\ tls_events'[Len(tls_events')] = e
  BY <1>1, <1>2, OfferIs
<1>5. Len(tls_events') - Len(tls_events) <= clock' - clock
  BY <1>1, <1>3, <1>4
<1>6. ASSUME Len(tls_events) < TlsCap PROVE Sent(kind, g)
  <2> DEFINE n == Len(tls_events')
  <2>1. n \in DOMAIN tls_events' \ DOMAIN tls_events
    BY <1>1, <1>3, <1>4, <1>6
  <2> HIDE DEF n
  <2> QED
    BY <1>2, <1>3, <2>1 DEF Sent
<1> QED
  BY <1>1, <1>2, <1>3, <1>5, <1>6

LEMMA QuietPlain ==
    ASSUME KernelTyped, SockMoved, NEW g \in Gens, tls_events' = tls_events, clock' \in Ts,
           \A h \in Gens : sock'[h] # None => sock[h] # None /\ sock'[h].http = sock[h].http
    PROVE  EmittedPlain(g)
<1>1. tls_events \in Seq(Event) /\ clock' >= clock /\ clock \in Nat /\ clock' \in Nat
  BY CorrelatorAssumption DEF KernelTyped, SockMoved, Ts
<1>2. Grown(tls_events, tls_events', g) /\ DOMAIN tls_events' \ DOMAIN tls_events = {}
  BY <1>1, SameRing
<1>3. Len(tls_events') - Len(tls_events) <= clock' - clock
  <2>1. Len(tls_events) \in Nat
    BY <1>1
  <2>2. Len(tls_events') - Len(tls_events) = 0
    BY <2>1
  <2>3. 0 <= clock' - clock
    <3>1. clock' >= clock /\ clock \in Nat /\ clock' \in Nat
      BY <1>1
    <3>2. \A a, b \in Nat : b >= a => 0 <= b - a
      OBVIOUS
    <3> QED
      BY <3>1, <3>2
  <2> QED
    BY <2>2, <2>3
<1>4. \A h \in Gens : HoldsFd(h)' => HoldsFd(h)
  <2> SUFFICES ASSUME NEW h \in Gens, HoldsFd(h)' PROVE HoldsFd(h)
    OBVIOUS
  <2>1. sock[h] # None
    BY DEF HoldsFd
  <2> QED
    BY <2>1 DEF SockMoved, SameLife
<1> QED
  BY <1>2, <1>3, <1>4 DEF EmittedPlain

LEMMA QuietCritical ==
    ASSUME KernelTyped, NEW g \in Gens, events' = events
    PROVE  EmittedCritical(g)
<1>1. Grown(events, events', g) /\ DOMAIN events' \ DOMAIN events = {}
  BY SameRing DEF KernelTyped
<1> QED
  BY <1>1 DEF EmittedCritical

(* A step that changes one socket and its phase at most. *)
LEMMA PhaseStep ==
    ASSUME KernelTyped, Lives, NEW g \in Gens, sock[g] # None, NEW s \in Socket,
           s.tgid = sock[g].tgid, s.fd = sock[g].fd, s.cookie = sock[g].cookie,
           s.observed = sock[g].observed, s.syn_ts = sock[g].syn_ts, s.http = sock[g].http,
           s.phase \in {"syn", "open"} => HoldsFd(g),
           s.phase # "dead" => HoldsPointer(g),
           sock' = [sock EXCEPT ![g] = s], clock' \in Ts, clock' >= clock,
           tls_events' = tls_events, events' \in Seq(Event), EmittedCritical(g),
           tid_cookie' = tid_cookie, UNCHANGED vars, UNCHANGED ghosts
    PROVE  KernelStep(g)
<1>1. s.http = "body" => MaxBody >= 1
  BY DEF Lives
<1>2. SockMoved /\ Lives' /\ sock' \in [Gens -> Socket \cup {None}]
  BY <1>1, SocketMoves
<1>3. KernelTyped'
  BY <1>2 DEF KernelTyped
<1>4. \A h \in Gens : sock'[h] # None => sock[h] # None /\ sock'[h].http = sock[h].http
  BY DEF KernelTyped
<1> QED
  BY <1>2, <1>3, <1>4, QuietPlain DEF KernelStep

(* A step that emits a plaintext event and moves on the exchange.          *)
LEMMA HttpStep ==
    ASSUME KernelTyped, Lives, NEW g \in Gens, sock[g] # None, sock[g].phase = "open",
           NEW http \in {"idle", "sent", "body"}, http = "body" => MaxBody >= 1,
           NEW kind \in {"write", "head", "body"}, NEW target \in 0 .. MaxBody,
           kind # "write" => sock[g].http # "idle",
           kind = "body" => MaxBody >= 1,
           NEW bio \in Cookies \cup {None}, sock[g].observed => bio = None,
           sock' = [sock EXCEPT ![g].http = http], EmitTls(kind, g, target, bio),
           UNCHANGED vars, UNCHANGED ghosts
    PROVE  KernelStep(g)
<1> DEFINE s == [sock[g] EXCEPT !.http = http]
<1>1. sock[g] \in Socket /\ sock' = [sock EXCEPT ![g] = s]
  BY SockTyped
<1>2. /\ s \in Socket /\ s.http = http /\ s.phase = "open"
      /\ s.tgid = sock[g].tgid /\ s.fd = sock[g].fd /\ s.cookie = sock[g].cookie
      /\ s.observed = sock[g].observed /\ s.syn_ts = sock[g].syn_ts
  BY <1>1 DEF Socket
<1>3. HoldsFd(g) /\ HoldsPointer(g)
  BY DEF HoldsFd, HoldsPointer
<1>4. /\ clock' = clock + 1 /\ clock' \in Ts /\ tls_events' \in Seq(Event)
      /\ events' = events /\ tid_cookie' = tid_cookie /\ Grown(tls_events, tls_events', g)
      /\ Len(tls_events') - Len(tls_events) <= clock' - clock
      /\ \A i \in DOMAIN tls_events' \ DOMAIN tls_events :
            /\ tls_events'[i].kind = kind /\ tls_events'[i].ts = clock
            /\ tls_events'[i].bio = bio
      /\ Len(tls_events) < TlsCap => Sent(kind, g)
  BY EmitTlsIs
<1>5. clock' >= clock /\ clock < clock'
  BY <1>4 DEF KernelTyped, Ts
<1> HIDE DEF s
<1>6. SockMoved /\ Lives' /\ sock' \in [Gens -> Socket \cup {None}]
  BY <1>1, <1>2, <1>3, <1>4, <1>5, SocketMoves
<1>7. KernelTyped'
  BY <1>4, <1>6 DEF KernelTyped
<1>8. sock'[g] = s /\ sock'[g] # None /\ \A h \in Gens \ {g} : sock'[h] = sock[h]
  BY <1>1, <1>2, CaptureAssumption DEF KernelTyped
<1>9. HoldsFd(g)' /\ \A h \in Gens : HoldsFd(h)' => HoldsFd(h)
  BY <1>2, <1>3, <1>8 DEF HoldsFd
<1>10. EmittedPlain(g)
  <2>1. ASSUME NEW i \in DOMAIN tls_events' \ DOMAIN tls_events
        PROVE  /\ HoldsFd(g)'
               /\ tls_events'[i].kind \in {"conn_id", "write", "head", "body"}
               /\ tls_events'[i].kind = "conn_id" => tls_events'[i].ts = sock'[g].syn_ts
               /\ tls_events'[i].kind # "conn_id" => HoldsFd(g)
               /\ tls_events'[i].kind = "body" => MaxBody >= 1
               /\ tls_events'[i].kind \in {"head", "body"} => sock[g].http # "idle"
               /\ sock'[g].observed => tls_events'[i].bio = None
    BY <1>2, <1>3, <1>4, <1>8, <1>9, <2>1
  <2>2. ASSUME NEW h \in Gens, sock'[h] # None, sock'[h].http # "idle"
        PROVE  \/ sock[h] # None /\ sock[h].http # "idle"
               \/ h = g /\ clock < clock' /\ (Len(tls_events) < TlsCap => Sent("write", g))
    BY <1>4, <1>5, <1>8, <2>2
  <2> QED
    BY <1>4, <1>9, <2>1, <2>2 DEF EmittedPlain
<1>11. EmittedCritical(g)
  BY <1>4, QuietCritical
<1> QED
  BY <1>6, <1>7, <1>10, <1>11 DEF KernelStep

LEMMA ConnectStep ==
    ASSUME KernelTyped, Lives, NEW g \in Gens, NEW t \in Tgids, NEW f \in Fds \ {0},
           NEW c \in Cookies, NEW o \in Observed, Connect(g, t, f, c, o)
    PROVE  KernelStep(g)
<1>1. /\ SockMoved /\ Lives' /\ KernelTyped'
      /\ sock[g] = None /\ HoldsFd(g)' /\ sock'[g].http = "idle"
      /\ \A h \in Gens \ {g} : sock'[h] = sock[h]
      /\ sock'[g].syn_ts = clock /\ clock' = clock + 1
  BY ConnectMoves
<1>2. 0 \in 0 .. MaxBody
  BY CorrelatorAssumption
<1>3. /\ clock' \in Ts /\ tls_events' \in Seq(Event)
      /\ events' = events /\ Grown(tls_events, tls_events', g)
      /\ Len(tls_events') - Len(tls_events) <= clock' - clock
      /\ \A i \in DOMAIN tls_events' \ DOMAIN tls_events :
            /\ tls_events'[i].kind = "conn_id" /\ tls_events'[i].ts = clock
            /\ tls_events'[i].bio = None
      /\ Len(tls_events) < TlsCap => Sent("conn_id", g)
  <2>1. EmitTls("conn_id", g, 0, None)
    BY DEF Connect
  <2> QED
    BY <1>2, <2>1, EmitTlsIs
<1>4. EmittedPlain(g)
  <2>1. ASSUME NEW h \in Gens, HoldsFd(h)'
        PROVE  \/ HoldsFd(h)
               \/ h = g /\ clock < clock' /\ (Len(tls_events) < TlsCap => Sent("conn_id", g))
    BY <1>1, <1>3, <2>1 DEF HoldsFd, KernelTyped, Ts
  <2>2. ASSUME NEW h \in Gens, sock'[h] # None, sock'[h].http # "idle"
        PROVE  sock[h] # None /\ sock[h].http # "idle"
    BY <1>1, <2>2
  <2> QED
    BY <1>1, <1>3, <2>1, <2>2 DEF EmittedPlain
<1>5. EmittedCritical(g)
  BY <1>3, QuietCritical
<1>6. UNCHANGED vars /\ UNCHANGED ghosts
  BY DEF Connect
<1> QED
  BY <1>1, <1>4, <1>5, <1>6 DEF KernelStep

LEMMA StampTyped ==
    ASSUME KernelTyped, NEW g \in Gens, sock[g] # None, NEW n \in Threads
    PROVE  /\ PlainBio(g, n) \in Cookies \cup {None}
           /\ sock[g].observed => PlainBio(g, n) = None
<1>1. <<sock[g].tgid, n>> \in Tgids \X Threads
  BY SockTyped
<1> QED
  BY <1>1 DEF PlainBio, KernelTyped

LEMMA KernelSteps ==
    KernelTyped /\ Lives /\ KernelNext => Still \/ \E g \in Gens : KernelStep(g)
<1> SUFFICES ASSUME KernelTyped, Lives, KernelNext, ~Still PROVE \E g \in Gens : KernelStep(g)
  OBVIOUS
<1>a. ASSUME NEW t \in Tgids, NEW n \in Threads, NEW c \in Cookies \cup {None},
             tid_cookie' = [tid_cookie EXCEPT ![<<t, n>>] = c],
             UNCHANGED <<vars, ghosts, sock, clock, rings>>
      PROVE  FALSE
  BY <1>a DEF Still, KernelTyped
<1>b. ASSUME NEW t \in Tgids, NEW n \in Threads, ForgetThread(t, n) PROVE FALSE
  BY <1>a, <1>b DEF ForgetThread
<1>c. ASSUME NEW g \in Gens, NEW n \in Threads, SendRecord(g, n) PROVE FALSE
  <2>1. sock[g].tgid \in Tgids /\ sock[g].cookie \in Cookies
    BY <1>c, SockTyped DEF SendRecord
  <2> QED
    BY <1>a, <1>c, <2>1 DEF SendRecord
<1>1. PICK g \in Gens :
        \/ \E t \in Tgids, f \in Fds \ {0}, c \in Cookies, o \in Observed :
              Connect(g, t, f, c, o)
        \/ Establish(g) \/ Refuse(g) \/ ClientHello(g) \/ ServerHello(g)
        \/ CloseFd(g) \/ Destroy(g)
        \/ \E n \in Threads : Request(g, n)
        \/ \E n \in Threads : \E kind \in {"head", "body"} : ReceiveBody(g, n, kind)
        \/ \E n \in Threads : \E target \in 0 .. MaxBody : Respond(g, n, target)
  BY <1>b, <1>c DEF KernelNext
<1>t. ASSUME NEW kind \in {"connect", "hello", "server_hello", "close"}, EmitEvent(kind, g),
             sock[g] # None, HoldsPointer(g), NEW s \in Socket,
             s.tgid = sock[g].tgid, s.fd = sock[g].fd, s.cookie = sock[g].cookie,
             s.observed = sock[g].observed, s.syn_ts = sock[g].syn_ts, s.http = sock[g].http,
             s.phase \in {"syn", "open"} => HoldsFd(g),
             kind = "close" => s.phase = "dead",
             sock' = [sock EXCEPT ![g] = s], UNCHANGED vars, UNCHANGED ghosts
      PROVE  KernelStep(g)
  <2>1. sock'[g] = s
    BY <1>t DEF KernelTyped
  <2>2. kind = "close" => ~HoldsPointer(g)'
    BY <1>t, <2>1 DEF HoldsPointer
  <2>a. \A h \in Gens : sock'[h] # None => sock[h] # None
    BY <1>t DEF KernelTyped
  <2>3. /\ clock' = clock + 1 /\ clock' \in Ts /\ events' \in Seq(Event)
        /\ tls_events' = tls_events /\ tid_cookie' = tid_cookie /\ EmittedCritical(g)
    BY <1>t, <2>2, <2>a, EmitEventIs
  <2>4. clock' >= clock
    BY <2>3 DEF KernelTyped, Ts
  <2> QED
    BY <1>t, <2>3, <2>4, PhaseStep
<1>2. ASSUME NEW t \in Tgids, NEW f \in Fds \ {0}, NEW c \in Cookies, NEW o \in Observed,
             Connect(g, t, f, c, o)
      PROVE  KernelStep(g)
  BY <1>2, ConnectStep
<1>3. CASE Establish(g)
  <2> DEFINE s == [sock[g] EXCEPT !.phase = "open"]
  <2>1. /\ sock[g] # None /\ sock[g].phase = "syn" /\ EmitEvent("connect", g)
        /\ sock' = [sock EXCEPT ![g] = s] /\ UNCHANGED vars /\ UNCHANGED ghosts
    BY <1>3, SockTyped DEF Establish
  <2>2. /\ s \in Socket /\ s.tgid = sock[g].tgid /\ s.fd = sock[g].fd
        /\ s.cookie = sock[g].cookie /\ s.observed = sock[g].observed
        /\ s.syn_ts = sock[g].syn_ts /\ s.http = sock[g].http
    BY <2>1, SockTyped DEF Socket, Phases
  <2>3. HoldsFd(g) /\ HoldsPointer(g)
    BY <2>1 DEF HoldsFd, HoldsPointer
  <2> HIDE DEF s
  <2> QED
    BY <1>t, <2>1, <2>2, <2>3
<1>4. CASE Refuse(g)
  <2> DEFINE s == [sock[g] EXCEPT !.phase = "dead"]
             failed == [Emitted("connect", g, 0, None) EXCEPT !.ts = sock[g].syn_ts]
             closed == Emitted("close", g, 0, None)
             ring == Offer(events, EventsCap, failed)
  <2>1. /\ sock[g] # None /\ sock[g].phase = "syn"
        /\ sock' = [sock EXCEPT ![g] = s] /\ UNCHANGED vars /\ UNCHANGED ghosts
        /\ clock < MaxTs /\ clock' = clock + 1
        /\ tls_events' = tls_events /\ tid_cookie' = tid_cookie
        /\ events' = Offer(ring, EventsCap, closed)
    BY <1>4, SockTyped DEF Refuse
  <2>2. /\ s \in Socket /\ s.tgid = sock[g].tgid /\ s.fd = sock[g].fd
        /\ s.cookie = sock[g].cookie /\ s.observed = sock[g].observed
        /\ s.syn_ts = sock[g].syn_ts /\ s.http = sock[g].http /\ s.phase = "dead"
    BY <2>1, SockTyped DEF Socket, Phases
  <2>3. HoldsFd(g) /\ HoldsPointer(g)
    BY <2>1 DEF HoldsFd, HoldsPointer
  <2>4. clock' \in Ts /\ clock' >= clock /\ clock < clock'
    BY <2>1, CorrelatorAssumption DEF KernelTyped, Ts
  <2>5. ~HoldsPointer(g)'
    BY <2>1, <2>2 DEF HoldsPointer, KernelTyped
  <2>6. /\ failed \in Event /\ failed.gen = g /\ failed.kind = "connect"
        /\ closed \in Event /\ closed.gen = g /\ closed.kind = "close" /\ closed.ts = clock
    <3>1. 0 \in 0 .. MaxBody /\ sock[g].syn_ts \in Ts
      BY <2>1, SockTyped, CorrelatorAssumption
    <3>2. PICK e \in Event : /\ e = Emitted("connect", g, 0, None)
                             /\ e.kind = "connect" /\ e.gen = g
      BY <3>1, EmittedTyped
    <3>3. [e EXCEPT !.ts = sock[g].syn_ts] \in Event
      BY <3>1 DEF Event
    <3> QED
      BY <3>1, <3>2, <3>3, EmittedTyped DEF Event
  <2> HIDE DEF failed, closed, s
  <2>7. /\ ring \in Seq(Event) /\ Grown(events, ring, g)
        /\ \A i \in DOMAIN ring \ DOMAIN events : ring[i] = failed
    BY <2>6, OfferIs, OfferGrows DEF KernelTyped
  <2> HIDE DEF ring
  <2>8. /\ events' \in Seq(Event) /\ Grown(ring, events', g)
        /\ \A i \in DOMAIN events' \ DOMAIN ring : events'[i] = closed
    BY <2>1, <2>6, <2>7, OfferIs, OfferGrows
  <2>9. \A i \in DOMAIN events' \ DOMAIN events : events'[i] \in {failed, closed}
    BY <2>7, <2>8 DEF Grown
  <2>10. Grown(events, events', g)
    <3>1. /\ DOMAIN events = 1 .. Len(events) /\ Len(events) \in Nat
          /\ DOMAIN events' = 1 .. Len(events') /\ Len(events') \in Nat
      BY <2>8, DomainIs DEF KernelTyped
    <3>2. \A i \in DOMAIN events' \ DOMAIN events : i > Len(events)
      BY <3>1
    <3> QED
      BY <2>6, <2>7, <2>8, <2>9, <3>2 DEF Grown
  <2>11. \A h \in Gens : sock'[h] # None => sock[h] # None
    BY <2>1 DEF KernelTyped
  <2>12. EmittedCritical(g)
    BY <2>3, <2>4, <2>5, <2>6, <2>9, <2>10, <2>11 DEF EmittedCritical
  <2> QED
    BY <2>1, <2>2, <2>3, <2>4, <2>8, <2>12, PhaseStep
<1>5. CASE ClientHello(g)
  <2> DEFINE s == [sock[g] EXCEPT !.hello = TRUE]
  <2>1. /\ sock[g] # None /\ sock[g].phase = "open" /\ EmitEvent("hello", g)
        /\ sock' = [sock EXCEPT ![g] = s] /\ UNCHANGED vars /\ UNCHANGED ghosts
    BY <1>5, SockTyped DEF ClientHello
  <2>2. /\ s \in Socket /\ s.tgid = sock[g].tgid /\ s.fd = sock[g].fd
        /\ s.cookie = sock[g].cookie /\ s.observed = sock[g].observed
        /\ s.syn_ts = sock[g].syn_ts /\ s.http = sock[g].http
    BY <2>1, SockTyped DEF Socket, Phases
  <2>3. HoldsFd(g) /\ HoldsPointer(g)
    BY <2>1 DEF HoldsFd, HoldsPointer
  <2> HIDE DEF s
  <2> QED
    BY <1>t, <2>1, <2>2, <2>3
<1>6. CASE ServerHello(g)
  <2> DEFINE s == sock[g]
  <2>1. /\ sock[g] # None /\ sock[g].phase = "open" /\ EmitEvent("server_hello", g)
        /\ sock' = [sock EXCEPT ![g] = s] /\ UNCHANGED vars /\ UNCHANGED ghosts
    BY <1>6, SockTyped DEF ServerHello, KernelTyped
  <2>2. s \in Socket
    BY <2>1, SockTyped
  <2>3. HoldsFd(g) /\ HoldsPointer(g)
    BY <2>1 DEF HoldsFd, HoldsPointer
  <2> QED
    BY <1>t, <2>1, <2>2, <2>3
<1>7. CASE Destroy(g)
  <2> DEFINE s == [sock[g] EXCEPT !.phase = "dead"]
  <2>1. /\ sock[g] # None /\ sock[g].phase = "closing" /\ EmitEvent("close", g)
        /\ sock' = [sock EXCEPT ![g] = s] /\ UNCHANGED vars /\ UNCHANGED ghosts
    BY <1>7, SockTyped DEF Destroy
  <2>2. /\ s \in Socket /\ s.tgid = sock[g].tgid /\ s.fd = sock[g].fd
        /\ s.cookie = sock[g].cookie /\ s.observed = sock[g].observed
        /\ s.syn_ts = sock[g].syn_ts /\ s.http = sock[g].http /\ s.phase = "dead"
    BY <2>1, SockTyped DEF Socket, Phases
  <2>3. HoldsPointer(g)
    BY <2>1 DEF HoldsPointer
  <2> HIDE DEF s
  <2> QED
    BY <1>t, <2>1, <2>2, <2>3
<1>8. CASE CloseFd(g)
  <2> DEFINE s == [sock[g] EXCEPT !.phase = "closing"]
  <2>1. /\ sock[g] # None /\ sock[g].phase = "open" /\ clock' = clock
        /\ events' = events /\ tls_events' = tls_events /\ tid_cookie' = tid_cookie
        /\ sock' = [sock EXCEPT ![g] = s] /\ UNCHANGED vars /\ UNCHANGED ghosts
    BY <1>8, SockTyped DEF CloseFd, rings
  <2>2. /\ s \in Socket /\ s.tgid = sock[g].tgid /\ s.fd = sock[g].fd
        /\ s.cookie = sock[g].cookie /\ s.observed = sock[g].observed
        /\ s.syn_ts = sock[g].syn_ts /\ s.http = sock[g].http /\ s.phase = "closing"
    BY <2>1, SockTyped DEF Socket, Phases
  <2>3. HoldsPointer(g)
    BY <2>1 DEF HoldsPointer
  <2>4. clock' \in Ts /\ clock' >= clock /\ events' \in Seq(Event)
    BY <2>1 DEF KernelTyped, Ts
  <2>5. EmittedCritical(g)
    BY <2>1, QuietCritical
  <2> HIDE DEF s
  <2> QED
    BY <2>1, <2>2, <2>3, <2>4, <2>5, PhaseStep
<1>9. ASSUME NEW n \in Threads, Request(g, n) PROVE KernelStep(g)
  <2>1. 0 \in 0 .. MaxBody
    BY CorrelatorAssumption
  <2>2. /\ sock[g] # None /\ sock[g].phase = "open"
        /\ sock' = [sock EXCEPT ![g].http = "sent"] /\ EmitTls("write", g, 0, PlainBio(g, n))
        /\ UNCHANGED vars /\ UNCHANGED ghosts
    BY <1>9 DEF Request
  <2>3. PICK bio \in Cookies \cup {None} : bio = PlainBio(g, n) /\ (sock[g].observed => bio = None)
    BY <1>9, <2>2, StampTyped
  <2> QED
    BY <2>1, <2>2, <2>3, HttpStep
<1>10. ASSUME NEW n \in Threads, NEW target \in 0 .. MaxBody, Respond(g, n, target)
       PROVE  KernelStep(g)
  <2> DEFINE http == IF target > 0 THEN "body" ELSE "idle"
  <2>1. http \in {"idle", "sent", "body"} /\ (http = "body" => MaxBody >= 1)
    BY CorrelatorAssumption
  <2>2. /\ sock[g] # None /\ sock[g].phase = "open" /\ sock[g].http # "idle"
        /\ sock' = [sock EXCEPT ![g].http = http]
        /\ EmitTls("head", g, target, PlainBio(g, n))
        /\ UNCHANGED vars /\ UNCHANGED ghosts
    BY <1>10 DEF Respond
  <2>3. PICK bio \in Cookies \cup {None} : bio = PlainBio(g, n) /\ (sock[g].observed => bio = None)
    BY <1>10, <2>2, StampTyped
  <2> HIDE DEF http
  <2> QED
    BY <2>1, <2>2, <2>3, HttpStep
<1>11. ASSUME NEW n \in Threads, NEW kind \in {"head", "body"}, ReceiveBody(g, n, kind)
       PROVE  KernelStep(g)
  <2>1. 0 \in 0 .. MaxBody
    BY CorrelatorAssumption
  <2>2. /\ sock[g] # None /\ sock[g].phase = "open" /\ sock[g].http = "body"
        /\ sock' = [sock EXCEPT ![g].http = "idle"] /\ EmitTls(kind, g, 0, PlainBio(g, n))
        /\ UNCHANGED vars /\ UNCHANGED ghosts
    BY <1>11 DEF ReceiveBody
  <2>3. MaxBody >= 1
    BY <2>2 DEF Lives
  <2>4. PICK bio \in Cookies \cup {None} : bio = PlainBio(g, n) /\ (sock[g].observed => bio = None)
    BY <1>11, <2>2, StampTyped
  <2> QED
    BY <2>1, <2>2, <2>3, <2>4, HttpStep
<1> QED
  BY <1>1, <1>2, <1>3, <1>4, <1>5, <1>6, <1>7, <1>8, <1>9, <1>10, <1>11

-----------------------------------------------------------------------------
(* The folds: every event reaches the engine as an input of its own        *)
(* specification.                                                          *)

LEMMA PlainTyped ==
    ASSUME KernelTyped, NEW g \in Gens, sock[g] # None
    PROVE  /\ sock[g].tgid \in Tgids /\ PlainFd(g) \in Fds
           /\ PlainKey(g) \in Keys /\ PlainKey(g) = <<sock[g].tgid, PlainFd(g)>>
           /\ sock[g].observed => PlainKey(g) = LinkKey(g)
           /\ ~sock[g].observed => PlainFd(g) = 0 /\ PlainKey(g)[2] = 0
<1>1. /\ sock[g].tgid \in Tgids /\ sock[g].fd \in Fds \ {0} /\ sock[g].observed \in Observed
  BY DEF KernelTyped, Socket
<1>2. ~sock[g].observed => 0 \in Fds
  BY <1>1, CaptureAssumption
<1> QED
  BY <1>1, <1>2 DEF PlainFd, PlainKey, LinkKey, Keys

LEMMA BioTyped ==
    ASSUME KernelTyped, NEW e \in Event, Plaintext(e)
    PROVE  /\ e.bio \in Cookies \cup {None} /\ e.bio \in BioCookies(PlainFd(e.gen))
           /\ sock[e.gen].observed => e.bio = None
<1>1. e.gen \in Gens /\ e.bio \in Cookies \cup {None}
  BY DEF Event
<1>2. sock[e.gen] # None /\ (sock[e.gen].observed => e.bio = None)
  BY DEF Plaintext
<1>3. ~sock[e.gen].observed => PlainFd(e.gen) = 0
  BY <1>1, <1>2, PlainTyped
<1> QED
  BY <1>1, <1>2, <1>3 DEF BioCookies

LEMMA HeadOfEvents ==
    ASSUME KernelTyped, \A i \in DOMAIN events : Critical(events[i]), events # <<>>
    PROVE  LET e == Head(events)
           IN  /\ e = events[1] /\ 1 \in DOMAIN events /\ Critical(e)
               /\ e.gen \in Gens /\ e.ts \in Ts /\ sock[e.gen] # None
               /\ sock[e.gen].cookie \in Cookies /\ sock[e.gen].tgid \in Tgids
<1>1. Head(events) = events[1] /\ 1 \in DOMAIN events
  BY TailIs DEF KernelTyped
<1>2. events[1].gen \in Gens /\ events[1].ts \in Ts /\ sock[events[1].gen] # None
  BY <1>1, DomainIs DEF KernelTyped, Critical
<1> QED
  BY <1>1, <1>2, SockTyped

LEMMA HeadOfTls ==
    ASSUME KernelTyped, \A i \in DOMAIN tls_events : Plaintext(tls_events[i]), tls_events # <<>>
    PROVE  LET e == Head(tls_events)
           IN  /\ e = tls_events[1] /\ 1 \in DOMAIN tls_events /\ Plaintext(e)
               /\ e \in Event /\ e.gen \in Gens /\ e.ts \in Ts /\ e.target \in 0 .. MaxBody
               /\ sock[e.gen] # None
<1>1. Head(tls_events) = tls_events[1] /\ 1 \in DOMAIN tls_events
  BY TailIs DEF KernelTyped
<1>2. tls_events[1] \in Event
  BY <1>1, DomainIs DEF KernelTyped
<1>3. tls_events[1].gen \in Gens /\ tls_events[1].ts \in Ts /\ tls_events[1].target \in 0 .. MaxBody
  BY <1>2 DEF Event
<1> QED
  BY <1>1, <1>2, <1>3 DEF Plaintext

LEMMA FoldEventsStep ==
    ASSUME KernelTyped, \A i \in DOMAIN events : Critical(events[i]), FoldEvents
    PROVE  ConnNext
<1> DEFINE e == Head(events)
           g == e.gen
           c == sock[g].cookie
<1>1. events # <<>>
  BY DEF FoldEvents
<1>2. /\ e.gen \in Gens /\ e.ts \in Ts /\ sock[g] # None
      /\ c \in Cookies /\ sock[g].tgid \in Tgids
  BY <1>1, HeadOfEvents
<1>3. SatSub(e.ts, sock[g].syn_ts) \in Ts
  BY <1>2, SockTyped, CorrelatorAssumption DEF SatSub, Ts
<1>4. \/ OnConnect(c, sock[g].tgid, e.ts, SatSub(e.ts, sock[g].syn_ts))
      \/ \E sni \in Snis : OnTlsHandshake(c, sni, e.ts)
      \/ \E v \in Versions : OnTlsServer(c, v, e.ts)
      \/ OnClose(c, e.ts)
  BY DEF FoldEvents
<1> HIDE DEF e, c, g
<1> QED
  BY <1>2, <1>3, <1>4 DEF ConnNext

LEMMA FoldReadStep ==
    ASSUME KernelTyped, LedgerTyped, NEW e \in Event, e.gen \in Gens, e.ts \in Ts,
           e.target \in 0 .. MaxBody, sock[e.gen] # None, Plaintext(e), FoldRead(e)
    PROVE  OpNext \/ UNCHANGED vars
<1> DEFINE g == e.gen
           t == sock[g].tgid
           f == PlainFd(g)
           k == PlainKey(g)
           bio == e.bio
<1>1. t \in Tgids /\ f \in Fds /\ bio \in BioCookies(f) /\ k \in Keys /\ k = <<t, f>>
  BY PlainTyped, BioTyped
<1>2. k[1] = t /\ k[2] = f
  BY <1>1
<1>3. \/ UNCHANGED vars
      \/ e.kind = "body" /\ OnTlsReadBody(t, f, bio, e.ts, 1)
      \/ AwaitingBody(k) /\ OnTlsReadAsBody(t, f, bio, e.ts, 1)
      \/ OnTlsReadHead(t, f, bio, e.ts, e.target, 0)
  BY <1>2 DEF FoldRead
<1>4. e.kind = "body" \/ AwaitingBody(k) => 1 \in 1 .. MaxBody
  <2>1. e.kind = "body" => MaxBody >= 1
    BY DEF Plaintext
  <2>2. ASSUME AwaitingBody(k) PROVE MaxBody >= 1
    <3>1. ops[k].open.resp \in RespState
      BY <1>1, <2>2, OpenTyped DEF AwaitingBody, HasResp
    <3> QED
      BY <3>1, CorrelatorAssumption DEF RespState
  <2> QED
    BY <2>1, <2>2, CorrelatorAssumption
<1>5. 0 \in 0 .. MaxBody
  BY CorrelatorAssumption
<1> HIDE DEF g, t, f, k, bio
<1> QED
  BY <1>1, <1>3, <1>4, <1>5 DEF OpNext

LEMMA FoldTlsStep ==
    ASSUME KernelTyped, LedgerTyped, \A i \in DOMAIN tls_events : Plaintext(tls_events[i]), FoldTls
    PROVE  [Next]_vars
<1> DEFINE e == Head(tls_events)
           g == e.gen
<1>1. tls_events # <<>>
  BY DEF FoldTls
<1>2. /\ e \in Event /\ g \in Gens /\ e.ts \in Ts /\ e.target \in 0 .. MaxBody
      /\ sock[g] # None /\ Plaintext(e)
  BY <1>1, HeadOfTls
<1>3. /\ sock[g].tgid \in Tgids /\ sock[g].fd \in Fds /\ sock[g].cookie \in Cookies
      /\ PlainFd(g) \in Fds /\ e.bio \in BioCookies(PlainFd(g))
  BY <1>2, SockTyped, PlainTyped, BioTyped
<1>4. CASE OnConnId(sock[g].tgid, sock[g].fd, sock[g].cookie, e.ts)
  <2> HIDE DEF e, g
  <2> QED
    BY <1>2, <1>3, <1>4 DEF Next, ConnNext
<1>5. CASE OnTlsWrite(sock[g].tgid, PlainFd(g), e.bio, e.ts)
  <2> HIDE DEF e, g
  <2> QED
    BY <1>2, <1>3, <1>5 DEF Next, OpNext
<1>6. CASE FoldRead(e)
  BY <1>2, <1>6, FoldReadStep DEF Next
<1> QED
  BY <1>4, <1>5, <1>6 DEF FoldTls

LEMMA CaptureStep ==
    ASSUME KernelTyped, Lives, LedgerTyped,
           \A i \in DOMAIN events : Critical(events[i]),
           \A i \in DOMAIN tls_events : Plaintext(tls_events[i]),
           [CaptureNext]_all
    PROVE  [Next]_vars
<1>1. CASE KernelNext
  BY <1>1, KernelSteps DEF KernelStep, Still, vars
<1>2. CASE FoldEvents
  BY <1>2, FoldEventsStep DEF Next
<1>3. CASE FoldTls
  BY <1>3, FoldTlsStep
<1>4. CASE Drain
  BY <1>4 DEF Drain, Next
<1>5. CASE UNCHANGED all
  BY <1>5 DEF all
<1> QED
  BY <1>1, <1>2, <1>3, <1>4, <1>5 DEF CaptureNext

LEMMA StillStep == KernelTyped /\ UNCHANGED all => Still
  BY DEF Still, all, kernel, KernelTyped

LEMMA FoldKernel ==
    ASSUME KernelTyped, Lives, FoldEvents \/ FoldTls \/ Drain \/ Still
    PROVE  KernelTyped' /\ Lives' /\ sock' = sock /\ clock' = clock
<1>1. /\ sock' = sock /\ clock' = clock
      /\ tid_cookie' \in [Tgids \X Threads -> Cookies \cup {None}]
      /\ events' = events \/ (events # <<>> /\ events' = Tail(events))
      /\ tls_events' = tls_events \/ (tls_events # <<>> /\ tls_events' = Tail(tls_events))
  BY DEF FoldEvents, FoldTls, Drain, Still, kernel, rings, KernelTyped
<1>2. KernelTyped'
  BY <1>1, TailIs DEF KernelTyped
<1>3. Lives'
  BY <1>1 DEF Lives, SamePointer, SameFd, LinkKey, HoldsFd, HoldsPointer
<1> QED
  BY <1>1, <1>2, <1>3

-----------------------------------------------------------------------------
(* The critical ring *)

LEMMA LivesOrder ==
    ASSUME KernelTyped, Lives, NEW g \in Gens, NEW h \in Gens, sock[g] # None, sock[h] # None
    PROVE  /\ (HoldsPointer(g) /\ SamePointer(g, h)) => h <= g
           /\ (HoldsFd(g) /\ SameFd(g, h)) => h <= g
<1>1. g \in Nat /\ h \in Nat
  BY DEF Gens
<1>2. CASE h > g
  <2>1. /\ SamePointer(h, g) => ~HoldsPointer(g)
        /\ SameFd(h, g) => ~HoldsFd(g)
    BY <1>1, <1>2 DEF Lives
  <2> QED
    BY <2>1 DEF SamePointer, SameFd
<1> QED
  BY <1>1, <1>2

LEMMA CriticalStays ==
    ASSUME KernelTyped, SockMoved, clock' \in Ts, NEW e \in Event, Critical(e)
    PROVE  Critical(e)'
<1>1. /\ e.gen \in Gens /\ e.ts \in Nat /\ sock[e.gen] # None /\ SameLife(e.gen)
      /\ clock \in Nat /\ clock' \in Nat /\ clock' >= clock
  BY DEF Event, Critical, SockMoved, Ts, KernelTyped
<1>2. ASSUME e.kind = "close"
      PROVE  ~HoldsPointer(e.gen)' /\ 0 < e.ts /\ e.ts < clock'
  BY <1>1, <1>2 DEF Critical, SameLife
<1>3. ASSUME e.kind = "close", NEW g \in Gens, sock'[g] # None, g > e.gen,
             SamePointer(g, e.gen)'
      PROVE  e.ts < sock'[g].syn_ts
  <2>1. CASE sock[g] # None
    <3>1. SameLife(g) /\ SamePointer(g, e.gen)
      BY <1>1, <1>3, <2>1 DEF SockMoved, SamePointer, SameLife
    <3> QED
      BY <1>3, <2>1, <3>1 DEF Critical, SameLife
  <2>2. CASE sock[g] = None
    <3>1. sock'[g].syn_ts = clock
      BY <1>3, <2>2 DEF SockMoved
    <3> QED
      BY <1>1, <1>3, <3>1 DEF Critical
  <2> QED
    BY <2>1, <2>2
<1>4. sock'[e.gen] # None /\ e.kind \in {"connect", "hello", "server_hello", "close"}
  BY <1>1 DEF Critical, SameLife
<1> QED
  BY <1>2, <1>3, <1>4 DEF Critical

(* What a ghost says of a pointer stays behind the ring when it grows.     *)
LEMMA NotAheadKept ==
    ASSUME KernelTyped, Lives, events' \in Seq(Event), SockMoved, NEW g \in Gens, sock[g] # None,
           EmittedCritical(g), NEW m, m \in [Cookies -> Gens \cup {None}], NotAhead(m),
           \A i \in DOMAIN events : sock[events[i].gen] # None
    PROVE  NotAhead(m)'
<1> SUFFICES ASSUME NEW c \in Cookies, m[c] # None
             PROVE  /\ sock'[m[c]] # None /\ sock'[m[c]].cookie = c
                    /\ \A i \in DOMAIN events' :
                          sock'[events'[i].gen].cookie = c => m[c] <= events'[i].gen
  BY DEF NotAhead
<1>1. m[c] \in Gens /\ sock[m[c]] # None /\ sock[m[c]].cookie = c /\ SameLife(m[c])
  BY DEF NotAhead, SockMoved
<1>2. ASSUME NEW i \in DOMAIN events', sock'[events'[i].gen].cookie = c
      PROVE  m[c] <= events'[i].gen
  <2>1. CASE i \in DOMAIN events
    <3>1. events'[i] = events[i] /\ events[i].gen \in Gens /\ sock[events[i].gen] # None
      BY <2>1, DomainIs DEF EmittedCritical, Grown, KernelTyped
    <3>2. sock[events[i].gen].cookie = c
      BY <1>2, <3>1 DEF SockMoved, SameLife
    <3> QED
      BY <2>1, <3>1, <3>2 DEF NotAhead
  <2>2. CASE i \notin DOMAIN events
    <3>1. events'[i].gen = g /\ HoldsPointer(g)
      BY <1>2, <2>2 DEF EmittedCritical, Grown
    <3>2. sock[g].cookie = c
      BY <1>2, <3>1 DEF SockMoved, SameLife
    <3>3. SamePointer(g, m[c])
      BY <1>1, <3>2 DEF SamePointer
    <3> QED
      BY <1>1, <3>1, <3>3, LivesOrder
  <2> QED
    BY <2>1, <2>2
<1> QED
  BY <1>1, <1>2 DEF SameLife

LEMMA CriticalGrows ==
    ASSUME KernelTyped, Lives, GhostsTyped, CriticalInv, NEW g \in Gens, KernelStep(g)
    PROVE  CriticalInv'
<1>1. /\ SockMoved /\ EmittedCritical(g) /\ KernelTyped' /\ events' \in Seq(Event)
      /\ clock' \in Ts /\ UNCHANGED <<conns, tls, conn_gen, tls_gen>>
  BY DEF KernelStep, vars, ghosts, KernelTyped
<1>2. /\ \A i \in DOMAIN events : /\ i \in Nat /\ events[i] \in Event /\ events[i].gen \in Gens
                                  /\ Critical(events[i]) /\ sock[events[i].gen] # None
                                  /\ i <= Len(events)
      /\ \A i \in DOMAIN events' : i \in Nat /\ events'[i] \in Event
      /\ Len(events) \in Nat
  BY <1>1, DomainIs DEF CriticalInv, Critical, KernelTyped
<1>3. \A i \in DOMAIN events' : i \notin DOMAIN events =>
         /\ events'[i].gen = g /\ HoldsPointer(g) /\ sock[g] # None /\ SameLife(g)
         /\ i > Len(events)
  BY <1>1 DEF EmittedCritical, Grown, HoldsPointer, SockMoved
<1>4. \A i \in DOMAIN events : i \in DOMAIN events' /\ events'[i] = events[i]
  BY <1>1 DEF EmittedCritical, Grown
<1>5. ASSUME NEW i \in DOMAIN events' PROVE Critical(events[i])'
  <2>1. PICK e \in Event : e = events'[i]
    BY <1>2
  <2>2. CASE i \in DOMAIN events
    <3>1. Critical(e)'
      BY <1>1, <1>2, <1>4, <2>1, <2>2, CriticalStays
    <3> QED
      BY <2>1, <3>1 DEF Critical
  <2>3. CASE i \notin DOMAIN events
    <3>1. /\ e.gen = g /\ sock'[g] # None /\ e.kind \in {"connect", "hello", "server_hello", "close"}
          /\ e.kind = "close" => ~HoldsPointer(g)' /\ e.ts = clock /\ clock < clock'
      BY <1>1, <1>3, <2>1, <2>3 DEF EmittedCritical, SameLife
    <3>2. e.kind # "close" \/ (0 < clock /\ clock < clock')
      BY <1>3, <2>3, <3>1, SockTyped DEF Lives, Ts, KernelTyped
    <3>3. ASSUME NEW h \in Gens, sock'[h] # None, h > g, SamePointer(h, g)' PROVE FALSE
      <4>1. sock[h] # None
        BY <1>1, <2>3, <3>3 DEF EmittedCritical
      <4>2. SamePointer(g, h)
        BY <1>1, <1>3, <2>3, <3>3, <4>1 DEF SockMoved, SameLife, SamePointer
      <4>3. h <= g
        BY <1>3, <2>3, <4>1, <4>2, LivesOrder
      <4> QED
        BY <3>3, <4>3 DEF Gens
    <3> QED
      BY <2>1, <3>1, <3>2, <3>3 DEF Critical
  <2> QED
    BY <2>2, <2>3
<1>6. PointerOrder(events)'
  <2> SUFFICES ASSUME NEW i \in DOMAIN events', NEW j \in DOMAIN events', i < j,
                      SamePointer(events[i].gen, events[j].gen)'
               PROVE  events'[i].gen <= events'[j].gen
    BY DEF PointerOrder
  <2>1. CASE j \in DOMAIN events
    <3>1. i \in DOMAIN events
      BY <1>2, <1>3, <2>1
    <3>2. SamePointer(events[i].gen, events[j].gen)
      BY <1>1, <1>2, <1>4, <2>1, <3>1 DEF SamePointer, SockMoved, SameLife
    <3> QED
      BY <1>4, <2>1, <3>1, <3>2 DEF CriticalInv, PointerOrder
  <2>2. CASE j \notin DOMAIN events /\ i \in DOMAIN events
    <3>1. /\ events'[j].gen = g /\ HoldsPointer(g) /\ sock[g] # None
          /\ events'[i] = events[i] /\ events[i].gen \in Gens /\ sock[events[i].gen] # None
      BY <1>2, <1>3, <1>4, <2>2
    <3>2. SamePointer(g, events[i].gen)
      BY <1>1, <3>1 DEF SamePointer, SockMoved, SameLife
    <3> QED
      BY <3>1, <3>2, LivesOrder
  <2>3. CASE j \notin DOMAIN events /\ i \notin DOMAIN events
    BY <1>3, <2>3 DEF Gens
  <2> QED
    BY <2>1, <2>2, <2>3
<1>7. NotAhead(conn_gen)' /\ NotAhead(tls_gen)'
  <2>1. CASE sock[g] # None
    <3>1. ASSUME NEW m \in [Cookies -> Gens \cup {None}], NotAhead(m) PROVE NotAhead(m)'
      BY <1>1, <1>2, <2>1, <3>1, NotAheadKept
    <3>2. PICK m \in [Cookies -> Gens \cup {None}], n \in [Cookies -> Gens \cup {None}] :
             m = conn_gen /\ n = tls_gen
      BY DEF GhostsTyped
    <3>3. NotAhead(m) /\ NotAhead(n)
      BY <3>2 DEF CriticalInv
    <3>4. NotAhead(m)' /\ NotAhead(n)'
      BY <3>1, <3>3
    <3> QED
      BY <1>1, <3>2, <3>4 DEF NotAhead
  <2>2. CASE sock[g] = None
    <3>1. DOMAIN events' = DOMAIN events
      BY <1>3, <1>4, <2>2
    <3> QED
      BY <1>1, <1>2, <1>4, <3>1 DEF CriticalInv, NotAhead, GhostsTyped, SockMoved, SameLife
  <2> QED
    BY <2>1, <2>2
<1> QED
  BY <1>1, <1>5, <1>6, <1>7 DEF CriticalInv

(* What a fold of the critical ring leaves of the two maps.                *)
LEMMA ConnectFacts ==
    ASSUME ConnsTyped, NEW c \in Cookies, NEW t \in Tgids, NEW ts \in Ts, NEW latency \in Ts,
           OnConnect(c, t, ts, latency)
    PROVE  \A d \in Cookies : /\ conns'[d] # None => d = c \/ conns[d] # None
                              /\ tls'[d] # None => d # c /\ tls[d] # None
<1>1. /\ \E V : conns' = Without([conns EXCEPT ![c] = [pid |-> t, ts |-> SatSub(ts, latency)]], V)
      /\ tls' = [tls EXCEPT ![c] = None]
  BY DEF OnConnect, Forget
<1> QED
  BY <1>1 DEF Without, ConnsTyped

LEMMA HelloFacts ==
    ASSUME ConnsTyped, NEW c \in Cookies, NEW ts,
           (\E sni \in Snis : OnTlsHandshake(c, sni, ts))
             \/ (\E v \in Versions : OnTlsServer(c, v, ts))
    PROVE  conns' = conns /\ \A d \in Cookies : tls'[d] # None => d = c \/ tls[d] # None
<1>1. conns' = conns /\ \E V, x : tls' = Without([tls EXCEPT ![c] = x], V)
  BY DEF OnTlsHandshake, OnTlsServer
<1> QED
  BY <1>1 DEF Without, ConnsTyped

LEMMA CloseFacts ==
    ASSUME ConnsTyped, NEW c \in Cookies, NEW ts, OnClose(c, ts)
    PROVE  \A d \in Cookies : /\ conns'[d] # None => conns[d] # None
                              /\ tls'[d] # None => tls[d] # None
<1>1. conns' = [conns EXCEPT ![c] = None] /\ tls' = [tls EXCEPT ![c] = None]
  BY DEF OnClose, Forget
<1> QED
  BY <1>1 DEF ConnsTyped

LEMMA NotAheadFolded ==
    ASSUME KernelTyped, CriticalInv, events # <<>>, events' = Tail(events), sock' = sock,
           NEW m \in [Cookies -> Gens \cup {None}], NEW n \in [Cookies -> Gens \cup {None}],
           NotAhead(m),
           LET g == Head(events).gen IN n = m \/ n = [m EXCEPT ![sock[g].cookie] = g]
    PROVE  NotAhead(n)'
<1> DEFINE g == Head(events).gen
           c == sock[g].cookie
<1>1. g = events[1].gen /\ 1 \in DOMAIN events /\ sock[g] # None /\ c \in Cookies /\ g \in Gens
  BY HeadOfEvents DEF CriticalInv
<1>2. \A i \in DOMAIN events' : /\ i + 1 \in DOMAIN events /\ events'[i] = events[i + 1]
                                /\ i + 1 > 1
  BY TailIs, DomainIs DEF KernelTyped
<1>3. \A d \in Cookies : n[d] = m[d] \/ (d = c /\ n[d] = g)
  BY <1>1
<1> HIDE DEF g, c
<1>4. ASSUME NEW d \in Cookies, n[d] # None
      PROVE  /\ sock'[n[d]] # None /\ sock'[n[d]].cookie = d
             /\ \A i \in DOMAIN events' :
                   sock'[events'[i].gen].cookie = d => n[d] <= events'[i].gen
  <2>1. CASE n[d] = m[d]
    BY <1>2, <1>4, <2>1 DEF NotAhead
  <2>2. CASE d = c /\ n[d] = g
    <3>1. ASSUME NEW i \in DOMAIN events', sock[events'[i].gen].cookie = d
          PROVE  g <= events'[i].gen
      <4>1. SamePointer(events[1].gen, events[i + 1].gen)
        BY <1>1, <1>2, <2>2, <3>1 DEF SamePointer, c
      <4> QED
        BY <1>1, <1>2, <4>1 DEF CriticalInv, PointerOrder
    <3> QED
      BY <1>1, <2>2, <3>1 DEF c
  <2> QED
    BY <1>3, <2>1, <2>2
<1> QED
  BY <1>4 DEF NotAhead

LEMMA CriticalFolded ==
    ASSUME KernelTyped, Lives, GhostsTyped, ConnsTyped, CriticalInv, FoldEvents
    PROVE  /\ CriticalInv' /\ conn_gen' \in [Cookies -> Gens \cup {None}]
           /\ tls_gen' \in [Cookies -> Gens \cup {None}]
           /\ TlsFactsNotInherited => TlsFactsNotInherited'
<1> DEFINE e == Head(events)
           g == e.gen
           c == sock[g].cookie
<1>1. /\ events # <<>> /\ events' = Tail(events) /\ sock' = sock /\ clock' = clock
  BY DEF FoldEvents, kernel
<1>2. /\ e = events[1] /\ 1 \in DOMAIN events /\ g \in Gens /\ e.ts \in Ts /\ sock[g] # None
      /\ c \in Cookies /\ sock[g].tgid \in Tgids
  BY <1>1, HeadOfEvents DEF CriticalInv
<1>3. \A i \in DOMAIN events' : /\ i \in Nat /\ i + 1 \in DOMAIN events
                                /\ events'[i] = events[i + 1]
  BY <1>1, TailIs DEF KernelTyped
<1>4. \A i \in DOMAIN events' : Critical(events[i])'
  <2> SUFFICES ASSUME NEW i \in DOMAIN events' PROVE Critical(events[i])'
    OBVIOUS
  <2>1. Critical(events[i + 1]) /\ events'[i] = events[i + 1]
    BY <1>3 DEF CriticalInv
  <2> QED
    BY <1>1, <2>1 DEF Critical, SamePointer, HoldsPointer
<1>5. PointerOrder(events)'
  <2> SUFFICES ASSUME NEW i \in DOMAIN events', NEW j \in DOMAIN events', i < j,
                      SamePointer(events[i].gen, events[j].gen)'
               PROVE  events'[i].gen <= events'[j].gen
    BY DEF PointerOrder
  <2>1. i + 1 < j + 1 /\ SamePointer(events[i + 1].gen, events[j + 1].gen)
    BY <1>1, <1>3 DEF SamePointer
  <2> QED
    BY <1>3, <2>1 DEF CriticalInv, PointerOrder
<1>6. /\ \/ conn_gen' = [conn_gen EXCEPT ![c] = g] /\ tls_gen' = tls_gen
            /\ OnConnect(c, sock[g].tgid, e.ts, SatSub(e.ts, sock[g].syn_ts))
         \/ /\ conn_gen' = conn_gen /\ tls_gen' = [tls_gen EXCEPT ![c] = g]
            /\ (\E sni \in Snis : OnTlsHandshake(c, sni, e.ts))
                 \/ (\E v \in Versions : OnTlsServer(c, v, e.ts))
         \/ conn_gen' = conn_gen /\ tls_gen' = tls_gen /\ OnClose(c, e.ts)
  BY DEF FoldEvents
<1>7. SatSub(e.ts, sock[g].syn_ts) \in Ts
  BY <1>2, SockTyped, CorrelatorAssumption DEF SatSub, Ts
<1>8. /\ conn_gen' \in [Cookies -> Gens \cup {None}] /\ tls_gen' \in [Cookies -> Gens \cup {None}]
  BY <1>2, <1>6 DEF GhostsTyped
<1>9. NotAhead(conn_gen)' /\ NotAhead(tls_gen)'
  <2>1. PICK m1, n1, m2, n2 \in [Cookies -> Gens \cup {None}] :
           m1 = conn_gen /\ n1 = conn_gen' /\ m2 = tls_gen /\ n2 = tls_gen'
    BY <1>8 DEF GhostsTyped
  <2>2. /\ n1 = m1 \/ n1 = [m1 EXCEPT ![c] = g]
        /\ n2 = m2 \/ n2 = [m2 EXCEPT ![c] = g]
    BY <1>6, <2>1
  <2>3. NotAhead(m1) /\ NotAhead(m2)
    BY <2>1 DEF CriticalInv
  <2>4. NotAhead(n1)' /\ NotAhead(n2)'
    BY <1>1, <2>2, <2>3, NotAheadFolded
  <2> QED
    BY <2>1, <2>4 DEF NotAhead
<1> HIDE DEF e, g, c
<1>10. g # None
  BY <1>2, CaptureAssumption
<1>11. \A d \in Cookies : /\ conns'[d] # None => conn_gen'[d] # None
                          /\ tls'[d] # None => tls_gen'[d] # None
  <2>0. \A d \in Cookies : /\ conns[d] # None => conn_gen[d] # None
                           /\ tls[d] # None => tls_gen[d] # None
    BY DEF CriticalInv
  <2>1. CASE /\ conn_gen' = [conn_gen EXCEPT ![c] = g] /\ tls_gen' = tls_gen
             /\ OnConnect(c, sock[g].tgid, e.ts, SatSub(e.ts, sock[g].syn_ts))
    BY <1>2, <1>7, <1>10, <2>0, <2>1, ConnectFacts DEF GhostsTyped
  <2>2. CASE /\ conn_gen' = conn_gen /\ tls_gen' = [tls_gen EXCEPT ![c] = g]
             /\ (\E sni \in Snis : OnTlsHandshake(c, sni, e.ts))
                  \/ (\E v \in Versions : OnTlsServer(c, v, e.ts))
    BY <1>2, <1>10, <2>0, <2>2, HelloFacts DEF GhostsTyped
  <2>3. CASE conn_gen' = conn_gen /\ tls_gen' = tls_gen /\ OnClose(c, e.ts)
    BY <1>2, <2>0, <2>3, CloseFacts
  <2> QED
    BY <1>6, <2>1, <2>2, <2>3
<1>12. CriticalInv'
  BY <1>4, <1>5, <1>9, <1>11 DEF CriticalInv
<1>13. ASSUME TlsFactsNotInherited, NEW d \in Cookies, conns'[d] # None, tls'[d] # None
       PROVE  tls_gen'[d] >= conn_gen'[d]
  <2>1. CASE /\ conn_gen' = [conn_gen EXCEPT ![c] = g] /\ tls_gen' = tls_gen
             /\ OnConnect(c, sock[g].tgid, e.ts, SatSub(e.ts, sock[g].syn_ts))
    <3>1. d # c /\ tls[d] # None /\ conns[d] # None
      BY <1>2, <1>7, <1>13, <2>1, ConnectFacts
    <3> QED
      BY <1>13, <2>1, <3>1 DEF TlsFactsNotInherited, GhostsTyped
  <2>2. CASE /\ conn_gen' = conn_gen /\ tls_gen' = [tls_gen EXCEPT ![c] = g]
             /\ (\E sni \in Snis : OnTlsHandshake(c, sni, e.ts))
                  \/ (\E v \in Versions : OnTlsServer(c, v, e.ts))
    <3>1. conns[d] # None /\ (d = c \/ tls[d] # None)
      BY <1>2, <1>13, <2>2, HelloFacts
    <3>2. CASE d = c
      <4>1. conn_gen[c] # None
        BY <3>1, <3>2 DEF CriticalInv
      <4>2. conn_gen[c] <= g
        BY <1>2, <4>1 DEF CriticalInv, NotAhead, c, g
      <4>3. conn_gen[c] \in Nat /\ g \in Nat
        BY <1>2, <4>1 DEF GhostsTyped, Gens
      <4>4. tls_gen'[d] = g /\ conn_gen'[d] = conn_gen[c]
        BY <1>2, <2>2, <3>2 DEF GhostsTyped
      <4> QED
        BY <4>2, <4>3, <4>4
    <3>3. CASE d # c
      BY <1>13, <2>2, <3>1, <3>3 DEF TlsFactsNotInherited, GhostsTyped
    <3> QED
      BY <3>2, <3>3
  <2>3. CASE conn_gen' = conn_gen /\ tls_gen' = tls_gen /\ OnClose(c, e.ts)
    <3>1. conns[d] # None /\ tls[d] # None
      BY <1>2, <1>13, <2>3, CloseFacts
    <3> QED
      BY <1>13, <2>3, <3>1 DEF TlsFactsNotInherited
  <2> QED
    BY <1>6, <2>1, <2>2, <2>3
<1> QED
  BY <1>8, <1>12, <1>13 DEF TlsFactsNotInherited

-----------------------------------------------------------------------------
(* The plaintext ring and the links *)

LEMMA PlaintextStays ==
    ASSUME SockMoved, NEW e \in Event, Plaintext(e)
    PROVE  Plaintext(e)'
<1>1. e.gen \in Gens /\ sock[e.gen] # None /\ SameLife(e.gen)
  BY DEF Event, Plaintext, SockMoved
<1> QED
  BY <1>1 DEF Plaintext, SameLife

(* The ring grows at its end, by events of a connection that holds its fd. *)
LEMMA TlsGrown ==
    ASSUME KernelTyped, Lives, \A i \in DOMAIN tls_events : Plaintext(tls_events[i]),
           NEW g \in Gens, KernelStep(g)
    PROVE  /\ \A i \in DOMAIN tls_events :
                 /\ i \in Nat /\ i <= Len(tls_events) /\ tls_events[i] \in Event
                 /\ tls_events[i].gen \in Gens /\ sock[tls_events[i].gen] # None
                 /\ SameLife(tls_events[i].gen)
                 /\ i \in DOMAIN tls_events' /\ tls_events'[i] = tls_events[i]
           /\ \A i \in DOMAIN tls_events' :
                 /\ i \in Nat /\ tls_events'[i] \in Event /\ i <= Len(tls_events')
                 /\ i \notin DOMAIN tls_events =>
                       /\ i > Len(tls_events) /\ tls_events'[i].gen = g
                       /\ HoldsFd(g)' /\ sock'[g] # None
           /\ Len(tls_events) \in Nat /\ Len(tls_events') \in Nat
           /\ \A h \in Gens : sock[h] # None => SameLife(h)
           /\ UNCHANGED <<fd_links, fd_links_rev, ops, op_counter, built, op_gen, op_bio, link_gen>>
<1>1. EmittedPlain(g) /\ KernelTyped' /\ SockMoved
  BY DEF KernelStep
<1>2. Grown(tls_events, tls_events', g)
  BY <1>1 DEF EmittedPlain
<1>3. /\ Len(tls_events) \in Nat /\ Len(tls_events') \in Nat
      /\ \A i \in DOMAIN tls_events : /\ i \in Nat /\ i <= Len(tls_events)
                                      /\ tls_events[i] \in Event /\ tls_events[i].gen \in Gens
      /\ \A i \in DOMAIN tls_events' : /\ i \in Nat /\ i <= Len(tls_events')
                                       /\ tls_events'[i] \in Event
  BY <1>1, DomainIs DEF KernelTyped
<1>4. \A i \in DOMAIN tls_events : sock[tls_events[i].gen] # None
  BY DEF Plaintext
<1>5. \A i \in DOMAIN tls_events' \ DOMAIN tls_events : HoldsFd(g)' /\ sock'[g] # None
  BY <1>1 DEF EmittedPlain, HoldsFd
<1>6. UNCHANGED <<fd_links, fd_links_rev, ops, op_counter, built, op_gen, op_bio, link_gen>>
  BY DEF KernelStep, vars, ghosts
<1> QED
  BY <1>1, <1>2, <1>3, <1>4, <1>5, <1>6 DEF Grown, SockMoved

LEMMA LinkGrows ==
    ASSUME KernelTyped, Lives, GhostsTyped, LinkInv, NEW g \in Gens, KernelStep(g)
    PROVE  LinkInv'
<1>0. \A i \in DOMAIN tls_events : Plaintext(tls_events[i])
  BY DEF LinkInv
<1>1. /\ SockMoved /\ EmittedPlain(g) /\ KernelTyped' /\ Lives'
  BY DEF KernelStep
<1>2. \A i \in DOMAIN tls_events :
                 /\ i \in Nat /\ i <= Len(tls_events) /\ tls_events[i] \in Event
                 /\ tls_events[i].gen \in Gens /\ sock[tls_events[i].gen] # None
                 /\ SameLife(tls_events[i].gen)
                 /\ i \in DOMAIN tls_events' /\ tls_events'[i] = tls_events[i]
  BY <1>0, TlsGrown
<1>3. \A i \in DOMAIN tls_events' :
                 /\ i \in Nat /\ tls_events'[i] \in Event
                 /\ i \notin DOMAIN tls_events =>
                       /\ i > Len(tls_events) /\ tls_events'[i].gen = g
                       /\ HoldsFd(g)' /\ sock'[g] # None
  BY <1>0, TlsGrown
<1>4. UNCHANGED <<fd_links, link_gen>> /\ \A h \in Gens : sock[h] # None => SameLife(h)
  BY <1>0, TlsGrown
<1>5. ASSUME NEW h \in Gens, sock'[h] # None, SameFd(g, h)', HoldsFd(g)'
      PROVE  h <= g
  <2>1. sock'[g] # None
    BY <1>5 DEF HoldsFd
  <2>2. h > g => ~HoldsFd(g)'
    BY <1>1, <1>5, <2>1 DEF Lives, SameFd, Gens
  <2> QED
    BY <1>5, <2>2 DEF Gens
<1>6. ASSUME NEW i \in DOMAIN tls_events' PROVE Plaintext(tls_events[i])'
  <2>1. PICK e \in Event : e = tls_events'[i]
    BY <1>3
  <2>2. CASE i \in DOMAIN tls_events
    <3>1. Plaintext(e)'
      BY <1>0, <1>1, <1>2, <2>1, <2>2, PlaintextStays
    <3> QED
      BY <2>1, <3>1 DEF Plaintext
  <2>3. CASE i \notin DOMAIN tls_events
    <3>1. /\ e.gen = g /\ sock'[g] # None /\ e.kind \in {"conn_id", "write", "head", "body"}
          /\ e.kind = "conn_id" => e.ts = sock'[g].syn_ts
          /\ e.kind = "body" => MaxBody >= 1
          /\ sock'[g].observed => e.bio = None
      BY <1>1, <1>3, <2>1, <2>3 DEF EmittedPlain
    <3> QED
      BY <2>1, <3>1 DEF Plaintext
  <2> QED
    BY <2>2, <2>3
<1>7. FdOrder(tls_events)'
  <2> SUFFICES ASSUME NEW i \in DOMAIN tls_events', NEW j \in DOMAIN tls_events', i < j,
                      SameFd(tls_events[i].gen, tls_events[j].gen)'
               PROVE  tls_events'[i].gen <= tls_events'[j].gen
    BY DEF FdOrder
  <2>1. CASE j \in DOMAIN tls_events
    <3>1. i \in DOMAIN tls_events
      BY <1>2, <1>3, <2>1
    <3>2. SameFd(tls_events[i].gen, tls_events[j].gen)
      BY <1>2, <2>1, <3>1 DEF SameFd, LinkKey, SameLife
    <3> QED
      BY <1>2, <2>1, <3>1, <3>2 DEF LinkInv, FdOrder
  <2>2. CASE j \notin DOMAIN tls_events /\ i \in DOMAIN tls_events
    <3>1. /\ tls_events'[j].gen = g /\ HoldsFd(g)' /\ tls_events'[i].gen \in Gens
          /\ sock'[tls_events'[i].gen] # None
      BY <1>2, <1>3, <2>2 DEF SameLife
    <3>2. SameFd(g, tls_events[i].gen)'
      BY <3>1 DEF SameFd
    <3> QED
      BY <1>5, <3>1, <3>2 DEF SameFd, LinkKey
  <2>3. CASE j \notin DOMAIN tls_events /\ i \notin DOMAIN tls_events
    BY <1>3, <2>3 DEF Gens
  <2> QED
    BY <2>1, <2>2, <2>3
<1>8. ASSUME NEW k \in Keys PROVE LinkOf(k)'
  <2> DEFINE h == link_gen[k]
  <2>1. CASE h = None
    BY <1>4, <2>1 DEF LinkInv, LinkOf
  <2>2. CASE h # None
    <3>0. LinkOf(k) /\ h \in Gens /\ h' = h
      BY <1>4, <2>2 DEF LinkInv, GhostsTyped
    <3>1. sock[h] # None /\ LinkKey(h) = k /\ SameLife(h)
      BY <1>4, <2>2, <3>0 DEF LinkOf
    <3>2. sock'[h] # None /\ LinkKey(h)' = k
      BY <3>0, <3>1 DEF SameLife, LinkKey
    <3>3. ASSUME NEW i \in DOMAIN tls_events', LinkKey(tls_events[i].gen)' = k
          PROVE  h <= tls_events'[i].gen
      <4>1. CASE i \in DOMAIN tls_events
        <5>1. LinkKey(tls_events[i].gen) = k
          BY <1>2, <3>3, <4>1 DEF LinkKey, SameLife
        <5> QED
          BY <1>2, <2>2, <3>0, <4>1, <5>1 DEF LinkOf
      <4>2. CASE i \notin DOMAIN tls_events
        <5>1. tls_events'[i].gen = g /\ HoldsFd(g)'
          BY <1>3, <4>2
        <5>2. SameFd(g, h)'
          BY <3>0, <3>2, <3>3, <5>1 DEF SameFd, LinkKey
        <5>3. PICK x \in Gens : x = h
          BY <3>0
        <5> HIDE DEF h
        <5>4. sock'[x] # None /\ SameFd(g, x)'
          BY <3>0, <3>2, <5>2, <5>3 DEF SameFd, LinkKey
        <5> QED
          BY <1>5, <5>1, <5>3, <5>4
      <4> QED
        BY <4>1, <4>2
    <3>4. fd_links'[k] # None => /\ fd_links'[k].cookie = sock'[h].cookie
                                 /\ fd_links'[k].ts = sock'[h].syn_ts
      BY <1>4, <2>2, <3>0, <3>1 DEF LinkOf, SameLife
    <3> QED
      BY <1>4, <2>2, <3>0, <3>2, <3>3, <3>4 DEF LinkOf
  <2> QED
    BY <2>1, <2>2
<1> QED
  BY <1>6, <1>7, <1>8 DEF LinkInv

(* What the handlers do to the links: a connect and a close only take some *)
(* away, a conn_id binds its own key.                                      *)
LEMMA LinksShrink ==
    ASSUME LinksTyped, NEW c \in Cookies,
           (\E t \in Tgids, ts, latency \in Ts : OnConnect(c, t, ts, latency))
             \/ \E ts \in Ts : OnClose(c, ts)
    PROVE  \A k \in Keys : fd_links'[k] \in {fd_links[k], None}
<1>1. CASE \E t \in Tgids, ts, latency \in Ts : OnConnect(c, t, ts, latency)
  <2>1. PICK K : fd_links' = Without(fd_links, K)
    BY <1>1 DEF OnConnect
  <2> QED
    BY <2>1 DEF Without, LinksTyped
<1>2. CASE \E ts \in Ts : OnClose(c, ts)
  <2>1. fd_links' = fd_links \/ \E k : fd_links' = [fd_links EXCEPT ![k] = None]
    BY <1>2 DEF OnClose, links
  <2> QED
    BY <2>1 DEF LinksTyped
<1> QED
  BY <1>1, <1>2

LEMMA LinksBound ==
    ASSUME LinksTyped, NEW t \in Tgids, NEW f \in Fds, NEW c \in Cookies, NEW ts \in Ts,
           OnConnId(t, f, c, ts)
    PROVE  /\ fd_links'[<<t, f>>] = [cookie |-> c, ts |-> ts]
           /\ \A k \in Keys \ {<<t, f>>} : fd_links'[k] \in {fd_links[k], None}
<1> DEFINE k     == <<t, f>>
           bound == [Without(fd_links, OldKey(k, c)) EXCEPT ![k] = [cookie |-> c, ts |-> ts]]
<1>1. k \in Keys
  BY DEF Keys
<1>2. PICK V \in LinkVictims(k, bound) : fd_links' = Without(bound, V)
  BY DEF OnConnId
<1>3. k \notin V
  BY <1>2, VictimsSpareKeep DEF LinkVictims
<1>4. /\ bound[k] = [cookie |-> c, ts |-> ts] /\ DOMAIN bound = Keys
      /\ \A j \in Keys \ {k} : bound[j] \in {fd_links[j], None}
  BY <1>1 DEF Without, LinksTyped
<1> HIDE DEF bound, k
<1>5. fd_links'[k] = bound[k] /\ \A j \in Keys \ {k} : fd_links'[j] \in {bound[j], None}
  BY <1>1, <1>2, <1>3, <1>4 DEF Without
<1> QED
  BY <1>4, <1>5 DEF k

LEMMA LinkSteady ==
    ASSUME LinkInv, UNCHANGED <<sock, tls_events, link_gen>>,
           \A k \in Keys : fd_links'[k] \in {fd_links[k], None}
    PROVE  LinkInv'
<1>1. ASSUME NEW k \in Keys PROVE LinkOf(k)'
  <2>1. LinkOf(k) /\ fd_links'[k] \in {fd_links[k], None}
    BY DEF LinkInv
  <2> QED
    BY <2>1 DEF LinkOf, LinkKey
<1>2. \A i \in DOMAIN tls_events' : Plaintext(tls_events[i])'
  BY DEF LinkInv, Plaintext
<1>3. FdOrder(tls_events)'
  BY DEF LinkInv, FdOrder, SameFd, LinkKey
<1> QED
  BY <1>1, <1>2, <1>3 DEF LinkInv

LEMMA EventsFoldLinks ==
    ASSUME KernelTyped, LinksTyped, CriticalInv, LinkInv, FoldEvents
    PROVE  LinkInv' /\ \A k \in Keys : fd_links'[k] \in {fd_links[k], None}
<1> DEFINE e == Head(events)
           g == e.gen
           c == sock[g].cookie
<1>1. /\ e.gen \in Gens /\ e.ts \in Ts /\ sock[g] # None
      /\ c \in Cookies /\ sock[g].tgid \in Tgids
  BY HeadOfEvents DEF CriticalInv, FoldEvents
<1>2. SatSub(e.ts, sock[g].syn_ts) \in Ts
  BY <1>1, SockTyped, CorrelatorAssumption DEF SatSub, Ts
<1>3. \/ OnConnect(c, sock[g].tgid, e.ts, SatSub(e.ts, sock[g].syn_ts))
      \/ \E sni \in Snis : OnTlsHandshake(c, sni, e.ts)
      \/ \E v \in Versions : OnTlsServer(c, v, e.ts)
      \/ OnClose(c, e.ts)
  BY DEF FoldEvents
<1>4. UNCHANGED <<sock, tls_events, link_gen>>
  BY DEF FoldEvents, kernel
<1> HIDE DEF e, g, c
<1>5. \A k \in Keys : fd_links'[k] \in {fd_links[k], None}
  BY <1>1, <1>2, <1>3, LinksShrink DEF OnTlsHandshake, OnTlsServer, links
<1> QED
  BY <1>4, <1>5, LinkSteady

(* What the fold of the plaintext ring does to the links.                  *)
TlsFolded(e) ==
    /\ e \in Event /\ e = tls_events[1] /\ 1 \in DOMAIN tls_events /\ Plaintext(e)
    /\ UNCHANGED <<sock, clock, events, conns, tls, conn_gen, tls_gen>>
    /\ tls_events' \in Seq(Event) /\ Len(tls_events') + 1 = Len(tls_events)
    /\ \A i \in DOMAIN tls_events' : i \in Nat /\ i + 1 \in DOMAIN tls_events
                                     /\ tls_events'[i] = tls_events[i + 1]
    /\ \A i \in DOMAIN tls_events :
          i # 1 => i - 1 \in DOMAIN tls_events' /\ tls_events'[i - 1] = tls_events[i]

LEMMA FoldTlsIs ==
    ASSUME KernelTyped, LedgerTyped, \A i \in DOMAIN tls_events : Plaintext(tls_events[i]), FoldTls
    PROVE  LET e == Head(tls_events)
               g == e.gen
           IN  /\ TlsFolded(e) /\ g \in Gens /\ sock[g] # None /\ e.ts \in Ts
               /\ e.target \in 0 .. MaxBody
               /\ \/ /\ e.kind = "conn_id"
                     /\ OnConnId(sock[g].tgid, sock[g].fd, sock[g].cookie, e.ts)
                     /\ link_gen' = [link_gen EXCEPT ![LinkKey(g)] = g]
                     /\ op_gen' = op_gen /\ op_bio' = op_bio
                  \/ /\ e.kind = "write"
                     /\ OnTlsWrite(sock[g].tgid, PlainFd(g), e.bio, e.ts)
                     /\ op_gen' = [op_gen EXCEPT ![op_counter'] = g] /\ link_gen' = link_gen
                     /\ op_bio' = [op_bio EXCEPT ![op_counter'] = e.bio]
                  \/ /\ e.kind \in {"head", "body"} /\ FoldRead(e)
                     /\ op_gen' = op_gen /\ op_bio' = op_bio /\ link_gen' = link_gen
<1> DEFINE e == Head(tls_events)
           g == e.gen
<1>1. tls_events # <<>> /\ tls_events' = Tail(tls_events)
      /\ UNCHANGED <<sock, clock, events, conn_gen, tls_gen>>
  BY DEF FoldTls, kernel
<1>2. /\ e = tls_events[1] /\ 1 \in DOMAIN tls_events /\ e \in Event /\ Plaintext(e)
      /\ g \in Gens /\ e.ts \in Ts /\ e.target \in 0 .. MaxBody /\ sock[g] # None
  BY <1>1, HeadOfTls
<1>3. \/ /\ e.kind = "conn_id"
         /\ OnConnId(sock[g].tgid, sock[g].fd, sock[g].cookie, e.ts)
         /\ link_gen' = [link_gen EXCEPT ![LinkKey(g)] = g]
         /\ op_gen' = op_gen /\ op_bio' = op_bio
      \/ /\ e.kind = "write"
         /\ OnTlsWrite(sock[g].tgid, PlainFd(g), e.bio, e.ts)
         /\ op_gen' = [op_gen EXCEPT ![op_counter'] = g] /\ link_gen' = link_gen
         /\ op_bio' = [op_bio EXCEPT ![op_counter'] = e.bio]
      \/ /\ e.kind \in {"head", "body"} /\ FoldRead(e)
         /\ op_gen' = op_gen /\ op_bio' = op_bio /\ link_gen' = link_gen
  BY DEF FoldTls
<1>4. UNCHANGED <<conns, tls>>
  <2>1. CASE FoldRead(e)
    <3>1. OpNext \/ UNCHANGED vars
      BY <1>2, <2>1, FoldReadStep
    <3> QED
      BY <3>1, OpFrame DEF vars
  <2> QED
    BY <1>3, <2>1 DEF OnConnId, OnTlsWrite
<1>5. /\ Tail(tls_events) \in Seq(Event) /\ Len(Tail(tls_events)) = Len(tls_events) - 1
      /\ e \in Event
      /\ \A i \in DOMAIN Tail(tls_events) : i \in Nat /\ i + 1 \in DOMAIN tls_events
                                            /\ Tail(tls_events)[i] = tls_events[i + 1]
      /\ \A i \in DOMAIN tls_events : i # 1 => i - 1 \in DOMAIN Tail(tls_events)
                                            /\ Tail(tls_events)[i - 1] = tls_events[i]
  BY <1>1, TailIs DEF KernelTyped
<1>6. Len(tls_events') + 1 = Len(tls_events)
  BY <1>1, <1>5 DEF KernelTyped
<1> HIDE DEF e, g
<1>7. TlsFolded(e)
  BY <1>1, <1>2, <1>4, <1>5, <1>6 DEF TlsFolded
<1> QED
  BY <1>2, <1>3, <1>7 DEF e, g

LEMMA TlsFoldLinks ==
    ASSUME KernelTyped, GhostsTyped, LinksTyped, LedgerTyped, LinkInv, FoldTls
    PROVE  LinkInv' /\ GhostsTyped'
<1>a. \A i \in DOMAIN tls_events : Plaintext(tls_events[i])
  BY DEF LinkInv
<1>b. PICK e \in Event : e = Head(tls_events)
  BY TailIs DEF FoldTls, KernelTyped
<1> DEFINE g == e.gen
<1>1. /\ TlsFolded(e) /\ g \in Gens /\ sock[g] # None /\ e.ts \in Ts
      /\ \/ /\ e.kind = "conn_id"
            /\ OnConnId(sock[g].tgid, sock[g].fd, sock[g].cookie, e.ts)
            /\ link_gen' = [link_gen EXCEPT ![LinkKey(g)] = g]
            /\ op_gen' = op_gen /\ op_bio' = op_bio
         \/ /\ e.kind = "write"
            /\ OnTlsWrite(sock[g].tgid, PlainFd(g), e.bio, e.ts)
            /\ op_gen' = [op_gen EXCEPT ![op_counter'] = g] /\ link_gen' = link_gen
            /\ op_bio' = [op_bio EXCEPT ![op_counter'] = e.bio]
         \/ /\ e.kind \in {"head", "body"} /\ FoldRead(e)
            /\ op_gen' = op_gen /\ op_bio' = op_bio /\ link_gen' = link_gen
  BY <1>a, <1>b, FoldTlsIs
<1>2. GhostsTyped'
  <2>1. conn_gen' = conn_gen /\ tls_gen' = tls_gen
    BY <1>1 DEF TlsFolded
  <2>2. op_gen' \in [OpIds -> Gens \cup {None}] /\ link_gen' \in [Keys -> Gens \cup {None}]
    BY <1>1 DEF GhostsTyped
  <2>3. op_bio' \in [OpIds -> Cookies \cup {None}]
    BY <1>1, BioTyped DEF GhostsTyped, TlsFolded
  <2> QED
    BY <2>1, <2>2, <2>3 DEF GhostsTyped
<1>3. sock' = sock /\ \A i \in DOMAIN tls_events' : /\ i \in Nat /\ i + 1 \in DOMAIN tls_events
                                                    /\ tls_events'[i] = tls_events[i + 1]
  BY <1>1 DEF TlsFolded
<1>4. \A i \in DOMAIN tls_events' : Plaintext(tls_events[i])'
  BY <1>a, <1>3 DEF Plaintext
<1>5. FdOrder(tls_events)'
  <2> SUFFICES ASSUME NEW i \in DOMAIN tls_events', NEW j \in DOMAIN tls_events', i < j,
                      SameFd(tls_events[i].gen, tls_events[j].gen)'
               PROVE  tls_events'[i].gen <= tls_events'[j].gen
    BY DEF FdOrder
  <2>1. i + 1 < j + 1 /\ SameFd(tls_events[i + 1].gen, tls_events[j + 1].gen)
    BY <1>3 DEF SameFd, LinkKey
  <2> QED
    BY <1>3, <2>1 DEF LinkInv, FdOrder
<1>6. CASE e.kind = "conn_id"
  <2>1. /\ OnConnId(sock[g].tgid, sock[g].fd, sock[g].cookie, e.ts)
        /\ link_gen' = [link_gen EXCEPT ![LinkKey(g)] = g]
        /\ e.ts = sock[g].syn_ts
    BY <1>1, <1>6 DEF TlsFolded, Plaintext
  <2>2. /\ sock[g].tgid \in Tgids /\ sock[g].fd \in Fds /\ sock[g].cookie \in Cookies
        /\ LinkKey(g) = <<sock[g].tgid, sock[g].fd>> /\ LinkKey(g) \in Keys
    BY <1>1, SockTyped DEF LinkKey
  <2>3. /\ fd_links'[LinkKey(g)] = [cookie |-> sock[g].cookie, ts |-> sock[g].syn_ts]
        /\ \A k \in Keys \ {LinkKey(g)} : fd_links'[k] \in {fd_links[k], None}
    BY <1>1, <2>1, <2>2, LinksBound
  <2>4. LinkOf(LinkKey(g))'
    <3>1. PICK k \in Keys : k = LinkKey(g)
      BY <2>2
    <3>2. link_gen'[k] = g /\ sock'[g] # None /\ LinkKey(g)' = k
      BY <1>1, <1>3, <2>1, <3>1 DEF LinkKey, GhostsTyped
    <3>3. ASSUME NEW i \in DOMAIN tls_events', LinkKey(tls_events[i].gen)' = k
          PROVE  g <= tls_events'[i].gen
      <4>1. /\ i + 1 \in DOMAIN tls_events /\ tls_events'[i] = tls_events[i + 1]
            /\ 1 < i + 1 /\ 1 \in DOMAIN tls_events /\ e = tls_events[1]
        BY <1>1, <1>3, DomainIs DEF TlsFolded
      <4>2. SameFd(tls_events[1].gen, tls_events[i + 1].gen)
        BY <1>3, <3>1, <3>3, <4>1 DEF SameFd, LinkKey
      <4> QED
        BY <4>1, <4>2 DEF LinkInv, FdOrder
    <3>4. fd_links'[k].cookie = sock'[g].cookie /\ fd_links'[k].ts = sock'[g].syn_ts
      BY <1>3, <2>3, <3>1
    <3>5. LinkOf(k)'
      BY <1>1, <3>2, <3>3, <3>4, CaptureAssumption DEF LinkOf, LinkKey
    <3> QED
      BY <1>3, <3>1, <3>5 DEF LinkOf, LinkKey
  <2>5. ASSUME NEW k \in Keys, k # LinkKey(g) PROVE LinkOf(k)'
    <3>1. LinkOf(k) /\ link_gen'[k] = link_gen[k] /\ fd_links'[k] \in {fd_links[k], None}
      BY <2>1, <2>3, <2>5 DEF LinkInv, GhostsTyped
    <3> QED
      BY <1>3, <3>1 DEF LinkOf, LinkKey
  <2>6. PICK l \in Keys : l = LinkKey(g)
    BY <2>2
  <2>7. LinkOf(l)'
    BY <1>3, <2>4, <2>6 DEF LinkOf, LinkKey
  <2> QED
    BY <1>2, <1>4, <1>5, <2>5, <2>6, <2>7 DEF LinkInv
<1>7. CASE e.kind # "conn_id"
  <2>1. link_gen' = link_gen /\ fd_links' = fd_links
    <3>1. CASE FoldRead(e)
      <4>1. OpNext \/ UNCHANGED vars
        BY <1>a, <1>b, <3>1, FoldTlsIs, FoldReadStep DEF TlsFolded
      <4> QED
        BY <1>1, <1>7, <4>1, OpFrame DEF vars, links
    <3> QED
      BY <1>1, <1>7, <3>1 DEF OnTlsWrite, links
  <2>2. ASSUME NEW k \in Keys PROVE LinkOf(k)'
    <3>1. LinkOf(k)
      BY DEF LinkInv
    <3> QED
      BY <1>3, <2>1, <3>1 DEF LinkOf, LinkKey
  <2> QED
    BY <1>2, <1>4, <1>5, <2>2 DEF LinkInv
<1> QED
  BY <1>6, <1>7

(* The heart of CloseSparesLive: a close that finds a live connection's    *)
(* link under its pointer is of an earlier life, and stamped before it.    *)
LEMMA CloseSpares ==
    ASSUME KernelTyped, Lives, LinksTyped, LedgerTyped, LinksInverse, CriticalInv, LinkInv,
           FoldEvents, Head(events).kind = "close", NEW g \in Gens, Linked(g)
    PROVE  /\ fd_links'[LinkKey(g)] = fd_links[LinkKey(g)]
           /\ ops'[LinkKey(g)] = ops[LinkKey(g)]
<1> DEFINE e == Head(events)
           h == e.gen
           c == sock[h].cookie
           k == LinkKey(g)
           r == fd_links_rev[c]
<1>1. /\ Critical(e) /\ h \in Gens /\ e.ts \in Ts /\ sock[h] # None /\ c \in Cookies
  BY HeadOfEvents DEF CriticalInv, FoldEvents
<1>2. OnClose(c, e.ts)
  BY DEF FoldEvents
<1>3. /\ HoldsFd(g) /\ HoldsPointer(g) /\ sock[g] # None /\ link_gen[k] = g
      /\ fd_links[k] # None /\ fd_links[k].cookie = sock[g].cookie
      /\ k \in Keys /\ k[2] # 0
  BY SockTyped DEF Linked, HoldsFd, HoldsPointer
<1>4. fd_links[k].ts = sock[g].syn_ts /\ sock[g].syn_ts \in Ts
  BY <1>3, SockTyped DEF LinkInv, LinkOf
<1>5. ~HoldsPointer(h) /\ 0 < e.ts
      /\ \A x \in Gens : (sock[x] # None /\ x > h /\ SamePointer(x, h)) => e.ts < sock[x].syn_ts
  BY <1>1 DEF Critical
<1>6. OwnLink(c, e.ts) => r # k
  <2> SUFFICES ASSUME OwnLink(c, e.ts), r = k PROVE FALSE
    OBVIOUS
  <2>1. fd_links[r].cookie = c
    BY <1>1 DEF LinksInverse, OwnLink
  <2>2. SamePointer(g, h)
    BY <1>3, <2>1 DEF SamePointer
  <2>3. h <= g /\ h # g
    BY <1>1, <1>3, <1>5, <2>2, LivesOrder
  <2>4. e.ts < sock[g].syn_ts
    BY <1>1, <1>3, <1>5, <2>2, <2>3 DEF Gens
  <2>5. fd_links[k].ts <= e.ts
    BY <1>1, <1>3, <1>5 DEF OwnLink, Ts
  <2> QED
    BY <1>1, <1>4, <2>4, <2>5 DEF Ts
<1> HIDE DEF e, h, c, k
<1>7. fd_links'[k] = fd_links[k]
  <2>1. CASE OwnLink(c, e.ts)
    <3>1. fd_links' = [fd_links EXCEPT ![r] = None]
      BY <1>2, <2>1 DEF OnClose
    <3> QED
      BY <1>3, <1>6, <2>1, <3>1 DEF LinksTyped
  <2>2. CASE ~OwnLink(c, e.ts)
    BY <1>2, <2>2 DEF OnClose, links
  <2> QED
    BY <2>1, <2>2
<1>8. PICK K \in ClosingSlots(c, e.ts) : FlushAndDrop(K)
  BY <1>2 DEF OnClose
<1>9. k \notin K
  <2>1. CASE OwnLink(c, e.ts)
    <3>1. K = {r}
      BY <1>8, <2>1 DEF ClosingSlots
    <3> QED
      BY <1>6, <2>1, <3>1
  <2>2. CASE ~OwnLink(c, e.ts)
    <3>1. K = {} \/ (\E j \in BioOpen(c) : K = {j}) \/ \E j \in BioOwned(c) : K = {j}
      BY <1>8, <2>2 DEF ClosingSlots
    <3>2. \A j \in BioOpen(c) \cup BioOwned(c) : j[2] = 0
      BY DEF BioOpen, BioOwned, Opened, BioKeys
    <3> QED
      BY <1>3, <3>1, <3>2
  <2> QED
    BY <2>1, <2>2
<1>10. ops'[k] = ops[k]
  BY <1>3, <1>8, <1>9 DEF FlushAndDrop, Without, LedgerTyped
<1> QED
  BY <1>7, <1>10 DEF k

-----------------------------------------------------------------------------
(* The invariant that needs no assumption on what the rings lose           *)

SafeInv == Inv /\ KernelTyped /\ GhostsTyped /\ Lives /\ CriticalInv /\ LinkInv

LEMMA SafeParts ==
    ASSUME SafeInv
    PROVE  /\ Inv /\ ConnsTyped /\ LinksTyped /\ LedgerTyped /\ LinksInverse
           /\ SeqBounded /\ OpConserved
           /\ KernelTyped /\ GhostsTyped /\ Lives /\ CriticalInv /\ LinkInv
           /\ \A i \in DOMAIN events : Critical(events[i])
           /\ \A i \in DOMAIN tls_events : Plaintext(tls_events[i])
  BY InvParts DEF SafeInv, CriticalInv, LinkInv

LEMMA SafeInit == CaptureInit => SafeInv /\ TlsFactsNotInherited
<1> SUFFICES ASSUME CaptureInit PROVE SafeInv /\ TlsFactsNotInherited
  OBVIOUS
<1>1. Inv
  BY InitInv DEF CaptureInit
<1>2. KernelTyped /\ GhostsTyped
  BY CorrelatorAssumption DEF CaptureInit, KernelTyped, GhostsTyped, Ts
<1>3. Lives
  BY DEF CaptureInit, Lives
<1>4. CriticalInv
  BY DEF CaptureInit, CriticalInv, PointerOrder, NotAhead, Init
<1>5. LinkInv
  BY DEF CaptureInit, LinkInv, FdOrder, LinkOf, Init
<1>6. TlsFactsNotInherited
  BY DEF CaptureInit, TlsFactsNotInherited, Init
<1> QED
  BY <1>1, <1>2, <1>3, <1>4, <1>5, <1>6 DEF SafeInv

LEMMA CriticalSteady ==
    ASSUME CriticalInv, UNCHANGED <<sock, clock, events, conns, tls, conn_gen, tls_gen>>
    PROVE  CriticalInv'
  BY DEF CriticalInv, Critical, PointerOrder, NotAhead, SamePointer, HoldsPointer

LEMMA SafeStep ==
    SafeInv /\ [CaptureNext]_all =>
        SafeInv' /\ [Next]_vars /\ (TlsFactsNotInherited => TlsFactsNotInherited')
<1> SUFFICES ASSUME SafeInv, [CaptureNext]_all
             PROVE  SafeInv' /\ [Next]_vars /\ (TlsFactsNotInherited => TlsFactsNotInherited')
  OBVIOUS
<1> USE SafeParts
<1>1. [Next]_vars
  BY CaptureStep
<1>2. Inv'
  BY <1>1, NextInv
<1>3. CASE KernelNext /\ ~Still
  <2>1. PICK g \in Gens : KernelStep(g)
    BY <1>3, KernelSteps
  <2>2. KernelTyped' /\ Lives' /\ UNCHANGED vars /\ UNCHANGED ghosts
    BY <2>1 DEF KernelStep
  <2>3. GhostsTyped' /\ (TlsFactsNotInherited => TlsFactsNotInherited')
    BY <2>2 DEF GhostsTyped, TlsFactsNotInherited, ghosts, vars
  <2>4. CriticalInv' /\ LinkInv'
    BY <2>1, CriticalGrows, LinkGrows
  <2> QED
    BY <1>1, <1>2, <2>2, <2>3, <2>4 DEF SafeInv
<1>4. CASE FoldEvents
  <2>1. KernelTyped' /\ Lives'
    BY <1>4, FoldKernel
  <2>2. /\ CriticalInv' /\ conn_gen' \in [Cookies -> Gens \cup {None}]
        /\ tls_gen' \in [Cookies -> Gens \cup {None}]
        /\ TlsFactsNotInherited => TlsFactsNotInherited'
    BY <1>4, CriticalFolded
  <2>3. GhostsTyped'
    BY <1>4, <2>2 DEF FoldEvents, GhostsTyped
  <2>4. LinkInv'
    BY <1>4, EventsFoldLinks
  <2> QED
    BY <1>1, <1>2, <2>1, <2>2, <2>3, <2>4 DEF SafeInv
<1>5. CASE FoldTls
  <2>1. KernelTyped' /\ Lives'
    BY <1>5, FoldKernel
  <2>2. LinkInv' /\ GhostsTyped'
    BY <1>5, TlsFoldLinks
  <2>3. UNCHANGED <<sock, clock, events, conns, tls, conn_gen, tls_gen>>
    BY <1>5, FoldTlsIs DEF TlsFolded
  <2>4. CriticalInv' /\ (TlsFactsNotInherited => TlsFactsNotInherited')
    BY <2>3, CriticalSteady DEF TlsFactsNotInherited
  <2> QED
    BY <1>1, <1>2, <2>1, <2>2, <2>4 DEF SafeInv
<1>6. CASE Drain \/ Still
  <2>1. KernelTyped' /\ Lives'
    BY <1>6, FoldKernel
  <2>2. UNCHANGED <<sock, clock, events, tls_events, conns, tls, fd_links,
                    op_gen, op_bio, conn_gen, tls_gen, link_gen>>
    BY <1>6 DEF Drain, TakeFlushedOps, Still, vars, kernel, rings, ghosts, links
  <2>3. GhostsTyped' /\ LinkInv'
    BY <2>2, LinkSteady DEF GhostsTyped
  <2>4. CriticalInv' /\ (TlsFactsNotInherited => TlsFactsNotInherited')
    BY <2>2, CriticalSteady DEF TlsFactsNotInherited
  <2> QED
    BY <1>1, <1>2, <2>1, <2>3, <2>4 DEF SafeInv
<1> QED
  BY <1>3, <1>4, <1>5, <1>6, StillStep DEF CaptureNext

(* Behind the probes and the rings the engine is still the engine: every   *)
(* event reaches it as an input its own specification allows, so that its  *)
(* theorems hold of the whole path.                                        *)
THEOREM CaptureRefines == CaptureSpec => Spec
<1>1. CaptureInit => Init
  BY DEF CaptureInit
<1> QED
  BY <1>1, SafeInit, SafeStep, PTL DEF CaptureSpec, Spec

(* The invariant of the engine, the kernel's side, the rings and the links. *)
THEOREM SafeHolds == CaptureSpec => []SafeInv
  BY SafeInit, SafeStep, PTL DEF CaptureSpec

(* A record that saw its own connect carries no TLS facts of the pointer's *)
(* earlier life, whatever the rings lost: folding the connect forgets      *)
(* them, and the ring delivers a pointer's hellos in the order of its      *)
(* lives.                                                                  *)
THEOREM FactsAreOwn == CaptureSpec => []TlsFactsNotInherited
  BY SafeInit, SafeStep, SafeHolds, PTL DEF CaptureSpec

(* Folding a close, however late and whatever was lost before it, takes    *)
(* neither the link nor the request of a live connection that has its      *)
(* pointer now.                                                            *)
THEOREM ClosesSpare == CaptureSpec => CloseSparesLive
<1> DEFINE Act == \A g \in Gens :
         (Linked(g) /\ events # <<>> /\ events' = Tail(events) /\ Head(events).kind = "close") =>
            /\ fd_links'[LinkKey(g)] = fd_links[LinkKey(g)]
            /\ ops'[LinkKey(g)] = ops[LinkKey(g)]
<1>1. SafeInv /\ [CaptureNext]_all => [Act]_all
  <2> SUFFICES ASSUME SafeInv, [CaptureNext]_all, NEW g \in Gens, Linked(g),
                      events # <<>>, events' = Tail(events), Head(events).kind = "close"
               PROVE  /\ fd_links'[LinkKey(g)] = fd_links[LinkKey(g)]
                      /\ ops'[LinkKey(g)] = ops[LinkKey(g)]
    OBVIOUS
  <2> USE SafeParts
  <2>1. Len(events') = Len(events) - 1 /\ Len(events) \in Nat
    BY TailIs DEF KernelTyped
  <2>2. FoldEvents
    <3>1. ASSUME events' = events PROVE FALSE
      BY <2>1, <3>1
    <3>2. ASSUME KernelNext PROVE FALSE
      <4>1. PICK h \in Gens : KernelStep(h)
        BY <3>1, <3>2, KernelSteps DEF Still, rings
      <4>2. DOMAIN events \subseteq DOMAIN events' /\ events' \in Seq(Event)
        BY <4>1 DEF KernelStep, EmittedCritical, Grown, KernelTyped
      <4>3. Len(events) \in DOMAIN events
        BY TailIs DEF KernelTyped
      <4> QED
        BY <2>1, <4>2, <4>3
    <3> QED
      BY <3>1, <3>2 DEF CaptureNext, FoldTls, Drain, all, rings
  <2> QED
    BY <2>2, CloseSpares
<1> QED
  BY <1>1, SafeHolds, PTL DEF CaptureSpec, CloseSparesLive

-----------------------------------------------------------------------------
(* One life per record. These need the plaintext ring to lose nothing: of  *)
(* a connection whose conn_id is lost the engine still holds the fd's      *)
(* previous link.                                                          *)

(* The ring has room for whatever may be stamped next, so that no event is *)
(* lost; a bounded clock is enough for that in a ring as long as it runs.  *)
Room == clock < MaxTs => Len(tls_events) < TlsCap
NothingLost == Len(tls_events) <= clock

(* What is ahead stays ahead as the ring grows at its end.                 *)
LEMMA AheadStays ==
    ASSUME KernelTyped, Lives, \A i \in DOMAIN tls_events : Plaintext(tls_events[i]),
           NEW g \in Gens, KernelStep(g), NEW kind, NEW h, NEW n, Ahead(kind, h, n)
    PROVE  \E j \in DOMAIN tls_events' : /\ j < n /\ j <= Len(tls_events)
                                         /\ tls_events'[j].kind = kind /\ tls_events'[j].gen = h
<1>1. \A j \in DOMAIN tls_events : /\ j <= Len(tls_events)
                                   /\ j \in DOMAIN tls_events' /\ tls_events'[j] = tls_events[j]
  BY TlsGrown
<1> QED
  BY <1>1 DEF Ahead

LEMMA AheadAtEnd ==
    ASSUME KernelTyped, Lives, \A i \in DOMAIN tls_events : Plaintext(tls_events[i]),
           NEW g \in Gens, KernelStep(g), NEW kind, NEW h,
           Ahead(kind, h, Len(tls_events) + 1) \/ (h = g /\ Sent(kind, g))
    PROVE  \E j \in DOMAIN tls_events' : /\ j < Len(tls_events') + 1
                                         /\ tls_events'[j].kind = kind /\ tls_events'[j].gen = h
<1>1. /\ \A j \in DOMAIN tls_events : /\ j \in DOMAIN tls_events' /\ tls_events'[j] = tls_events[j]
      /\ \A j \in DOMAIN tls_events' : j \in Nat /\ j <= Len(tls_events')
      /\ Len(tls_events') \in Nat
  BY TlsGrown
<1>2. \A j \in DOMAIN tls_events' : j < Len(tls_events') + 1
  BY <1>1
<1> QED
  BY <1>1, <1>2 DEF Ahead, Sent

LEMMA AnnouncedGrows ==
    ASSUME KernelTyped, Lives, LinkInv, Room, AnnouncedFirst,
           NEW g \in Gens, KernelStep(g)
    PROVE  AnnouncedFirst'
<1>0. /\ \A i \in DOMAIN tls_events : Plaintext(tls_events[i])
      /\ EmittedPlain(g)
  BY DEF LinkInv, KernelStep
<1>1. /\ \A i \in DOMAIN tls_events :
             /\ i \in Nat /\ i <= Len(tls_events) /\ tls_events[i].gen \in Gens
             /\ SameLife(tls_events[i].gen) /\ tls_events'[i] = tls_events[i]
      /\ \A i \in DOMAIN tls_events' : /\ i \in Nat
                                       /\ i \notin DOMAIN tls_events =>
                                             i > Len(tls_events) /\ tls_events'[i].gen = g
      /\ Len(tls_events) \in Nat /\ Len(tls_events') \in Nat
      /\ \A h \in Gens : sock[h] # None => SameLife(h)
      /\ link_gen' = link_gen
  BY <1>0, TlsGrown
<1>2. clock < clock' => Len(tls_events) < TlsCap
  BY CorrelatorAssumption DEF KernelStep, KernelTyped, Ts, Room
<1>3. ASSUME NEW h \in Gens, SameLife(h) PROVE LinkKey(h)' = LinkKey(h)
  BY <1>3 DEF SameLife, LinkKey
<1>4. ASSUME NEW h \in Gens, HoldsFd(h)' PROVE Announced(h, Len(tls_events) + 1)'
  <2>1. CASE HoldsFd(h)
    <3>1. Announced(h, Len(tls_events) + 1) /\ SameLife(h)
      BY <1>1, <2>1 DEF AnnouncedFirst, HoldsFd
    <3>2. CASE link_gen[LinkKey(h)] = h
      BY <1>1, <1>3, <3>1, <3>2 DEF Announced
    <3>3. CASE Ahead("conn_id", h, Len(tls_events) + 1)
      BY <1>0, <3>3, AheadAtEnd DEF Announced, Ahead
    <3> QED
      BY <3>1, <3>2, <3>3 DEF Announced
  <2>2. CASE ~HoldsFd(h)
    <3>1. h = g /\ Sent("conn_id", g)
      BY <1>0, <1>2, <1>4, <2>2 DEF EmittedPlain
    <3> QED
      <4>1. \E j \in DOMAIN tls_events' :
                /\ j < Len(tls_events') + 1
                /\ tls_events'[j].kind = "conn_id" /\ tls_events'[j].gen = g
        BY <1>0, <3>1, AheadAtEnd
      <4> QED
        BY <3>1, <4>1 DEF Announced, Ahead
  <2> QED
    BY <2>1, <2>2
<1>5. ASSUME NEW i \in DOMAIN tls_events', tls_events'[i].kind # "conn_id"
      PROVE  Announced(tls_events[i].gen, i)'
  <2>1. CASE i \in DOMAIN tls_events
    <3> DEFINE h == tls_events[i].gen
    <3>1. Announced(h, i) /\ h \in Gens /\ SameLife(h) /\ tls_events'[i] = tls_events[i] /\ i \in Nat
      BY <1>1, <1>5, <2>1 DEF AnnouncedFirst
    <3>2. CASE link_gen[LinkKey(h)] = h
      BY <1>1, <3>1, <3>2 DEF Announced, LinkKey, SameLife
    <3>3. CASE Ahead("conn_id", h, i)
      <4>1. \E j \in DOMAIN tls_events' :
                j < i /\ tls_events'[j].kind = "conn_id" /\ tls_events'[j].gen = h
        BY <1>0, <3>1, <3>3, AheadStays
      <4> QED
        BY <3>1, <4>1 DEF Announced, Ahead
    <3> QED
      BY <3>1, <3>2, <3>3 DEF Announced
  <2>2. CASE i \notin DOMAIN tls_events
    <3>1. tls_events'[i].gen = g /\ HoldsFd(g) /\ i > Len(tls_events) /\ i \in Nat
      BY <1>0, <1>1, <1>5, <2>2 DEF EmittedPlain
    <3>2. Announced(g, Len(tls_events) + 1) /\ SameLife(g)
      BY <1>1, <3>1 DEF AnnouncedFirst, HoldsFd
    <3>3. CASE link_gen[LinkKey(g)] = g
      BY <1>1, <3>1, <3>2, <3>3 DEF Announced, LinkKey, SameLife
    <3>4. CASE Ahead("conn_id", g, Len(tls_events) + 1)
      <4>1. PICK j \in DOMAIN tls_events' : /\ j <= Len(tls_events)
                                            /\ tls_events'[j].kind = "conn_id" /\ tls_events'[j].gen = g
        BY <1>0, <3>4, AheadStays
      <4>2. j < i
        BY <1>1, <3>1, <4>1
      <4> QED
        BY <3>1, <4>1, <4>2 DEF Announced, Ahead
    <3> QED
      BY <3>2, <3>3, <3>4 DEF Announced
  <2> QED
    BY <2>1, <2>2
<1> QED
  BY <1>4, <1>5 DEF AnnouncedFirst

LEMMA AskedGrows ==
    ASSUME KernelTyped, Lives, LinkInv, Room, AskedFirst,
           NEW g \in Gens, KernelStep(g)
    PROVE  AskedFirst'
<1>0. /\ \A i \in DOMAIN tls_events : Plaintext(tls_events[i])
      /\ EmittedPlain(g)
  BY DEF LinkInv, KernelStep
<1>1. /\ \A i \in DOMAIN tls_events :
             /\ i \in Nat /\ i <= Len(tls_events) /\ tls_events[i].gen \in Gens
             /\ tls_events'[i] = tls_events[i]
      /\ \A i \in DOMAIN tls_events' : /\ i \in Nat
                                       /\ i \notin DOMAIN tls_events =>
                                             i > Len(tls_events) /\ tls_events'[i].gen = g
      /\ Len(tls_events) \in Nat /\ Len(tls_events') \in Nat
      /\ op_gen' = op_gen
  BY <1>0, TlsGrown
<1>2. clock < clock' => Len(tls_events) < TlsCap
  BY CorrelatorAssumption DEF KernelStep, KernelTyped, Ts, Room
<1>3. \A h : Wrote(h) => \E i \in OpIds : op_gen'[i] = h
  BY <1>1 DEF Wrote
<1>4. ASSUME NEW h \in Gens, sock'[h] # None, sock'[h].http # "idle"
      PROVE  (Wrote(h) \/ Ahead("write", h, Len(tls_events) + 1))'
  <2>1. CASE sock[h] # None /\ sock[h].http # "idle"
    <3>1. Wrote(h) \/ Ahead("write", h, Len(tls_events) + 1)
      BY <2>1 DEF AskedFirst
    <3>2. CASE Wrote(h)
      BY <1>3, <3>2 DEF Wrote
    <3>3. CASE Ahead("write", h, Len(tls_events) + 1)
      <4>1. \E j \in DOMAIN tls_events' :
                /\ j < Len(tls_events') + 1
                /\ tls_events'[j].kind = "write" /\ tls_events'[j].gen = h
        BY <1>0, <3>3, AheadAtEnd
      <4> QED
        BY <4>1 DEF Ahead
    <3> QED
      BY <3>1, <3>2, <3>3
  <2>2. CASE ~(sock[h] # None /\ sock[h].http # "idle")
    <3>1. h = g /\ Sent("write", g)
      BY <1>0, <1>2, <1>4, <2>2 DEF EmittedPlain
    <3> QED
      <4>1. \E j \in DOMAIN tls_events' :
                /\ j < Len(tls_events') + 1
                /\ tls_events'[j].kind = "write" /\ tls_events'[j].gen = g
        BY <1>0, <3>1, AheadAtEnd
      <4> QED
        BY <3>1, <4>1 DEF Ahead
  <2> QED
    BY <2>1, <2>2
<1>5. ASSUME NEW i \in DOMAIN tls_events', tls_events'[i].kind \in {"head", "body"}
      PROVE  (Wrote(tls_events[i].gen) \/ Ahead("write", tls_events[i].gen, i))'
  <2>1. CASE i \in DOMAIN tls_events
    <3> DEFINE h == tls_events[i].gen
    <3>1. (Wrote(h) \/ Ahead("write", h, i)) /\ tls_events'[i] = tls_events[i] /\ i \in Nat
      BY <1>1, <1>5, <2>1 DEF AskedFirst
    <3>2. CASE Wrote(h)
      BY <1>3, <3>1, <3>2 DEF Wrote
    <3>3. CASE Ahead("write", h, i)
      <4>1. \E j \in DOMAIN tls_events' :
                j < i /\ tls_events'[j].kind = "write" /\ tls_events'[j].gen = h
        BY <1>0, <3>1, <3>3, AheadStays
      <4> QED
        BY <3>1, <4>1 DEF Ahead
    <3> QED
      BY <3>1, <3>2, <3>3
  <2>2. CASE i \notin DOMAIN tls_events
    <3>1. /\ tls_events'[i].gen = g /\ i > Len(tls_events) /\ i \in Nat
          /\ sock[g].http # "idle" /\ HoldsFd(g)
      BY <1>0, <1>1, <1>5, <2>2 DEF EmittedPlain
    <3>2. Wrote(g) \/ Ahead("write", g, Len(tls_events) + 1)
      BY <3>1 DEF AskedFirst, HoldsFd
    <3>3. CASE Wrote(g)
      BY <1>3, <3>1, <3>3 DEF Wrote
    <3>4. CASE Ahead("write", g, Len(tls_events) + 1)
      <4>1. PICK j \in DOMAIN tls_events' : /\ j <= Len(tls_events)
                                            /\ tls_events'[j].kind = "write" /\ tls_events'[j].gen = g
        BY <1>0, <3>4, AheadStays
      <4>2. j < i
        BY <1>1, <3>1, <4>1
      <4> QED
        BY <3>1, <4>1, <4>2 DEF Ahead
    <3> QED
      BY <3>2, <3>3, <3>4
  <2> QED
    BY <2>1, <2>2
<1> QED
  BY <1>4, <1>5 DEF AskedFirst

LEMMA OwnGrows ==
    ASSUME KernelTyped, Lives, GhostsTyped, LedgerTyped, LinkInv, OpenIsOwn, SlotsAreOwn,
           WritersKnown, WritesInOrder, NEW g \in Gens, KernelStep(g)
    PROVE  OpenIsOwn' /\ SlotsAreOwn' /\ WritersKnown' /\ WritesInOrder'
<1>0. /\ \A i \in DOMAIN tls_events : Plaintext(tls_events[i])
      /\ EmittedPlain(g) /\ Lives' /\ KernelTyped'
  BY DEF LinkInv, KernelStep
<1>1. \A i \in DOMAIN tls_events :
             /\ i \in Nat /\ i <= Len(tls_events) /\ tls_events[i].gen \in Gens
             /\ i \in DOMAIN tls_events' /\ tls_events'[i] = tls_events[i]
             /\ sock[tls_events[i].gen] # None /\ SameLife(tls_events[i].gen)
  BY <1>0, TlsGrown
<1>2. \A i \in DOMAIN tls_events' : /\ i \in Nat
                                    /\ i \notin DOMAIN tls_events =>
                                          /\ i > Len(tls_events) /\ tls_events'[i].gen = g
                                          /\ HoldsFd(g)' /\ sock'[g] # None
  BY <1>0, TlsGrown
<1>3. /\ UNCHANGED <<ops, op_counter, op_gen, op_bio, link_gen>>
      /\ \A h \in Gens : sock[h] # None => SameLife(h)
      /\ Len(tls_events) \in Nat /\ Len(tls_events') \in Nat
  BY <1>0, TlsGrown
<1>4. ASSUME NEW h \in Gens, SameLife(h)
      PROVE  /\ PlainKey(h)' = PlainKey(h)
             /\ sock'[h].observed = sock[h].observed /\ sock'[h].cookie = sock[h].cookie
  BY <1>4 DEF SameLife, PlainKey, PlainFd
<1>5. \A i \in OpIds : op_gen[i] # None => op_gen[i] \in Gens /\ SameLife(op_gen[i])
  BY <1>3 DEF WritersKnown, GhostsTyped
<1>6. \A k \in Keys : HasOpen(k) => ops[k].open.id \in OpIds /\ op_gen[ops[k].open.id] # None
  BY OpenTyped, CaptureAssumption DEF OpenIsOwn
<1>7. OpenIsOwn'
  <2> SUFFICES ASSUME NEW k \in Keys, HasOpen(k), NEW h, h = op_gen[ops[k].open.id]
               PROVE  /\ h \in Gens /\ sock'[h] # None /\ PlainKey(h)' = k
                      /\ ops[k].open.cookie = op_bio[ops[k].open.id]
                      /\ sock'[h].observed => link_gen[k] = h /\ op_bio[ops[k].open.id] = None
    BY <1>3 DEF OpenIsOwn, HasOpen
  <2>1. /\ h \in Gens /\ SameLife(h) /\ PlainKey(h) = k
        /\ ops[k].open.cookie = op_bio[ops[k].open.id]
        /\ sock[h].observed => link_gen[k] = h /\ op_bio[ops[k].open.id] = None
    BY <1>5, <1>6 DEF OpenIsOwn
  <2> QED
    BY <1>4, <2>1 DEF SameLife
<1>8. SlotsAreOwn'
  BY <1>3 DEF SlotsAreOwn, HasOpen, Predecessor
<1>9. WritersKnown'
  BY <1>3, <1>5 DEF WritersKnown, SameLife
<1>10. ASSUME NEW h \in Gens, sock'[h] # None, SamePointer(g, h)', HoldsFd(g)' PROVE h <= g
  <2>1. sock'[g] # None /\ HoldsPointer(g)'
    BY <1>10 DEF HoldsFd, HoldsPointer
  <2>2. h > g => ~HoldsPointer(g)'
    BY <1>0, <1>10, <2>1 DEF Lives, SamePointer, Gens
  <2> QED
    BY <1>10, <2>1, <2>2 DEF Gens
<1>11. WritesInOrder'
  <2>1. PointerOrder(tls_events)'
    <3> SUFFICES ASSUME NEW i \in DOMAIN tls_events', NEW j \in DOMAIN tls_events', i < j,
                        SamePointer(tls_events[i].gen, tls_events[j].gen)'
                 PROVE  tls_events'[i].gen <= tls_events'[j].gen
      BY DEF PointerOrder
    <3>1. CASE j \in DOMAIN tls_events
      <4>1. i \in DOMAIN tls_events
        BY <1>1, <1>2, <3>1
      <4>2. SamePointer(tls_events[i].gen, tls_events[j].gen)
        BY <1>1, <1>4, <3>1, <4>1 DEF SamePointer
      <4> QED
        BY <1>1, <3>1, <4>1, <4>2 DEF WritesInOrder, PointerOrder
    <3>2. CASE j \notin DOMAIN tls_events /\ i \in DOMAIN tls_events
      <4>1. /\ tls_events'[j].gen = g /\ HoldsFd(g)' /\ tls_events'[i].gen \in Gens
            /\ sock'[tls_events'[i].gen] # None
        BY <1>1, <1>2, <3>2 DEF SameLife
      <4>2. PICK h \in Gens : h = tls_events'[i].gen
        BY <4>1
      <4>3. SamePointer(g, h)'
        BY <4>1, <4>2 DEF SamePointer
      <4> QED
        BY <1>10, <4>1, <4>2, <4>3
    <3>3. CASE j \notin DOMAIN tls_events /\ i \notin DOMAIN tls_events
      BY <1>2, <3>3 DEF Gens
    <3> QED
      BY <3>1, <3>2, <3>3
  <2>2. ASSUME NEW i \in OpIds, NEW n \in DOMAIN tls_events', op_gen[i] # None,
               sock'[op_gen[i]].cookie = sock'[tls_events'[n].gen].cookie
        PROVE  op_gen[i] <= tls_events'[n].gen
    <3>1. PICK h \in Gens : h = op_gen[i] /\ SameLife(h)
      BY <1>5, <2>2
    <3>2. CASE n \in DOMAIN tls_events
      <4>1. SamePointer(h, tls_events[n].gen)
        BY <1>1, <1>4, <2>2, <3>1, <3>2 DEF SamePointer
      <4> QED
        BY <1>1, <2>2, <3>1, <3>2, <4>1 DEF WritesInOrder
    <3>3. CASE n \notin DOMAIN tls_events
      <4>1. tls_events'[n].gen = g /\ HoldsFd(g)' /\ sock'[h] # None
        BY <1>2, <3>1, <3>3 DEF SameLife
      <4>2. SamePointer(g, h)'
        BY <2>2, <3>1, <4>1 DEF SamePointer
      <4> QED
        BY <1>10, <3>1, <4>1, <4>2
    <3> QED
      BY <3>2, <3>3
  <2>3. ASSUME NEW k \in Keys, NEW i \in OpIds, HasOpen(k), op_gen[i] # None,
               PlainKey(op_gen[i])' = k,
               sock'[op_gen[i]].cookie = sock'[op_gen[ops[k].open.id]].cookie
        PROVE  op_gen[i] <= op_gen[ops[k].open.id]
    <3>1. PICK h \in Gens : h = op_gen[i] /\ SameLife(h)
      BY <1>5, <2>3
    <3>2. PICK x \in Gens : x = op_gen[ops[k].open.id] /\ SameLife(x)
      BY <1>5, <1>6, <2>3
    <3>3. PlainKey(h) = k
      BY <1>3, <1>4, <2>3, <3>1 DEF PlainKey, PlainFd
    <3>4. SamePointer(h, x)
      BY <1>4, <2>3, <3>1, <3>2 DEF SamePointer
    <3> QED
      BY <2>3, <3>1, <3>2, <3>3, <3>4 DEF WritesInOrder
  <2> QED
    BY <1>3, <2>1, <2>2, <2>3 DEF WritesInOrder, SamePointer, HasOpen, PlainKey, PlainFd
<1> QED
  BY <1>7, <1>8, <1>9, <1>11

(* A fold that opens no request, of either ring, changes no owner: a slot  *)
(* whose link moves is retired in the same step.                           *)
TlsKept ==
    \E d \in Nat : \A i \in DOMAIN tls_events' :
        i \in Nat /\ i + d \in DOMAIN tls_events /\ tls_events'[i] = tls_events[i + d]

LEMMA OrderKept ==
    ASSUME PointerOrder(tls_events), TlsKept, sock' = sock
    PROVE  PointerOrder(tls_events)'
<1>1. PICK d \in Nat : \A i \in DOMAIN tls_events' :
        i \in Nat /\ i + d \in DOMAIN tls_events /\ tls_events'[i] = tls_events[i + d]
  BY DEF TlsKept
<1> SUFFICES ASSUME NEW i \in DOMAIN tls_events', NEW j \in DOMAIN tls_events', i < j,
                    SamePointer(tls_events[i].gen, tls_events[j].gen)'
             PROVE  tls_events'[i].gen <= tls_events'[j].gen
  BY DEF PointerOrder
<1>2. i + d < j + d /\ SamePointer(tls_events[i + d].gen, tls_events[j + d].gen)
  BY <1>1 DEF SamePointer
<1> QED
  BY <1>1, <1>2 DEF PointerOrder

LEMMA OwnSteady ==
    ASSUME LedgerTyped, GhostsTyped, OpenIsOwn, SlotsAreOwn, WritersKnown, WritesInOrder,
           NoneOpened, TlsKept, sock' = sock, op_gen' = op_gen, op_bio' = op_bio,
           \A k \in Keys : ops'[k] # None => link_gen'[k] = link_gen[k]
    PROVE  OpenIsOwn' /\ SlotsAreOwn' /\ WritersKnown' /\ WritesInOrder'
<1>1. \A k \in Keys : HasOpen(k)' =>
         /\ HasOpen(k) /\ ops'[k] # None /\ link_gen'[k] = link_gen[k]
         /\ ops'[k].open.id = ops[k].open.id /\ ops'[k].open.seq = ops[k].open.seq
         /\ ops'[k].open.cookie = ops[k].open.cookie
  BY DEF NoneOpened, StillOpen, HasOpen
<1>2. op_counter' = op_counter /\ \A k \in Keys : ops'[k] # None => ops[k] # None
  BY DEF NoneOpened
<1>3. OpenIsOwn'
  <2> SUFFICES ASSUME NEW k \in Keys, HasOpen(k)', NEW h, h = op_gen[ops[k].open.id]
               PROVE  /\ h \in Gens /\ sock[h] # None /\ PlainKey(h)' = k
                      /\ ops'[k].open.cookie = op_bio[ops[k].open.id]
                      /\ sock[h].observed => link_gen'[k] = h /\ op_bio[ops[k].open.id] = None
    BY <1>1 DEF OpenIsOwn
  <2>1. /\ h \in Gens /\ sock[h] # None /\ PlainKey(h) = k
        /\ ops[k].open.cookie = op_bio[ops[k].open.id]
        /\ sock[h].observed => link_gen[k] = h /\ op_bio[ops[k].open.id] = None
    BY <1>1 DEF OpenIsOwn
  <2> QED
    BY <1>1, <2>1 DEF PlainKey, PlainFd
<1>4. SlotsAreOwn'
  BY <1>1, <1>2 DEF SlotsAreOwn, Predecessor
<1>5. WritersKnown'
  BY <1>2 DEF WritersKnown
<1>6. PointerOrder(tls_events)'
  BY OrderKept DEF WritesInOrder
<1>7. ASSUME NEW i \in OpIds, NEW n \in DOMAIN tls_events', op_gen[i] # None,
             SamePointer(op_gen[i], tls_events'[n].gen)
      PROVE  op_gen[i] <= tls_events'[n].gen
  BY <1>7 DEF TlsKept, WritesInOrder
<1>8. ASSUME NEW k \in Keys, NEW i \in OpIds, HasOpen(k)', op_gen[i] # None,
             PlainKey(op_gen[i]) = k, SamePointer(op_gen[i], op_gen[ops[k].open.id])
      PROVE  op_gen[i] <= op_gen[ops[k].open.id]
  BY <1>1, <1>8 DEF WritesInOrder
<1>9. \A k \in Keys : HasOpen(k)' => op_gen[ops'[k].open.id] = op_gen[ops[k].open.id]
  BY <1>1
<1> QED
  BY <1>3, <1>4, <1>5, <1>6, <1>7, <1>8, <1>9
  DEF WritesInOrder, SamePointer, PlainKey, PlainFd

(* Folding a write: the request is opened in the slot of the connection    *)
(* that sent it, whose conn_id has been folded already.                    *)
LEMMA OwnWritten ==
    ASSUME KernelTyped, LedgerTyped, OpConserved, GhostsTyped, AnnouncedFirst, OpenIsOwn, SlotsAreOwn,
           WritersKnown, WritesInOrder,
           NEW e, TlsFolded(e), e.kind = "write", TlsKept,
           NEW g, NEW k, NEW bio, g = e.gen, k = PlainKey(g), bio = e.bio,
           WriteOpened(k, bio),
           op_gen' = [op_gen EXCEPT ![op_counter'] = g], link_gen' = link_gen,
           op_bio' = [op_bio EXCEPT ![op_counter'] = bio]
    PROVE  OpenIsOwn' /\ SlotsAreOwn' /\ WritersKnown' /\ WritesInOrder'
<1>a. PICK n : n = op_counter'
  OBVIOUS
<1>1. /\ g \in Gens /\ sock[g] # None /\ sock' = sock /\ e = tls_events[1] /\ 1 \in DOMAIN tls_events
      /\ k \in Keys /\ k = PlainKey(g)
      /\ sock[g].observed => k = LinkKey(g) /\ bio = None
      /\ ~sock[g].observed => k[2] = 0
  BY <1>a, PlainTyped, BioTyped DEF TlsFolded, Plaintext, Event
<1>2. link_gen[LinkKey(g)] = g
  <2>1. Announced(g, 1)
    BY <1>a, <1>1 DEF AnnouncedFirst
  <2>2. ~Ahead("conn_id", g, 1)
    BY DomainIs DEF Ahead, KernelTyped
  <2> QED
    BY <2>1, <2>2 DEF Announced
<1>3. /\ n = op_counter + 1 /\ n \in OpIds /\ op_counter \in Nat /\ OpIds \subseteq Nat
      /\ HasOpen(k)' /\ ops'[k].open.id = n /\ ops'[k].open.cookie = bio
      /\ ops'[k].open.seq > 0 => ops[k] # None
      /\ \A j \in Keys \ {k} : HasOpen(j)' => StillOpen(j)
      /\ \A j \in Keys \ {k} : ops'[j] # None => ops[j] # None
  <2>1. /\ n = op_counter + 1 /\ n \in OpIds /\ HasOpen(k)' /\ ops'[k].open.id = n
        /\ ops'[k].open = OpenSlot(k, bio, 0).open
        /\ \A j \in Keys \ {k} : HasOpen(j)' => StillOpen(j)
        /\ \A j \in Keys \ {k} : ops'[j] # None => ops[j] # None
    BY <1>a DEF WriteOpened
  <2>2. /\ OpenSlot(k, bio, 0).open.cookie = bio
        /\ ops[k] = None => OpenSlot(k, bio, 0).open.seq = 0
    BY DEF OpenSlot
  <2>3. ops'[k].open.seq > 0 => ops[k] # None
    BY <2>1, <2>2
  <2> QED
    BY <2>1, <2>2, <2>3 DEF LedgerTyped, OpIds
<1>4. /\ op_gen'[n] = g /\ \A i \in OpIds \ {n} : op_gen'[i] = op_gen[i]
      /\ op_bio'[n] = bio /\ \A i \in OpIds \ {n} : op_bio'[i] = op_bio[i]
  BY <1>a, <1>3 DEF GhostsTyped
<1>5. \A j \in Keys \ {k} : HasOpen(j)' =>
         /\ HasOpen(j) /\ ops'[j].open.id = ops[j].open.id /\ ops[j].open.id \in OpIds \ {n}
         /\ ops'[j].open.seq = ops[j].open.seq /\ ops'[j].open.cookie = ops[j].open.cookie
         /\ ops[j].open.id <= op_counter
         /\ op_gen'[ops[j].open.id] = op_gen[ops[j].open.id]
         /\ op_bio'[ops[j].open.id] = op_bio[ops[j].open.id]
  <2> SUFFICES ASSUME NEW j \in Keys \ {k}, HasOpen(j)'
               PROVE  /\ HasOpen(j) /\ ops'[j].open.id = ops[j].open.id
                      /\ ops[j].open.id \in OpIds \ {n}
                      /\ ops'[j].open.seq = ops[j].open.seq
                      /\ ops'[j].open.cookie = ops[j].open.cookie
                      /\ ops[j].open.id <= op_counter
                      /\ op_gen'[ops[j].open.id] = op_gen[ops[j].open.id]
                      /\ op_bio'[ops[j].open.id] = op_bio[ops[j].open.id]
    OBVIOUS
  <2>1. StillOpen(j)
    BY <1>3
  <2>2. ops[j].open.id \in OpIds /\ ops[j].open.id <= op_counter
    BY <2>1, OpenTyped DEF StillOpen, OpConserved, InFlight
  <2>3. ops[j].open.id # n
    BY <1>3, <2>2
  <2> QED
    BY <1>4, <2>1, <2>2, <2>3 DEF StillOpen
<1>6. OpenIsOwn'
  <2> SUFFICES ASSUME NEW j \in Keys, HasOpen(j)', NEW h, h = op_gen'[ops'[j].open.id]
               PROVE  /\ h \in Gens /\ sock[h] # None /\ PlainKey(h)' = j
                      /\ ops'[j].open.cookie = op_bio'[ops'[j].open.id]
                      /\ sock[h].observed => link_gen[j] = h /\ op_bio'[ops'[j].open.id] = None
    BY <1>1 DEF OpenIsOwn
  <2>1. PlainKey(h)' = PlainKey(h)
    BY <1>1 DEF PlainKey, PlainFd
  <2>2. CASE j = k
    BY <1>1, <1>2, <1>3, <1>4, <2>1, <2>2
  <2>3. CASE j # k
    BY <1>5, <2>1, <2>3 DEF OpenIsOwn
  <2> QED
    BY <2>2, <2>3
<1>7. SlotsAreOwn'
  <2>1. ASSUME NEW j \in Keys, j[2] # 0, ops'[j] # None
        PROVE  \E i \in OpIds : i <= op_counter' /\ op_gen'[i] = link_gen[j]
    <3>1. CASE j = k
      BY <1>a, <1>1, <1>2, <1>3, <1>4, <2>1, <3>1
    <3>2. CASE j # k
      <4>1. PICK i \in OpIds : i <= op_counter /\ op_gen[i] = link_gen[j]
        BY <1>3, <2>1, <3>2 DEF SlotsAreOwn
      <4>2. i # n /\ i <= op_counter'
        BY <1>a, <1>3, <4>1
      <4> QED
        BY <1>4, <4>1, <4>2
    <3> QED
      BY <3>1, <3>2
  <2>2. ASSUME NEW i \in OpIds, i <= op_counter, NEW x \in OpIds, i < x, op_gen'[x] = op_gen[i]
        PROVE  \E j \in OpIds : j < x /\ op_gen'[j] = op_gen'[x]
    BY <1>3, <1>4, <2>2
  <2>3. ASSUME NEW j \in Keys, j[2] # 0, HasOpen(j)', ops'[j].open.seq > 0
        PROVE  \E i \in OpIds : i < ops'[j].open.id /\ op_gen'[i] = op_gen'[ops'[j].open.id]
    <3>1. CASE j = k
      <4>1. PICK i \in OpIds : i <= op_counter /\ op_gen[i] = link_gen[k]
        BY <1>1, <1>3, <2>3, <3>1 DEF SlotsAreOwn
      <4>2. i < n /\ op_gen[i] = g
        BY <1>1, <1>2, <1>3, <2>3, <3>1, <4>1
      <4> QED
        BY <1>3, <1>4, <2>2, <3>1, <4>1, <4>2
    <3>2. CASE j # k
      <4>1. /\ HasOpen(j) /\ ops[j].open.seq > 0 /\ ops'[j].open.id = ops[j].open.id
            /\ ops[j].open.id \in OpIds /\ ops[j].open.id <= op_counter
            /\ op_gen'[ops[j].open.id] = op_gen[ops[j].open.id]
        BY <1>5, <2>3, <3>2
      <4>2. PICK i \in OpIds : i < ops[j].open.id /\ op_gen[i] = op_gen[ops[j].open.id]
        BY <2>3, <4>1 DEF SlotsAreOwn, Predecessor
      <4>3. i <= op_counter
        <5>1. i \in Nat /\ ops[j].open.id \in Nat /\ op_counter \in Nat
          BY <1>3, <4>1
        <5>2. i < ops[j].open.id /\ ops[j].open.id <= op_counter
          BY <4>1, <4>2
        <5> QED
          BY <5>1, <5>2
      <4> QED
        BY <2>2, <4>1, <4>2, <4>3
    <3> QED
      BY <3>1, <3>2
  <2> QED
    BY <1>a, <2>1, <2>3 DEF SlotsAreOwn, Predecessor
<1>8. WritersKnown'
  <2> SUFFICES ASSUME NEW i \in OpIds
               PROVE  /\ op_gen'[i] # None => i <= n /\ sock[op_gen'[i]] # None
                      /\ i <= n => op_gen'[i] # None
    BY <1>a, <1>1 DEF WritersKnown
  <2>1. CASE i = n
    BY <1>1, <1>3, <1>4, <2>1, CaptureAssumption
  <2>2. CASE i # n
    BY <1>3, <1>4, <2>2 DEF WritersKnown
  <2> QED
    BY <2>1, <2>2
<1>9. WritesInOrder'
  <2>1. PointerOrder(tls_events)'
    BY <1>1, OrderKept DEF WritesInOrder
  <2>2. ASSUME NEW i \in OpIds, NEW m \in DOMAIN tls_events', op_gen'[i] # None,
               SamePointer(op_gen'[i], tls_events'[m].gen)
        PROVE  op_gen'[i] <= tls_events'[m].gen
    <3>1. m \in Nat /\ 1 < m + 1 /\ m + 1 \in DOMAIN tls_events /\ tls_events'[m] = tls_events[m + 1]
      <4>1. m \in 1 .. Len(tls_events') /\ m + 1 \in DOMAIN tls_events /\ tls_events'[m] = tls_events[m + 1]
        BY DomainIs DEF TlsFolded
      <4> QED
        BY <4>1
    <3>2. CASE i = n
      BY <1>a, <1>1, <1>4, <2>2, <3>1, <3>2 DEF WritesInOrder, PointerOrder
    <3>3. CASE i # n
      BY <1>4, <2>2, <3>1, <3>3 DEF WritesInOrder
    <3> QED
      BY <3>2, <3>3
  <2>3. ASSUME NEW j \in Keys, NEW i \in OpIds, HasOpen(j)', op_gen'[i] # None,
               PlainKey(op_gen'[i]) = j, SamePointer(op_gen'[i], op_gen'[ops'[j].open.id])
        PROVE  op_gen'[i] <= op_gen'[ops'[j].open.id]
    <3>1. CASE j = k /\ i = n
      BY <1>1, <1>3, <1>4, <3>1 DEF Gens
    <3>2. CASE j = k /\ i # n
      BY <1>a, <1>1, <1>3, <1>4, <2>3, <3>2 DEF WritesInOrder
    <3>3. CASE j # k
      <4>1. i # n
        BY <1>1, <1>4, <2>3, <3>3
      <4> QED
        BY <1>4, <1>5, <2>3, <3>3, <4>1 DEF WritesInOrder
    <3> QED
      BY <3>1, <3>2, <3>3
  <2>4. \A i \in OpIds, m \in DOMAIN tls_events' :
           (op_gen'[i] # None /\ SamePointer(op_gen[i], tls_events[m].gen)') =>
               op_gen'[i] <= tls_events'[m].gen
    BY <1>1, <2>2 DEF SamePointer
  <2>5. \A j \in Keys, i \in OpIds :
           (/\ HasOpen(j)' /\ op_gen'[i] # None /\ PlainKey(op_gen[i])' = j
            /\ SamePointer(op_gen[i], op_gen[ops[j].open.id])') =>
               op_gen'[i] <= op_gen'[ops'[j].open.id]
    <3> SUFFICES ASSUME NEW j \in Keys, NEW i \in OpIds, HasOpen(j)', op_gen'[i] # None,
                        PlainKey(op_gen[i])' = j,
                        SamePointer(op_gen[i], op_gen[ops[j].open.id])'
                 PROVE  op_gen'[i] <= op_gen'[ops'[j].open.id]
      OBVIOUS
    <3>1. PlainKey(op_gen'[i]) = j
      BY <1>1 DEF PlainKey, PlainFd
    <3>2. SamePointer(op_gen'[i], op_gen'[ops'[j].open.id])
      BY <1>1 DEF SamePointer
    <3> QED
      BY <2>3, <3>1, <3>2
  <2> QED
    BY <2>1, <2>4, <2>5 DEF WritesInOrder
<1> QED
  BY <1>6, <1>7, <1>8, <1>9

(* Folding the head of the plaintext ring: what was ahead is still ahead,  *)
(* or it was the head and has had its effect.                              *)
LEMMA AheadFolds ==
    ASSUME KernelTyped, NEW e, TlsFolded(e), NEW kind, NEW h, NEW n \in Nat, Ahead(kind, h, n + 1)
    PROVE  Ahead(kind, h, n)' \/ (e.kind = kind /\ e.gen = h)
<1>1. PICK j \in DOMAIN tls_events :
        j < n + 1 /\ tls_events[j].kind = kind /\ tls_events[j].gen = h /\ j \in Nat
  BY DomainIs DEF Ahead, KernelTyped
<1>2. CASE j = 1
  BY <1>1, <1>2 DEF TlsFolded
<1>3. CASE j # 1
  <2>1. j - 1 \in DOMAIN tls_events' /\ tls_events'[j - 1] = tls_events[j] /\ j - 1 < n
    BY <1>1, <1>3 DEF TlsFolded
  <2> QED
    BY <1>1, <2>1 DEF Ahead
<1> QED
  BY <1>2, <1>3

LEMMA AnnouncedFolds ==
    ASSUME KernelTyped, GhostsTyped, NEW e, TlsFolded(e), NEW h \in Gens, sock[h] # None, NEW n \in Nat,
           Announced(h, n + 1),
           \/ link_gen' = link_gen /\ e.kind # "conn_id"
           \/ /\ link_gen' = [link_gen EXCEPT ![LinkKey(e.gen)] = e.gen]
              /\ (SameFd(e.gen, h) /\ link_gen[LinkKey(h)] = h) => e.gen = h
    PROVE  Announced(h, n)'
<1>1. LinkKey(h)' = LinkKey(h) /\ LinkKey(h) \in Keys
  BY SockTyped DEF LinkKey, TlsFolded
<1>2. ASSUME link_gen'[LinkKey(h)] = h PROVE Announced(h, n)'
  BY <1>1, <1>2 DEF Announced
<1>3. CASE link_gen[LinkKey(h)] = h
  <2>1. link_gen'[LinkKey(h)] = h
    BY <1>1, <1>3 DEF SameFd, GhostsTyped
  <2> QED
    BY <1>2, <2>1
<1>4. CASE Ahead("conn_id", h, n + 1)
  <2>1. Ahead("conn_id", h, n)' \/ (e.kind = "conn_id" /\ e.gen = h)
    BY <1>4, AheadFolds
  <2>2. ASSUME e.kind = "conn_id", e.gen = h PROVE link_gen'[LinkKey(h)] = h
    BY <1>1, <2>2 DEF GhostsTyped
  <2> QED
    BY <1>2, <2>1, <2>2 DEF Announced
<1> QED
  BY <1>3, <1>4 DEF Announced

LEMMA AnnouncedFolded ==
    ASSUME KernelTyped, Lives, GhostsTyped, LedgerTyped, LinkInv, AnnouncedFirst, FoldTls
    PROVE  AnnouncedFirst'
<1>a. \A i \in DOMAIN tls_events : Plaintext(tls_events[i])
  BY DEF LinkInv
<1>b. PICK e, g : e = Head(tls_events) /\ g = e.gen
  OBVIOUS
<1>1. /\ TlsFolded(e) /\ g \in Gens /\ sock[g] # None
      /\ \/ link_gen' = link_gen /\ e.kind # "conn_id"
         \/ link_gen' = [link_gen EXCEPT ![LinkKey(g)] = g]
  BY <1>a, <1>b, FoldTlsIs
<1>2. /\ sock' = sock /\ Len(tls_events') \in Nat /\ Len(tls_events') + 1 = Len(tls_events)
      /\ e = tls_events[1] /\ 1 \in DOMAIN tls_events
      /\ \A i \in DOMAIN tls_events' : /\ i \in Nat /\ 1 < i + 1 /\ i + 1 \in DOMAIN tls_events
                                       /\ tls_events'[i] = tls_events[i + 1]
                                       /\ tls_events[i + 1].gen \in Gens
  <2>1. tls_events' \in Seq(Event) /\ tls_events \in Seq(Event)
    BY <1>1 DEF TlsFolded, KernelTyped
  <2>2. \A i \in DOMAIN tls_events' : i \in Nat /\ i >= 1
    BY <2>1
  <2>3. \A i \in DOMAIN tls_events' : 1 < i + 1
    BY <2>2
  <2> QED
    BY <1>1, <2>1, <2>2, <2>3, DomainIs DEF TlsFolded
<1>3. ASSUME NEW h \in Gens, HoldsFd(h), SameFd(g, h), link_gen[LinkKey(h)] = h PROVE g = h
  <2>1. sock[h] # None /\ LinkKey(h) \in Keys /\ h # None
    BY <1>3, SockTyped, CaptureAssumption DEF HoldsFd
  <2>2. h <= g
    BY <1>b, <1>2, <1>3, <2>1 DEF LinkInv, LinkOf, SameFd
  <2>3. g <= h
    BY <1>1, <1>3, <2>1, LivesOrder DEF SameFd
  <2> QED
    BY <1>1, <2>2, <2>3 DEF Gens
<1>4. ASSUME NEW h \in Gens, HoldsFd(h)' PROVE Announced(h, Len(tls_events) + 1)'
  <2>1. HoldsFd(h) /\ sock[h] # None
    BY <1>2, <1>4 DEF HoldsFd
  <2>2. PICK n \in Nat : n = Len(tls_events') + 1
    BY <1>2
  <2>3. n + 1 = Len(tls_events) + 1
    BY <1>2, <2>2
  <2>4. Announced(h, n + 1)
    BY <2>1, <2>3 DEF AnnouncedFirst
  <2>5. Announced(h, n)'
    BY <1>b, <1>1, <1>3, <2>1, <2>4, AnnouncedFolds
  <2> QED
    BY <2>2, <2>5 DEF Announced, Ahead
<1>5. ASSUME NEW i \in DOMAIN tls_events', tls_events'[i].kind # "conn_id"
      PROVE  Announced(tls_events[i].gen, i)'
  <2>1. PICK h \in Gens : h = tls_events[i + 1].gen /\ h = tls_events'[i].gen
    BY <1>2
  <2>2. Announced(h, i + 1) /\ sock[h] # None /\ i \in Nat
    BY <1>a, <1>2, <1>5, <2>1 DEF AnnouncedFirst, Plaintext
  <2>3. ASSUME SameFd(g, h), link_gen[LinkKey(h)] = h PROVE g = h
    <3>1. LinkKey(h) \in Keys /\ h # None
      BY <2>2, SockTyped, CaptureAssumption
    <3>2. h <= g
      BY <1>b, <1>2, <2>3, <3>1 DEF LinkInv, LinkOf, SameFd
    <3>3. g <= h
      BY <1>b, <1>2, <2>1, <2>3 DEF LinkInv, FdOrder
    <3> QED
      BY <1>1, <3>2, <3>3 DEF Gens
  <2>4. Announced(h, i)'
    BY <1>b, <1>1, <2>2, <2>3, AnnouncedFolds
  <2> QED
    BY <2>1, <2>4 DEF Announced, LinkKey, Ahead
<1> QED
  BY <1>4, <1>5 DEF AnnouncedFirst

LEMMA AskedFolded ==
    ASSUME KernelTyped, GhostsTyped, LedgerTyped, LinkInv, WritersKnown, AskedFirst, FoldTls
    PROVE  AskedFirst'
<1>a. \A i \in DOMAIN tls_events : Plaintext(tls_events[i])
  BY DEF LinkInv
<1>b. PICK e, g, n : e = Head(tls_events) /\ g = e.gen /\ n = op_counter'
  OBVIOUS
<1>1. /\ TlsFolded(e) /\ g \in Gens
      /\ \/ op_gen' = op_gen /\ e.kind # "write"
         \/ op_gen' = [op_gen EXCEPT ![n] = g] /\ n = op_counter + 1 /\ op_counter < MaxOps
  <2>1. \A t, f, bio, ts : OnTlsWrite(t, f, bio, ts) =>
            op_counter' = op_counter + 1 /\ op_counter < MaxOps
    BY DEF OnTlsWrite
  <2> QED
    BY <1>a, <1>b, <2>1, FoldTlsIs
<1>2. /\ sock' = sock /\ Len(tls_events') \in Nat /\ Len(tls_events') + 1 = Len(tls_events)
      /\ \A i \in DOMAIN tls_events' : /\ i \in Nat /\ i + 1 \in DOMAIN tls_events
                                       /\ tls_events'[i] = tls_events[i + 1]
  BY <1>1 DEF TlsFolded
<1>3. ASSUME NEW h \in Gens, Wrote(h) \/ (e.kind = "write" /\ g = h) PROVE Wrote(h)'
  <2>1. CASE op_gen' = op_gen /\ e.kind # "write"
    BY <1>3, <2>1 DEF Wrote
  <2>2. CASE op_gen' = [op_gen EXCEPT ![n] = g] /\ n = op_counter + 1 /\ op_counter < MaxOps
    <3>1. n \in OpIds /\ op_gen[n] = None /\ op_gen'[n] = g
          /\ \A i \in OpIds \ {n} : op_gen'[i] = op_gen[i]
      BY <2>2, CorrelatorAssumption DEF WritersKnown, GhostsTyped, LedgerTyped, OpIds
    <3>2. h # None
      BY CaptureAssumption
    <3> QED
      BY <1>3, <3>1, <3>2 DEF Wrote
  <2> QED
    BY <1>1, <2>1, <2>2
<1>4. ASSUME NEW h \in Gens, NEW m \in Nat, Wrote(h) \/ Ahead("write", h, m + 1)
      PROVE  Wrote(h)' \/ Ahead("write", h, m)'
  BY <1>b, <1>1, <1>3, <1>4, AheadFolds
<1>5. ASSUME NEW h \in Gens, sock'[h] # None, sock'[h].http # "idle"
      PROVE  (Wrote(h) \/ Ahead("write", h, Len(tls_events) + 1))'
  <2>1. PICK m \in Nat : m = Len(tls_events') + 1
    BY <1>2
  <2>2. m + 1 = Len(tls_events) + 1
    BY <1>2, <2>1
  <2>3. Wrote(h) \/ Ahead("write", h, m + 1)
    BY <1>2, <1>5, <2>2 DEF AskedFirst
  <2>4. Wrote(h)' \/ Ahead("write", h, m)'
    BY <1>4, <2>3
  <2> QED
    BY <2>1, <2>4 DEF Ahead
<1>6. ASSUME NEW i \in DOMAIN tls_events', tls_events'[i].kind \in {"head", "body"}
      PROVE  (Wrote(tls_events[i].gen) \/ Ahead("write", tls_events[i].gen, i))'
  <2>1. PICK h : h = tls_events[i + 1].gen
    OBVIOUS
  <2>2. h \in Gens /\ i \in Nat /\ h = tls_events'[i].gen
    BY <1>2, <2>1, DomainIs DEF KernelTyped
  <2>3. Wrote(h) \/ Ahead("write", h, i + 1)
    BY <1>2, <1>6, <2>1 DEF AskedFirst
  <2>4. Wrote(h)' \/ Ahead("write", h, i)'
    BY <1>4, <2>2, <2>3
  <2> QED
    BY <2>2, <2>4 DEF Wrote, Ahead
<1> QED
  BY <1>5, <1>6 DEF AskedFirst

(* What holds of every request while the plaintext ring loses nothing.     *)
LifeInv ==
    /\ AnnouncedFirst /\ AskedFirst
    /\ OpenIsOwn /\ SlotsAreOwn /\ WritersKnown /\ WritesInOrder
    /\ RecordIsFinal

LEMMA LifeInit == CaptureInit => LifeInv
<1> SUFFICES ASSUME CaptureInit PROVE LifeInv
  OBVIOUS
<1>1. /\ sock = [g \in Gens |-> None] /\ tls_events = <<>> /\ clock = 0
      /\ op_gen = [i \in OpIds |-> None] /\ link_gen = [k \in Keys |-> None]
      /\ ops = [k \in Keys |-> None] /\ op_counter = 0 /\ built = [i \in OpIds |-> None]
  BY DEF CaptureInit, Init
<1>2. AnnouncedFirst /\ AskedFirst
  BY <1>1 DEF AnnouncedFirst, AskedFirst, HoldsFd
<1>3. OpenIsOwn /\ SlotsAreOwn
  BY <1>1 DEF OpenIsOwn, SlotsAreOwn, HasOpen
<1>4. WritersKnown
  BY <1>1 DEF WritersKnown, OpIds
<1>5. WritesInOrder
  BY <1>1 DEF WritesInOrder, PointerOrder, HasOpen
<1>6. RecordIsFinal
  BY <1>1 DEF RecordIsFinal
<1> QED
  BY <1>2, <1>3, <1>4, <1>5, <1>6 DEF LifeInv

(* The reads of the fold open no request and pass over the slots that      *)
(* another connection's request is in.                                     *)
LEMMA FoldReadIs ==
    ASSUME KernelTyped, LedgerTyped, NEW e, e.gen \in Gens, sock[e.gen] # None, FoldRead(e),
           NEW k, k = PlainKey(e.gen)
    PROVE  /\ op_counter' = op_counter /\ k \in Keys
           /\ \A j \in Keys \ {k} : ops'[j] = ops[j]
           /\ UNCHANGED ops \/ (ops[k] # None /\ SameBioConn(k, e.bio))
<1>1. k \in Keys /\ k = <<k[1], k[2]>>
  BY PlainTyped
<1> DEFINE Quiet == op_counter' = op_counter /\ \A j \in Keys \ {k} : ops'[j] = ops[j]
<1>2. \A ts, resp : TakeOpen(k, ts, resp) => Quiet
  BY DEF TakeOpen, LedgerTyped
<1>3. \A ts : Touch(k, ts) => Quiet
  BY DEF Touch, LedgerTyped, ledger
<1>4. \A ts, len : TallyBody(k, ts, len) => Quiet
  <2> SUFFICES ASSUME NEW ts, NEW len, TallyBody(k, ts, len) PROVE Quiet
    OBVIOUS
  <2>1. \/ Touch(k, ts) \/ TakeOpen(k, ts, "complete")
        \/ /\ ops' = [ops EXCEPT ![k].last_ts = ts, ![k].open.resp.seen = @ + len]
           /\ UNCHANGED ledger
    BY DEF TallyBody
  <2>2. CASE /\ ops' = [ops EXCEPT ![k].last_ts = ts, ![k].open.resp.seen = @ + len]
             /\ UNCHANGED ledger
    BY <2>2 DEF LedgerTyped, ledger
  <2> HIDE DEF Quiet
  <2> QED
    BY <1>2, <1>3, <2>1, <2>2
<1>5. \A ts, target, resp : (/\ ops' = [ops EXCEPT ![k].last_ts = ts, ![k].open.resp = resp]
                             /\ UNCHANGED ledger) => Quiet
  BY DEF LedgerTyped, ledger
<1> DEFINE bio == e.bio
<1>6. CASE UNCHANGED vars
  BY <1>1, <1>6 DEF vars
<1>7. CASE ops[k] # None /\ SameBioConn(k, bio)
  <2>1. \/ OnTlsReadBody(k[1], k[2], bio, e.ts, 1)
        \/ OnTlsReadAsBody(k[1], k[2], bio, e.ts, 1)
        \/ OnTlsReadHead(k[1], k[2], bio, e.ts, e.target, 0)
    BY <1>7 DEF FoldRead
  <2>2. CASE OnTlsReadBody(k[1], k[2], bio, e.ts, 1) \/ OnTlsReadAsBody(k[1], k[2], bio, e.ts, 1)
    <3>1. TallyBody(k, e.ts, 1)
      BY <1>1, <2>2 DEF OnTlsReadBody, OnTlsReadAsBody
    <3> QED
      BY <1>1, <1>4, <1>7, <3>1
  <2>3. CASE OnTlsReadHead(k[1], k[2], bio, e.ts, e.target, 0)
    <3>1. \/ Touch(k, e.ts)
          \/ /\ ops' = [ops EXCEPT ![k].last_ts = e.ts,
                           ![k].open.resp = [target |-> e.target, seen |-> 0]]
             /\ UNCHANGED ledger
          \/ \E resp : TakeOpen(k, e.ts, resp)
      BY <1>1, <2>3 DEF OnTlsReadHead
    <3> HIDE DEF Quiet
    <3>2. Quiet
      BY <1>2, <1>3, <1>5, <3>1
    <3> QED
      BY <1>1, <1>7, <3>2 DEF Quiet
  <2> QED
    BY <2>1, <2>2, <2>3
<1> QED
  BY <1>6, <1>7 DEF FoldRead

LEMMA QuietOpensNone == Inv /\ [Next]_vars /\ op_counter' = op_counter => NoneOpened
<1> SUFFICES ASSUME Inv, [Next]_vars, op_counter' = op_counter,
                    NEW k, NEW bio, WriteOpened(k, bio)
             PROVE  FALSE
  BY NextRecords
<1> QED
  BY InvParts DEF WriteOpened, LedgerTyped

(* A connection's conn_id retires the slot its fd had.                     *)
LEMMA ConnIdRetires ==
    ASSUME LinksTyped, LedgerTyped, NEW t \in Tgids, NEW f \in Fds, NEW c \in Cookies, NEW ts,
           OnConnId(t, f, c, ts)
    PROVE  ops'[<<t, f>>] = None /\ op_counter' = op_counter
<1>1. PICK K : FlushAndDrop(Retired(<<t, f>>, c) \cup K)
  BY DEF OnConnId
<1>2. <<t, f>> \in Keys /\ <<t, f>> \in Retired(<<t, f>>, c) \cup K
  BY DEF Keys, Retired
<1> QED
  BY <1>1, <1>2 DEF FlushAndDrop, Without, LedgerTyped

LEMMA OwnFolded ==
    ASSUME SafeInv, AnnouncedFirst, OpenIsOwn, SlotsAreOwn, WritersKnown, WritesInOrder, FoldTls
    PROVE  OpenIsOwn' /\ SlotsAreOwn' /\ WritersKnown' /\ WritesInOrder'
<1> USE SafeParts
<1>1. PICK e, g, k, t, f, fd, bio, c :
        /\ e = Head(tls_events) /\ g = e.gen /\ t = sock[g].tgid /\ f = sock[g].fd
        /\ fd = PlainFd(g) /\ bio = e.bio /\ c = sock[g].cookie /\ k = PlainKey(g)
  OBVIOUS
<1>2. /\ TlsFolded(e) /\ g \in Gens /\ sock[g] # None /\ e.ts \in Ts
      /\ \/ /\ e.kind = "conn_id" /\ OnConnId(t, f, c, e.ts)
            /\ link_gen' = [link_gen EXCEPT ![LinkKey(g)] = g]
            /\ op_gen' = op_gen /\ op_bio' = op_bio
         \/ /\ e.kind = "write" /\ OnTlsWrite(t, fd, bio, e.ts)
            /\ op_gen' = [op_gen EXCEPT ![op_counter'] = g] /\ link_gen' = link_gen
            /\ op_bio' = [op_bio EXCEPT ![op_counter'] = bio]
         \/ /\ e.kind \in {"head", "body"} /\ FoldRead(e)
            /\ op_gen' = op_gen /\ op_bio' = op_bio /\ link_gen' = link_gen
  BY <1>1, FoldTlsIs
<1>3. /\ t \in Tgids /\ f \in Fds /\ c \in Cookies /\ LinkKey(g) = <<t, f>>
      /\ fd \in Fds /\ bio \in Cookies \cup {None} /\ k = <<t, fd>>
  BY <1>1, <1>2, SockTyped, PlainTyped, BioTyped DEF LinkKey, TlsFolded
<1>4. [Next]_vars
  BY CaptureStep DEF CaptureNext
<1>5. TlsKept /\ sock' = sock
  BY <1>2 DEF TlsKept, TlsFolded
<1>6. CASE e.kind = "conn_id"
  <2>1. /\ ops'[LinkKey(g)] = None /\ op_counter' = op_counter
    BY <1>2, <1>3, <1>6, ConnIdRetires
  <2>2. NoneOpened
    BY <1>4, <2>1, QuietOpensNone
  <2>3. \A j \in Keys : ops'[j] # None => link_gen'[j] = link_gen[j]
    BY <1>2, <1>6, <2>1 DEF GhostsTyped
  <2> QED
    BY <1>2, <1>5, <1>6, <2>2, <2>3, OwnSteady
<1>7. CASE e.kind = "write"
  <2>1. WriteOpened(k, bio)
    BY <1>2, <1>3, <1>7, WriteOpens
  <2> QED
    BY <1>1, <1>2, <1>5, <1>7, <2>1, OwnWritten
<1>8. CASE e.kind \in {"head", "body"}
  <2>1. op_counter' = op_counter
    BY <1>1, <1>2, <1>8, FoldReadIs
  <2>2. NoneOpened
    BY <1>4, <2>1, QuietOpensNone
  <2> QED
    BY <1>2, <1>5, <1>8, <2>2, OwnSteady
<1> QED
  BY <1>2, <1>6, <1>7, <1>8

LEMMA LifeSteady ==
    ASSUME SafeInv, LifeInv, NoneOpened,
           UNCHANGED <<sock, clock, tls_events, op_gen, op_bio, link_gen>>
    PROVE  /\ AnnouncedFirst' /\ AskedFirst'
           /\ OpenIsOwn' /\ SlotsAreOwn' /\ WritersKnown' /\ WritesInOrder'
<1> USE SafeParts
<1>1. AnnouncedFirst'
  BY DEF LifeInv, AnnouncedFirst, Announced, Ahead, HoldsFd, LinkKey
<1>2. AskedFirst'
  BY DEF LifeInv, AskedFirst, Wrote, Ahead
<1>3. TlsKept
  <2>1. \A i \in DOMAIN tls_events' : i \in Nat /\ i + 0 \in DOMAIN tls_events
                                      /\ tls_events'[i] = tls_events[i + 0]
    BY DomainIs DEF KernelTyped
  <2> QED
    BY <2>1 DEF TlsKept
<1> QED
  BY <1>1, <1>2, <1>3, OwnSteady DEF LifeInv

LEMMA LifeStep ==
    ASSUME Room, SafeInv, LifeInv, [CaptureNext]_all
    PROVE  LifeInv'
<1> USE SafeParts
<1>1. [Next]_vars
  BY CaptureStep
<1>2. RecordIsFinal'
  BY <1>1, RecordStays DEF LifeInv
<1>3. CASE KernelNext /\ ~Still
  <2>1. PICK g \in Gens : KernelStep(g)
    BY <1>3, KernelSteps
  <2> QED
    BY <1>2, <2>1, AnnouncedGrows, AskedGrows, OwnGrows DEF LifeInv
<1>4. CASE FoldTls
  BY <1>2, <1>4, AnnouncedFolded, AskedFolded, OwnFolded DEF LifeInv
<1>5. CASE FoldEvents \/ Drain \/ Still
  <2>1. op_counter' = op_counter
    BY <1>5 DEF FoldEvents, OnConnect, OnClose, FlushAndDrop, OnTlsHandshake, OnTlsServer, ledger,
                Drain, TakeFlushedOps, Still, vars
  <2>2. UNCHANGED <<sock, clock, tls_events, op_gen, op_bio, link_gen>>
    BY <1>5 DEF FoldEvents, Drain, Still, kernel, rings, ghosts
  <2> QED
    BY <1>1, <1>2, <2>1, <2>2, QuietOpensNone, LifeSteady DEF LifeInv
<1> QED
  BY <1>3, <1>4, <1>5, StillStep DEF CaptureNext

(* What a step may do to a request's writer, and to a socket's names.      *)
LEMMA WritersStay ==
    ASSUME SafeInv, [CaptureNext]_all
    PROVE  /\ \A g \in Gens : sock[g] # None =>
                sock'[g].cookie = sock[g].cookie /\ sock'[g].observed = sock[g].observed
           /\ \A i \in OpIds : i <= op_counter => op_gen'[i] = op_gen[i] /\ op_bio'[i] = op_bio[i]
<1> USE SafeParts
<1>1. CASE KernelNext /\ ~Still
  <2>1. PICK g \in Gens : KernelStep(g)
    BY <1>1, KernelSteps
  <2> QED
    BY <2>1 DEF KernelStep, SockMoved, SameLife, ghosts
<1>2. CASE FoldTls
  <2>1. PICK e : /\ TlsFolded(e)
                 /\ \/ op_gen' = op_gen /\ op_bio' = op_bio
                    \/ \E n, g, t, f, bio, ts :
                          /\ OnTlsWrite(t, f, bio, ts) /\ n = op_counter'
                          /\ op_gen' = [op_gen EXCEPT ![n] = g]
                          /\ op_bio' = [op_bio EXCEPT ![n] = bio]
    BY <1>2, FoldTlsIs
  <2>2. \A t, f, bio, ts : OnTlsWrite(t, f, bio, ts) => op_counter' = op_counter + 1
    BY DEF OnTlsWrite
  <2>3. \A i \in OpIds : i <= op_counter => i # op_counter + 1
    BY DEF OpIds, LedgerTyped
  <2>4. ASSUME NEW i \in OpIds, i <= op_counter
        PROVE  op_gen'[i] = op_gen[i] /\ op_bio'[i] = op_bio[i]
    BY <2>1, <2>2, <2>3, <2>4 DEF GhostsTyped
  <2> QED
    BY <2>1, <2>4 DEF TlsFolded
<1>3. CASE FoldEvents \/ Drain \/ Still
  BY <1>3 DEF FoldEvents, Drain, Still, kernel, ghosts
<1> QED
  BY <1>1, <1>2, <1>3, StillStep DEF CaptureNext

LEMMA JoinsStep ==
    ASSUME SafeInv, LifeInv, [CaptureNext]_all, JoinsOneLife
    PROVE  JoinsOneLife'
<1> USE SafeParts
<1>0. /\ OpenIsOwn /\ SlotsAreOwn /\ WritersKnown /\ RecordIsFinal /\ [Next]_vars
      /\ op_counter \in Nat /\ OpIds \subseteq Nat
  BY CaptureStep DEF LifeInv, LedgerTyped, OpIds
<1> SUFFICES ASSUME NEW i \in OpIds, built'[i] # None
             PROVE  /\ IF FalseStamp(op_gen[i], op_bio[i])' THEN built'[i].cookie = op_bio'[i]
                       ELSE built'[i].cookie \in {None, sock'[op_gen'[i]].cookie}
                    /\ (built'[i].seq > 0 /\ sock'[op_gen'[i]].observed) =>
                          \E j \in OpIds : j < i /\ op_gen'[j] = op_gen'[i]
  BY DEF JoinsOneLife
<1>a. PICK r, g, b : r = built'[i] /\ g = op_gen[i] /\ b = op_bio[i]
  OBVIOUS
<1> DEFINE Was == /\ i <= op_counter
                  /\ IF FalseStamp(g, b) THEN r.cookie = b ELSE r.cookie \in {None, sock[g].cookie}
                  /\ (r.seq > 0 /\ sock[g].observed) => Predecessor(i)
<1>1. ASSUME built[i] # None PROVE Was
  <2>1. built'[i] = built[i] /\ i <= op_counter
    BY <1>0, <1>1, RecordStays DEF RecordIsFinal
  <2> QED
    BY <1>a, <1>1, <2>1 DEF JoinsOneLife, Predecessor
<1>2. ASSUME built[i] = None PROVE Was
  <2>1. PICK k \in Keys : MadeFrom(k, i, r)
    <3>1. CASE NoneOpened
      BY <1>a, <1>2, <3>1 DEF NoneOpened, RecordedAsIs, Recorded
    <3>2. ASSUME NEW k \in Keys, NEW bio, WriteOpened(k, bio)
          PROVE  \E j \in Keys : MadeFrom(j, i, r)
      BY <1>a, <1>2, <3>2 DEF WriteOpened, RecordedAsIs, Recorded
    <3> QED
      BY <1>0, <3>1, <3>2, NextRecords
  <2>2. /\ HasOpen(k) /\ ops[k].open.id = i /\ r.seq = ops[k].open.seq
        /\ r.cookie = CookieOf(k, ops[k].open)
    BY <2>1 DEF MadeFrom
  <2>3. i <= op_counter
    BY <2>2 DEF OpConserved, InFlight
  <2>4. /\ g \in Gens /\ sock[g] # None /\ PlainKey(g) = k
        /\ ops[k].open.cookie = b
        /\ sock[g].observed => link_gen[k] = g /\ b = None
    BY <1>0, <1>a, <2>2 DEF OpenIsOwn
  <2>5. /\ sock[g].observed => k[2] # 0
        /\ ~sock[g].observed => k[2] = 0
        /\ sock[g].cookie \in Cookies /\ None \notin Cookies
    BY <2>4, PlainTyped, SockTyped, CorrelatorAssumption
  <2>6. IF FalseStamp(g, b) THEN CookieOf(k, ops[k].open) = b
        ELSE CookieOf(k, ops[k].open) \in {None, sock[g].cookie}
    <3>1. CASE b # None
      BY <2>4, <3>1 DEF CookieOf, FalseStamp
    <3>2. CASE b = None
      <4>1. CookieOf(k, ops[k].open) = IF fd_links[k] # None THEN fd_links[k].cookie ELSE None
        BY <2>4, <3>2 DEF CookieOf
      <4>2. fd_links[k] # None => fd_links[k].cookie = sock[link_gen[k]].cookie /\ link_gen[k] # None
        BY DEF LinkInv, LinkOf
      <4>3. ASSUME fd_links[k] # None, ~sock[g].observed PROVE FALSE
        <5>1. /\ link_gen[k] \in Gens /\ sock[link_gen[k]] # None /\ LinkKey(link_gen[k]) = k
          BY <4>2, <4>3 DEF LinkInv, LinkOf, GhostsTyped
        <5> QED
          BY <2>5, <4>3, <5>1, SockTyped
      <4> QED
        BY <2>4, <3>2, <4>1, <4>2, <4>3 DEF FalseStamp
    <3> QED
      BY <3>1, <3>2
  <2>7. (ops[k].open.seq > 0 /\ sock[g].observed) => Predecessor(i)
    BY <1>0, <2>2, <2>5 DEF SlotsAreOwn
  <2>8. (r.seq > 0 /\ sock[g].observed) => Predecessor(i)
    BY <2>2, <2>7
  <2>9. IF FalseStamp(g, b) THEN r.cookie = b ELSE r.cookie \in {None, sock[g].cookie}
    BY <2>2, <2>6
  <2> QED
    BY <2>3, <2>8, <2>9
<1> HIDE DEF Was
<1>3. Was
  BY <1>1, <1>2
<1> USE DEF Was
<1>4. op_gen'[i] = g /\ op_gen[i] = g /\ op_bio'[i] = b /\ g \in Gens /\ sock[g] # None
  BY <1>0, <1>a, <1>3, WritersStay DEF WritersKnown, GhostsTyped
<1>5. sock'[g].cookie = sock[g].cookie /\ sock'[g].observed = sock[g].observed
  BY <1>4, WritersStay
<1>6. ASSUME Predecessor(i) PROVE \E j \in OpIds : j < i /\ op_gen'[j] = op_gen'[i]
  <2>1. PICK j \in OpIds : j < i /\ op_gen[j] = op_gen[i]
    BY <1>6 DEF Predecessor
  <2>2. j <= op_counter
    BY <1>0, <1>3, <2>1
  <2> QED
    BY <1>4, <2>1, <2>2, WritersStay
<1> QED
  BY <1>a, <1>3, <1>4, <1>5, <1>6 DEF FalseStamp

(* The heart of ResponsesStayHome: the request in the slot that a read     *)
(* finds is of the connection that was read, when the cookie on each is    *)
(* its connection's.                                                       *)
LEMMA ReadsOwn ==
    ASSUME SafeInv, LifeInv, FoldTls, NEW e, e = Head(tls_events), e.kind \in {"head", "body"},
           NEW k \in Keys, HasOpen(k), ops'[k].open # ops[k].open, TrueStamp(e.gen, e.bio),
           TrueStamp(op_gen[ops[k].open.id], op_bio[ops[k].open.id])
    PROVE  op_gen[ops[k].open.id] = e.gen
<1> USE SafeParts
<1>0. AnnouncedFirst /\ OpenIsOwn /\ AskedFirst /\ WritesInOrder /\ WritersKnown
  BY DEF LifeInv
<1>1. PICK g, p : g = e.gen /\ p = PlainKey(g)
  OBVIOUS
<1>2. /\ g \in Gens /\ sock[g] # None /\ FoldRead(e) /\ e = tls_events[1] /\ 1 \in DOMAIN tls_events
  BY <1>1, FoldTlsIs DEF TlsFolded
<1>3. k = p /\ SameBioConn(k, e.bio)
  BY <1>1, <1>2, FoldReadIs
<1>4. PICK h \in Gens :
        /\ h = op_gen[ops[k].open.id] /\ sock[h] # None /\ PlainKey(h) = k
        /\ ops[k].open.cookie = op_bio[ops[k].open.id]
        /\ sock[h].observed => link_gen[k] = h
  BY <1>0 DEF OpenIsOwn
<1>5. \A n \in {"conn_id", "write"} : ~Ahead(n, g, 1)
  BY DomainIs DEF Ahead, KernelTyped
<1>6. \A x \in {g, h} : /\ sock[x].observed => k[2] # 0 /\ LinkKey(x) = k
                        /\ ~sock[x].observed => k[2] = 0
                        /\ sock[x].cookie # None
  <2> SUFFICES ASSUME NEW x \in Gens, sock[x] # None, PlainKey(x) = k
               PROVE  /\ sock[x].observed => k[2] # 0 /\ LinkKey(x) = k
                      /\ ~sock[x].observed => k[2] = 0
                      /\ sock[x].cookie # None
    <3>1. /\ g \in Gens /\ sock[g] # None /\ PlainKey(g) = k
          /\ h \in Gens /\ sock[h] # None /\ PlainKey(h) = k
      BY <1>1, <1>2, <1>3, <1>4
    <3> QED
      BY <3>1
  <2>1. sock[x].cookie \in Cookies /\ LinkKey(x)[2] # 0
    BY SockTyped
  <2>2. /\ sock[x].observed => PlainKey(x) = LinkKey(x)
        /\ ~sock[x].observed => PlainKey(x)[2] = 0
    BY PlainTyped
  <2> QED
    BY <2>1, <2>2, CorrelatorAssumption
<1>7. CASE sock[g].observed
  <2>1. link_gen[k] = g
    BY <1>0, <1>1, <1>2, <1>5, <1>6, <1>7 DEF AnnouncedFirst, Announced
  <2> QED
    BY <1>1, <1>4, <1>6, <1>7, <2>1
<1>8. CASE ~sock[g].observed
  <2>1. SamePointer(g, h) /\ SamePointer(h, g)
    <3>1. ~sock[h].observed
      BY <1>6, <1>8
    <3>2. e.bio = sock[g].cookie /\ ops[k].open.cookie = sock[h].cookie
      BY <1>1, <1>4, <1>8, <3>1 DEF TrueStamp
    <3> QED
      BY <1>3, <1>6, <3>2 DEF SameBioConn, SamePointer
  <2>2. ops[k].open.id \in OpIds /\ h # None /\ g # None
    BY OpenTyped, <1>2, CaptureAssumption
  <2>3. h <= g
    BY <1>0, <1>1, <1>2, <1>4, <2>1, <2>2 DEF WritesInOrder
  <2>4. PICK i \in OpIds : op_gen[i] = g
    BY <1>0, <1>1, <1>2, <1>5 DEF AskedFirst, Wrote
  <2>5. g <= h
    BY <1>0, <1>1, <1>3, <1>4, <2>1, <2>2, <2>4 DEF WritesInOrder
  <2> QED
    BY <1>1, <1>2, <1>4, <2>3, <2>5 DEF Gens
<1> QED
  BY <1>7, <1>8

LEMMA LifeHolds == CaptureSpec /\ []Room => []LifeInv
<1>1. SafeInv /\ LifeInv /\ Room /\ [CaptureNext]_all => LifeInv'
  BY LifeStep
<1> QED
  BY <1>1, LifeInit, SafeHolds, PTL DEF CaptureSpec

LEMMA LossStep == SafeInv /\ NothingLost /\ [CaptureNext]_all => NothingLost'
<1> SUFFICES ASSUME SafeInv, NothingLost, [CaptureNext]_all PROVE NothingLost'
  OBVIOUS
<1> USE SafeParts
<1>0. clock \in Nat /\ Len(tls_events) \in Nat
  BY DomainIs, CorrelatorAssumption DEF KernelTyped, Ts
<1>1. CASE KernelNext /\ ~Still
  <2>1. PICK g \in Gens : KernelStep(g)
    BY <1>1, KernelSteps
  <2>2. clock' \in Nat /\ Len(tls_events') \in Nat
    BY <2>1, DomainIs, CorrelatorAssumption DEF KernelStep, KernelTyped, Ts
  <2> QED
    BY <1>0, <2>1, <2>2 DEF KernelStep, EmittedPlain, NothingLost
<1>2. CASE FoldTls
  <2>1. PICK e : TlsFolded(e)
    BY <1>2, FoldTlsIs
  <2>2. Len(tls_events') + 1 = Len(tls_events) /\ Len(tls_events') \in Nat /\ clock' = clock
    BY <2>1 DEF TlsFolded
  <2> QED
    BY <1>0, <2>2 DEF NothingLost
<1>3. CASE FoldEvents \/ Drain \/ Still
  BY <1>3 DEF FoldEvents, Drain, Still, kernel, rings, NothingLost
<1> QED
  BY <1>1, <1>2, <1>3, StillStep DEF CaptureNext

(* The hypothesis of the two theorems below holds of a ring with room for  *)
(* every event that may be stamped, as the checked instances have it.      *)
THEOREM RoomIsEnough == ASSUME TlsCap >= MaxTs PROVE CaptureSpec => []Room
<1>1. CaptureInit => NothingLost
  BY DEF CaptureInit, NothingLost
<1>2. SafeInv /\ NothingLost => Room
  <2> SUFFICES ASSUME SafeInv, NothingLost, clock < MaxTs PROVE Len(tls_events) < TlsCap
    BY DEF Room
  <2> QED
    BY SafeParts, DomainIs, CaptureAssumption, CorrelatorAssumption DEF NothingLost, KernelTyped, Ts
<1> QED
  BY <1>1, <1>2, LossStep, SafeHolds, PTL DEF CaptureSpec

(* A record joins one life of a socket only, while the plaintext ring      *)
(* loses nothing. The request in a slot is of the connection that the      *)
(* slot's fd link is of, or carries the cookie that was stamped on it,     *)
(* whichever the thread had sent on last; and a conn_id that moves the     *)
(* link retires the slot with the sequence numbers it gave out.            *)
THEOREM RecordsJoinOneLife == CaptureSpec /\ []Room => []JoinsOneLife
<1>1. CaptureInit => JoinsOneLife
  BY DEF CaptureInit, Init, JoinsOneLife
<1>2. SafeInv /\ LifeInv /\ JoinsOneLife /\ [CaptureNext]_all => JoinsOneLife'
  BY JoinsStep
<1> QED
  BY <1>1, <1>2, SafeHolds, LifeHolds, PTL DEF CaptureSpec

(* A response or a body chunk only ever answers or completes a request of  *)
(* its own connection, while the plaintext ring loses nothing. On an       *)
(* observed fd the connection's conn_id was folded first. On the shared    *)
(* fd-0 slot it holds of a request and a response that carry their own     *)
(* connection's cookies, whatever the others carry: the pointer is the     *)
(* same, the connection has written before, and the slot holds the latest  *)
(* life that did. A thread that multiplexes connections stamps others, and *)
(* then the join can be wrong: nothing in the engine prevents it.          *)
THEOREM ResponsesAreOwn == CaptureSpec /\ []Room => ResponsesStayHome
<1> DEFINE Act == (/\ tls_events # <<>> /\ tls_events' = Tail(tls_events)
                   /\ Head(tls_events).kind \in {"head", "body"}
                   /\ TrueStamp(Head(tls_events).gen, Head(tls_events).bio)) =>
                     \A k \in Keys :
                        (/\ HasOpen(k) /\ ops'[k].open # ops[k].open
                         /\ TrueStamp(op_gen[ops[k].open.id], op_bio[ops[k].open.id])) =>
                            op_gen[ops[k].open.id] = Head(tls_events).gen
<1>1. SafeInv /\ LifeInv /\ [CaptureNext]_all => [Act]_all
  <2> SUFFICES ASSUME SafeInv, LifeInv, [CaptureNext]_all,
                      tls_events # <<>>, tls_events' = Tail(tls_events),
                      Head(tls_events).kind \in {"head", "body"},
                      TrueStamp(Head(tls_events).gen, Head(tls_events).bio),
                      NEW k \in Keys, HasOpen(k), ops'[k].open # ops[k].open,
                      TrueStamp(op_gen[ops[k].open.id], op_bio[ops[k].open.id])
               PROVE  op_gen[ops[k].open.id] = Head(tls_events).gen
    OBVIOUS
  <2> USE SafeParts
  <2>1. Len(tls_events') = Len(tls_events) - 1 /\ Len(tls_events) \in Nat
    BY TailIs DEF KernelTyped
  <2>2. FoldTls
    <3>1. ASSUME tls_events' = tls_events PROVE FALSE
      BY <2>1, <3>1
    <3>2. ASSUME KernelNext PROVE FALSE
      <4>1. PICK h \in Gens : KernelStep(h)
        BY <3>1, <3>2, KernelSteps DEF Still, rings
      <4>2. DOMAIN tls_events \subseteq DOMAIN tls_events' /\ tls_events' \in Seq(Event)
        BY <4>1 DEF KernelStep, EmittedPlain, Grown, KernelTyped
      <4>3. Len(tls_events) \in DOMAIN tls_events
        BY TailIs DEF KernelTyped
      <4> QED
        BY <2>1, <4>2, <4>3
    <3> QED
      BY <3>1, <3>2 DEF CaptureNext, FoldEvents, Drain, all, rings
  <2>3. PICK e : e = Head(tls_events)
    OBVIOUS
  <2> QED
    BY <2>2, <2>3, ReadsOwn
<1> QED
  BY <1>1, SafeHolds, LifeHolds, PTL DEF CaptureSpec, ResponsesStayHome

=============================================================================
