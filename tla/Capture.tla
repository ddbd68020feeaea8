------------------------------- MODULE Capture -------------------------------
(***************************************************************************)
(* The capture path end to end: sockets whose pointers and fd numbers the  *)
(* kernel recycles, the probes that turn their transitions into events,    *)
(* the two rings the events ride (no order between them, a full ring loses *)
(* the event), and the fold that feeds the ring heads to the Correlator.   *)
(*                                                                         *)
(* A connection is a generation g: the ground truth the correlator never   *)
(* sees. The ghost variables say which generation each entry of the        *)
(* correlator is really about, so that a mis-join can be stated.           *)
(***************************************************************************)
EXTENDS Correlator, Sequences

CONSTANTS
    Threads,    \* threads of a process
    MaxConns,   \* bound: connections made in a run
    Observed,   \* whether SSL_set_fd names the fd: subset of BOOLEAN
    EventsCap,  \* capacity of the `events` ring, in events
    TlsCap      \* capacity of the `tls_events` ring, in events

Gens == 1 .. MaxConns

VARIABLES
    sock,       \* generation -> the socket, None before it connects
    clock,      \* bpf_ktime_get_ns, advanced by every stamped event
    events,     \* critical ring: connect, close, the two TLS hellos
    tls_events, \* plaintext ring: conn_id, write, head, body
    tid_cookie, \* thread -> pointer of the tracked socket it last sent a TLS record on
    op_gen,     \* ghost: op id -> generation that wrote the request
    op_bio,     \* ghost: op id -> the cookie stamped on the request
    conn_gen,   \* ghost: cookie -> generation its conns entry is about
    tls_gen,    \* ghost: cookie -> generation that last taught it TLS facts
    link_gen    \* ghost: key -> generation its fd link is about

kernel == <<sock, clock, tid_cookie>>
rings  == <<events, tls_events>>
ghosts == <<op_gen, op_bio, conn_gen, tls_gen, link_gen>>
all    == <<vars, kernel, rings, ghosts>>

Phases == {"syn", "open", "closing", "dead"}
Socket == [tgid : Tgids, fd : Fds \ {0}, cookie : Cookies, observed : Observed,
           syn_ts : Ts, phase : Phases, http : {"idle", "sent", "body"}, hello : BOOLEAN]

ASSUME CaptureAssumption ==
    /\ MaxConns \in Nat /\ Observed \subseteq BOOLEAN
    /\ EventsCap \in Nat /\ TlsCap \in Nat
    /\ FALSE \in Observed => 0 \in Fds      \* an unobserved fd is reported as 0
    /\ None \notin Gens /\ None \notin Socket

Event == [kind : {"connect", "hello", "server_hello", "close",
                  "conn_id", "write", "head", "body"},
          gen : Gens, ts : Ts, target : 0 .. MaxBody, bio : Cookies \cup {None}]

HoldsFd(g)      == sock[g] # None /\ sock[g].phase \in {"syn", "open"}
HoldsPointer(g) == sock[g] # None /\ sock[g].phase # "dead"

(* The key the SSL probes give g's plaintext, and the cookie they stamp on *)
(* it in thread n: without an fd, whatever the thread last sent on.        *)
PlainFd(g)  == IF sock[g].observed THEN sock[g].fd ELSE 0
PlainBio(g, n) == IF sock[g].observed THEN None ELSE tid_cookie[<<sock[g].tgid, n>>]
PlainKey(g) == <<sock[g].tgid, PlainFd(g)>>
LinkKey(g)  == <<sock[g].tgid, sock[g].fd>>

-----------------------------------------------------------------------------
(* Kernel side. bpf_ringbuf_reserve fails on a full ring: the event is     *)
(* lost and nothing else waits for it.                                     *)

Offer(ring, cap, e) == IF Len(ring) < cap THEN Append(ring, e) ELSE ring

Emitted(kind, g, target, bio) ==
    [kind |-> kind, gen |-> g, ts |-> clock, target |-> target, bio |-> bio]

EmitEvent(kind, g) ==
    /\ clock < MaxTs /\ clock' = clock + 1
    /\ events' = Offer(events, EventsCap, Emitted(kind, g, 0, None))
    /\ UNCHANGED <<tls_events, tid_cookie>>

EmitTls(kind, g, target, bio) ==
    /\ clock < MaxTs /\ clock' = clock + 1
    /\ tls_events' = Offer(tls_events, TlsCap, Emitted(kind, g, target, bio))
    /\ UNCHANGED <<events, tid_cookie>>

(* connect(): the pointer and the fd are any that are free; the conn_id    *)
(* leaves on the plaintext ring whether or not the fd is ever observed.    *)
Connect(g, t, f, c, observed) ==
    /\ sock[g] = None /\ \A h \in Gens : h < g => sock[h] # None
    /\ \A h \in Gens : HoldsFd(h) => LinkKey(h) # <<t, f>>
    /\ \A h \in Gens : HoldsPointer(h) => sock[h].cookie # c
    /\ sock' = [sock EXCEPT ![g] =
          [tgid |-> t, fd |-> f, cookie |-> c, observed |-> observed,
           syn_ts |-> clock, phase |-> "syn", http |-> "idle", hello |-> FALSE]]
    /\ EmitTls("conn_id", g, 0, None)
    /\ UNCHANGED <<vars, ghosts>>

Establish(g) ==
    /\ sock[g] # None /\ sock[g].phase = "syn"
    /\ sock' = [sock EXCEPT ![g].phase = "open"]
    /\ EmitEvent("connect", g)
    /\ UNCHANGED <<vars, ghosts>>

(* The connect fails, or is abandoned: the event is stamped at the SYN, and *)
(* the close follows it.                                                   *)
Refuse(g) ==
    /\ sock[g] # None /\ sock[g].phase = "syn"
    /\ clock < MaxTs /\ clock' = clock + 1
    /\ sock' = [sock EXCEPT ![g].phase = "dead"]
    /\ LET failed == [Emitted("connect", g, 0, None) EXCEPT !.ts = sock[g].syn_ts]
       IN  events' = Offer(Offer(events, EventsCap, failed), EventsCap,
                           Emitted("close", g, 0, None))
    /\ UNCHANGED <<vars, ghosts, tls_events, tid_cookie>>

(* The hellos are captured only under the configuration that has Snis.     *)
ClientHello(g) ==
    /\ Snis # {}
    /\ sock[g] # None /\ sock[g].phase = "open" /\ ~sock[g].hello
    /\ sock' = [sock EXCEPT ![g].hello = TRUE]
    /\ EmitEvent("hello", g)
    /\ UNCHANGED <<vars, ghosts>>

(* A HelloRetryRequest makes a second ServerHello.                         *)
ServerHello(g) ==
    /\ sock[g] # None /\ sock[g].phase = "open" /\ sock[g].hello
    /\ EmitEvent("server_hello", g)
    /\ UNCHANGED <<vars, ghosts, sock>>

(* A thread of the process sends a TLS record on a tracked socket, which   *)
(* moves its cookie. It need not be the thread that wrote the plaintext,   *)
(* nor send at once (a memory BIO); a send on a socket that is not tracked *)
(* leaves the cookie where it was, so that no send is owed before a write. *)
SendRecord(g, n) ==
    /\ sock[g] # None /\ sock[g].phase = "open"
    /\ tid_cookie' = [tid_cookie EXCEPT ![<<sock[g].tgid, n>>] = sock[g].cookie]
    /\ UNCHANGED <<vars, ghosts, sock, clock, rings>>

(* The LRU map forgets the thread. *)
ForgetThread(t, n) ==
    /\ tid_cookie[<<t, n>>] # None
    /\ tid_cookie' = [tid_cookie EXCEPT ![<<t, n>>] = None]
    /\ UNCHANGED <<vars, ghosts, sock, clock, rings>>

Request(g, n) ==
    /\ sock[g] # None /\ sock[g].phase = "open" /\ sock[g].http = "idle"
    /\ op_counter + Cardinality({ i \in DOMAIN tls_events : tls_events[i].kind = "write" })
         < MaxOps
    /\ sock' = [sock EXCEPT ![g].http = "sent"]
    /\ EmitTls("write", g, 0, PlainBio(g, n))
    /\ UNCHANGED <<vars, ghosts>>

Respond(g, n, target) ==
    /\ sock[g] # None /\ sock[g].phase = "open" /\ sock[g].http = "sent"
    /\ sock' = [sock EXCEPT ![g].http = IF target > 0 THEN "body" ELSE "idle"]
    /\ EmitTls("head", g, target, PlainBio(g, n))
    /\ UNCHANGED <<vars, ghosts>>

(* Body bytes may themselves look like a response head.                    *)
ReceiveBody(g, n, kind) ==
    /\ sock[g] # None /\ sock[g].phase = "open" /\ sock[g].http = "body"
    /\ sock' = [sock EXCEPT ![g].http = "idle"]
    /\ EmitTls(kind, g, 0, PlainBio(g, n))
    /\ UNCHANGED <<vars, ghosts>>

(* close(fd), or the process exits: the fd is free at once, the socket is  *)
(* torn down later.                                                        *)
CloseFd(g) ==
    /\ sock[g] # None /\ sock[g].phase = "open"
    /\ sock' = [sock EXCEPT ![g].phase = "closing"]
    /\ UNCHANGED <<vars, ghosts, clock, tid_cookie, rings>>

(* tcp_set_state(CLOSE): the close event, then the pointer is free.        *)
Destroy(g) ==
    /\ sock[g] # None /\ sock[g].phase = "closing"
    /\ sock' = [sock EXCEPT ![g].phase = "dead"]
    /\ EmitEvent("close", g)
    /\ UNCHANGED <<vars, ghosts>>

-----------------------------------------------------------------------------
(* User side: one thread takes the head of either ring, folds it, and      *)
(* empties the flushed queue before the next event.                        *)

FoldEvents ==
    /\ flushed_ops = {} /\ events # <<>>
    /\ events' = Tail(events)
    /\ LET e == Head(events)
           g == e.gen
           c == sock[g].cookie
       IN  \/ /\ e.kind = "connect"
              /\ OnConnect(c, sock[g].tgid, e.ts, SatSub(e.ts, sock[g].syn_ts))
              /\ conn_gen' = [conn_gen EXCEPT ![c] = g]
              /\ UNCHANGED tls_gen
           \/ /\ e.kind = "hello"
              /\ \E sni \in Snis : OnTlsHandshake(c, sni, e.ts)
              /\ tls_gen' = [tls_gen EXCEPT ![c] = g]
              /\ UNCHANGED conn_gen
           \/ /\ e.kind = "server_hello"
              /\ \E v \in Versions : OnTlsServer(c, v, e.ts)
              /\ tls_gen' = [tls_gen EXCEPT ![c] = g]
              /\ UNCHANGED conn_gen
           \/ /\ e.kind = "close"
              /\ OnClose(c, e.ts)
              /\ UNCHANGED <<conn_gen, tls_gen>>
    /\ UNCHANGED <<kernel, tls_events, op_gen, op_bio, link_gen>>

FoldRead(e) ==
    LET k == PlainKey(e.gen)
    IN  IF ops[k] = None \/ ~SameBioConn(k, e.bio) THEN UNCHANGED vars
        ELSE IF e.kind = "body" THEN OnTlsReadBody(k[1], k[2], e.bio, e.ts, 1)
        ELSE IF AwaitingBody(k) THEN OnTlsReadAsBody(k[1], k[2], e.bio, e.ts, 1)
        ELSE OnTlsReadHead(k[1], k[2], e.bio, e.ts, e.target, 0)

FoldTls ==
    /\ flushed_ops = {} /\ tls_events # <<>>
    /\ tls_events' = Tail(tls_events)
    /\ LET e == Head(tls_events)
           g == e.gen
       IN  \/ /\ e.kind = "conn_id"
              /\ OnConnId(sock[g].tgid, sock[g].fd, sock[g].cookie, e.ts)
              /\ link_gen' = [link_gen EXCEPT ![LinkKey(g)] = g]
              /\ UNCHANGED <<op_gen, op_bio>>
           \/ /\ e.kind = "write"
              /\ OnTlsWrite(sock[g].tgid, PlainFd(g), e.bio, e.ts)
              /\ op_gen' = [op_gen EXCEPT ![op_counter'] = g]
              /\ op_bio' = [op_bio EXCEPT ![op_counter'] = e.bio]
              /\ UNCHANGED link_gen
           \/ /\ e.kind \in {"head", "body"}
              /\ FoldRead(e)
              /\ UNCHANGED <<op_gen, op_bio, link_gen>>
    /\ UNCHANGED <<kernel, events, conn_gen, tls_gen>>

Drain == TakeFlushedOps /\ UNCHANGED <<kernel, rings, ghosts>>

-----------------------------------------------------------------------------
CaptureInit ==
    /\ Init
    /\ sock = [g \in Gens |-> None]
    /\ clock = 0
    /\ tid_cookie = [th \in Tgids \X Threads |-> None]
    /\ events = <<>> /\ tls_events = <<>>
    /\ op_gen = [i \in OpIds |-> None]
    /\ op_bio = [i \in OpIds |-> None]
    /\ conn_gen = [c \in Cookies |-> None]
    /\ tls_gen = [c \in Cookies |-> None]
    /\ link_gen = [k \in Keys |-> None]

KernelNext ==
    \/ \E g \in Gens :
        \/ \E t \in Tgids, f \in Fds \ {0}, c \in Cookies, o \in Observed :
              Connect(g, t, f, c, o)
        \/ Establish(g) \/ Refuse(g) \/ ClientHello(g) \/ ServerHello(g)
        \/ CloseFd(g) \/ Destroy(g)
        \/ \E n \in Threads :
              \/ SendRecord(g, n) \/ Request(g, n)
              \/ \E kind \in {"head", "body"} : ReceiveBody(g, n, kind)
              \/ \E target \in 0 .. MaxBody : Respond(g, n, target)
    \/ \E t \in Tgids, n \in Threads : ForgetThread(t, n)

CaptureNext == KernelNext \/ FoldEvents \/ FoldTls \/ Drain

(* The fold loop keeps draining both rings; the kernel owes nothing.       *)
CaptureSpec ==
    /\ CaptureInit /\ [][CaptureNext]_all
    /\ WF_all(FoldEvents) /\ WF_all(FoldTls) /\ WF_all(Drain)

-----------------------------------------------------------------------------
(* Properties *)

(* The cookie stamped on plaintext of g names g's own socket, or none was  *)
(* asked for because the fd is known. Nothing in the kernel ensures it: a  *)
(* thread that multiplexes connections, sends for another thread, or is on *)
(* a socket the probes do not track stamps another one's cookie, or none.  *)
TrueStamp(g, bio) == sock[g].observed \/ bio = sock[g].cookie
FalseStamp(g, bio) == bio \notin {None, sock[g].cookie}

(* While the plaintext ring loses nothing, a response or a body chunk only *)
(* ever answers or completes an op its own connection sent, however fds    *)
(* and pointers were recycled and whatever the other ring has delivered.   *)
(* Where the fd is unknown that is true of requests and responses that     *)
(* each carry their own connection's cookie, also when connections share   *)
(* the fd-0 slot and events that carry another's cookie, or none, go       *)
(* through it in between.                                                  *)
ResponsesStayHome ==
    [][(/\ tls_events # <<>> /\ tls_events' = Tail(tls_events)
        /\ Head(tls_events).kind \in {"head", "body"}
        /\ TrueStamp(Head(tls_events).gen, Head(tls_events).bio)) =>
         \A k \in Keys :
            (/\ HasOpen(k) /\ ops'[k].open # ops[k].open
             /\ TrueStamp(op_gen[ops[k].open.id], op_bio[ops[k].open.id])) =>
                op_gen[ops[k].open.id] = Head(tls_events).gen]_all

(* A record joins one life of a socket only. Its op is reported under the  *)
(* cookie of the connection that sent it, or under none, unless the probe  *)
(* stamped another's on the request: then it is reported under that one,   *)
(* however the fds and pointers have moved since. And an op reported       *)
(* as reusing its connection (and so without dns and connect time) really  *)
(* had a predecessor there: no sequence number crosses from one life of an *)
(* fd or pointer to the next. An fd-0 connection is excepted, whose close  *)
(* finds the link of its real fd and leaves its slot behind.               *)
JoinsOneLife ==
    \A i \in OpIds : built[i] # None =>
        /\ IF FalseStamp(op_gen[i], op_bio[i])
           THEN built[i].cookie = op_bio[i]
           ELSE built[i].cookie \in {None, sock[op_gen[i]].cookie}
        /\ (built[i].seq > 0 /\ sock[op_gen[i]].observed) =>
              \E j \in OpIds : j < i /\ op_gen[j] = op_gen[i]

(* A record that saw its own connect never carries TLS facts an earlier    *)
(* life of the socket pointer left behind, whatever closes the ring lost.  *)
TlsFactsNotInherited ==
    \A c \in Cookies : (conns[c] # None /\ tls[c] # None) => tls_gen[c] >= conn_gen[c]

(* g holds its fd, its conn_id has been folded and its link is in place.   *)
Linked(g) ==
    /\ HoldsFd(g)
    /\ link_gen[LinkKey(g)] = g
    /\ fd_links[LinkKey(g)] # None
    /\ fd_links[LinkKey(g)].cookie = sock[g].cookie

(* Folding a close, which may be that of the pointer's previous life, never *)
(* severs a live connection from its cookie nor aborts its op in flight.   *)
CloseSparesLive ==
    [][\A g \in Gens :
         (Linked(g) /\ events # <<>> /\ events' = Tail(events) /\ Head(events).kind = "close") =>
            /\ fd_links'[LinkKey(g)] = fd_links[LinkKey(g)]
            /\ ops'[LinkKey(g)] = ops[LinkKey(g)]]_all

(* A close that reached the ring ends the connection's entry: whatever is  *)
(* queued before it, the entry is not left behind.                         *)
CloseQueued(g) ==
    \E i \in DOMAIN events : events[i].kind = "close" /\ events[i].gen = g
ClosedIsForgotten ==
    \A g \in Gens : CloseQueued(g) ~>
        (\A c \in Cookies : ~(conns[c] # None /\ conn_gen[c] = g))
=============================================================================
