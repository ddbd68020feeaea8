-------------------------------- MODULE Probes --------------------------------
(***************************************************************************)
(* The probes of s3tap.bpf.c and the maps they keep between two probes of  *)
(* one connection or one call: conn_track by socket pointer, the scope     *)
(* decision of the SYN, the connect() stash and the SSL calls in flight by *)
(* thread, SSL objects by pointer, the last TLS socket by thread. Pointers *)
(* are recycled, LRU maps forget, calls nest or are abandoned, and the     *)
(* scope of a process changes under them.                                  *)
(*                                                                         *)
(* A time stamp, a pid and an fd are represented by the life of the socket *)
(* they were taken from, 0 for none: what matters is whether they are      *)
(* those of the socket they are reported for. The rings are in Capture;    *)
(* here an event is seen as it is submitted. A thread is a process.        *)
(***************************************************************************)
EXTENDS Integers, FiniteSets, Sequences

CONSTANTS
    Threads,
    Ptrs,                             \* addresses of struct sock
    Ssls,                             \* SSL pointers of a thread
    Lives,                            \* bound: sockets created
    Nesting,                          \* bound: SSL calls of a thread inside one another
    Filters,                          \* whether the filter is engaged: subset of BOOLEAN
    None

(* What the maps hold: a socket (mine: in scope at its SYN), struct         *)
(* conn_track, the stash of a connect(), the binding of an SSL object, and *)
(* the calls a thread can be in.                                           *)
SocketState  == [owner : Threads, st : {"new", "udp", "syn", "est", "listen"},
                 life : 1 .. Lives, active : BOOLEAN, mine : BOOLEAN]
ConnTrack    == [syn : 0 .. Lives, est : 0 .. Lives, ch : 0 .. Lives, hs : 0 .. Lives,
                 scoped : BOOLEAN, sampled : BOOLEAN]
ConnectStash == [fd : 1 .. Lives, age : 0 .. 2, windowed : BOOLEAN]
Binding      == [p : Ptrs, life : 1 .. Lives]
ConnectCall  == [fn : {"connect"}, p : Ptrs]
SslCall      == [fn : {"read", "write"}, s : Ssls, large : BOOLEAN, seated : BOOLEAN]

ASSUME ProbesAssumption ==
    /\ Lives \in Nat /\ Nesting \in Nat
    /\ Filters \subseteq BOOLEAN
    /\ None \notin Nat \cup Ptrs \cup Ssls
    /\ None \notin SocketState \cup ConnTrack \cup ConnectStash \cup Binding

VARIABLES
    filtering,      \* CFG_FILTER_MODE is ALLOWLIST; written before any probe is attached
    exitAttached,   \* sys_exit_connect, attached after the other connect() probes
    scope,          \* the threads whose process has a seat
    sock,           \* pointer -> the socket there
    lives,          \* sockets created so far
    calls,          \* thread -> the connect() or SSL calls it is in, innermost last
    ssl,            \* thread -> SSL pointer -> what the object is bound to
    sock_ts, tracked_socks, tid_cookie, connect_fd, connect_exit_live,
    ssl_fd, inflight,                 \* ssl_read_inflight and ssl_write_inflight
    event           \* the event the last step submitted, next to what it should say

setup   == <<filtering, exitAttached>>
objects == <<scope, sock, lives, calls, ssl>>
connMap == <<sock_ts, tracked_socks>>
callMap == <<connect_fd, connect_exit_live, ssl_fd, inflight>>
vars    == <<setup, objects, connMap, tid_cookie, callMap, event>>

Free(p) == sock[p] = None
(* The event of a step that submits none.                                  *)
Quiet == event' = None

(* in_scope and sock_in_scope.                                             *)
InScope(t) == ~filtering \/ t \in scope
SockInScope(p) == ~filtering \/ p \in tracked_socks

-----------------------------------------------------------------------------
(* Sockets.                                                                *)

Socket(t, st, active) == [owner |-> t, st |-> st, life |-> lives + 1, active |-> active, mine |-> FALSE]

Create(p, s) ==
    /\ Free(p) /\ lives < Lives
    /\ lives' = lives + 1
    /\ sock' = [sock EXCEPT ![p] = s]

(* SYN_SENT: the scope is decided here, once. An active open out of scope  *)
(* proves that a mark left on this address is stale.                       *)
NoEntry == [syn |-> 0, est |-> 0, ch |-> 0, hs |-> 0, scoped |-> FALSE, sampled |-> FALSE]
TrackEntry(s) == [NoEntry EXCEPT !.syn = s.life, !.scoped = filtering]

MarkOnSyn(t, p) ==
    IF ~filtering THEN tracked_socks
    ELSE IF InScope(t) THEN tracked_socks \cup {p} ELSE tracked_socks \ {p}

SynSent(t, p, s) ==
    /\ sock_ts' = IF InScope(t) THEN [sock_ts EXCEPT ![p] = TrackEntry(s)] ELSE sock_ts
    /\ tracked_socks' = MarkOnSyn(t, p)

(* ESTABLISHED, in softirq: of an active open that was decided on, or of a *)
(* passive one, whose owner is not known.                                  *)
EntryOr0(p) == IF sock_ts[p] = None THEN NoEntry ELSE sock_ts[p]

Established(p, s) ==
    IF SockInScope(p)
    THEN LET t == EntryOr0(p)
         IN  /\ event' = [type |-> "connect", of |-> {t.syn}, real |-> s]
             /\ sock_ts' = [sock_ts EXCEPT ![p] = [t EXCEPT !.est = s.life]]
    ELSE UNCHANGED sock_ts /\ Quiet

Establish(p) ==
    /\ ~Free(p) /\ sock[p].st = "syn"
    /\ sock' = [sock EXCEPT ![p].st = "est"]
    /\ Established(p, sock[p])
    /\ UNCHANGED <<setup, scope, lives, calls, ssl, tracked_socks, tid_cookie, callMap>>

Accept(t, p) ==
    LET s == Socket(t, "est", FALSE)
    IN  /\ Create(p, s)
        /\ Established(p, s)
        /\ UNCHANGED <<setup, scope, calls, ssl, tracked_socks, tid_cookie, callMap>>

Listen(t, p) ==
    /\ Create(p, Socket(t, "listen", FALSE))
    /\ UNCHANGED <<setup, scope, calls, ssl, connMap, tid_cookie, callMap>> /\ Quiet

(* CLOSE. The entry outlives the mark when the LRU map dropped it, so that *)
(* either is enough; an entry made without a mark is not.                  *)
Held(p) == sock_ts[p] # None /\ sock_ts[p].scoped
CloseGate(p) == SockInScope(p) \/ Held(p)

CloseEvent(p) ==
    LET t == EntryOr0(p)
    IN  [type |-> "close", of |-> {t.syn, IF t.est # 0 THEN t.est ELSE t.syn, t.hs}, real |-> sock[p]]

EntryKept(p) == sock_ts                      \* a fault: the entry is left for the next socket
EntryDropped(p) == [sock_ts EXCEPT ![p] = None]

TcpClose(p) ==
    /\ ~Free(p) /\ sock[p].st \in {"syn", "est"}
    /\ sock' = [sock EXCEPT ![p] = None]
    /\ IF CloseGate(p)
       THEN event' = CloseEvent(p) /\ sock_ts' = EntryDropped(p)
       ELSE UNCHANGED sock_ts /\ Quiet
    /\ tracked_socks' = tracked_socks \ {p}
    /\ UNCHANGED <<setup, scope, lives, calls, ssl, tid_cookie, callMap>>

(* A listener and a datagram socket leave no trace.                        *)
OtherClose(p) ==
    /\ ~Free(p) /\ sock[p].st \in {"listen", "udp"}
    /\ sock' = [sock EXCEPT ![p] = None]
    /\ UNCHANGED <<setup, scope, lives, calls, ssl, connMap, tid_cookie, callMap>> /\ Quiet

(* udp_sendmsg of a query: the mark lets the response pass in softirq.     *)
QueryDns(t, p) ==
    /\ ~Free(p) /\ sock[p].st = "udp" /\ sock[p].owner = t
    /\ tracked_socks' = MarkOnSyn(t, p)
    /\ UNCHANGED <<setup, objects, sock_ts, tid_cookie, callMap>> /\ Quiet

(* do_tcp_sample: nothing is inserted on a miss; a sample that the ring    *)
(* refuses consumes the interval as well.                                  *)
Sample(p) ==
    /\ ~Free(p) /\ sock[p].st = "est"
    /\ sock_ts[p] # None /\ CloseGate(p) /\ ~sock_ts[p].sampled
    /\ sock_ts' = [sock_ts EXCEPT ![p].sampled = TRUE]
    /\ event' = [type |-> "sample", real |-> sock[p]]
    /\ UNCHANGED <<setup, objects, tracked_socks, tid_cookie, callMap>>

IntervalOver(p) ==
    /\ sock_ts[p] # None /\ sock_ts[p].sampled
    /\ sock_ts' = [sock_ts EXCEPT ![p].sampled = FALSE]
    /\ UNCHANGED <<setup, objects, tracked_socks, tid_cookie, callMap>> /\ Quiet

-----------------------------------------------------------------------------
(* connect(): the enter probe stashes the fd, tcp_v4_connect pairs it with *)
(* the socket, the exit probe ends the stash. A connect() that raises no   *)
(* enter event (io_uring, TCP fast open) comes to tcp_v4_connect as well.  *)

NoCall == <<>>

EnterConnect(t, p, st) ==
    /\ calls[t] = NoCall
    /\ Create(p, Socket(t, st, TRUE))
    /\ calls' = [calls EXCEPT ![t] = <<[fn |-> "connect", p |-> p]>>]
    /\ connect_fd' = IF InScope(t)
                     THEN [connect_fd EXCEPT ![t] = [fd |-> lives + 1, age |-> 0, windowed |-> ~exitAttached]]
                     ELSE connect_fd
    /\ UNCHANGED <<setup, scope, ssl, connMap, tid_cookie, connect_exit_live, ssl_fd, inflight>> /\ Quiet

(* The age of a stash: below 50 ms, below 10 s, above. A thread can be     *)
(* kept off the processor for as long, inside its connect() or after it.   *)
Age(t) ==
    /\ connect_fd[t] # None /\ connect_fd[t].age < 2
    /\ connect_fd' = [connect_fd EXCEPT ![t].age = @ + 1]
    /\ UNCHANGED <<setup, objects, connMap, tid_cookie, connect_exit_live, ssl_fd, inflight>> /\ Quiet

IsNew(t, p) == ~Free(p) /\ sock[p].st = "new" /\ sock[p].owner = t

MaxAge == IF connect_exit_live THEN 1 ELSE 0

EmitConnId(t, s) ==
    /\ event' = IF connect_fd[t] # None /\ connect_fd[t].age <= MaxAge
                THEN [type |-> "conn_id", fd |-> connect_fd[t].fd,
                      windowed |-> connect_fd[t].windowed, real |-> s]
                ELSE None
    /\ connect_fd' = [connect_fd EXCEPT ![t] = None]

TcpConnect(t, p) ==
    /\ calls[t] = <<[fn |-> "connect", p |-> p]>> /\ IsNew(t, p)
    /\ LET s == [sock[p] EXCEPT !.st = "syn", !.mine = filtering /\ InScope(t)]
       IN  /\ sock' = [sock EXCEPT ![p] = s]
           /\ EmitConnId(t, s)
           /\ SynSent(t, p, s)
    /\ UNCHANGED <<setup, scope, lives, calls, ssl, tid_cookie, connect_exit_live, ssl_fd, inflight>>

OtherConnect(t, p) ==
    /\ calls[t] = NoCall
    /\ LET s == [Socket(t, "syn", TRUE) EXCEPT !.mine = filtering /\ InScope(t)]
       IN  /\ Create(p, s)
           /\ EmitConnId(t, s)
           /\ SynSent(t, p, s)
    /\ UNCHANGED <<setup, scope, calls, ssl, tid_cookie, connect_exit_live, ssl_fd, inflight>>

StashKept(t) == connect_fd                   \* a fault: the exit leaves the stash
StashEnded(t) == [connect_fd EXCEPT ![t] = None]

(* A connect() that failed early leaves a socket that was never one.       *)
ExitConnect(t) ==
    /\ Len(calls[t]) = 1 /\ calls[t][1].fn = "connect"
    /\ calls' = [calls EXCEPT ![t] = NoCall]
    /\ LET p == calls[t][1].p
       IN  sock' = IF IsNew(t, p) THEN [sock EXCEPT ![p] = None] ELSE sock
    /\ IF exitAttached
       THEN connect_exit_live' = TRUE /\ connect_fd' = StashEnded(t)
       ELSE UNCHANGED <<connect_exit_live, connect_fd>>
    /\ UNCHANGED <<setup, scope, lives, ssl, connMap, tid_cookie, ssl_fd, inflight>> /\ Quiet

AttachExit ==
    /\ ~exitAttached /\ exitAttached' = TRUE
    /\ UNCHANGED <<filtering, objects, connMap, tid_cookie, callMap>> /\ Quiet

-----------------------------------------------------------------------------
(* SSL objects, bound once, by SSL_set_fd or, for a BIO client, by nothing *)
(* a probe sees; and the TLS records they send.                            *)

Alive(t, s) == ssl[t][s] # None /\ ~Free(ssl[t][s].p) /\ sock[ssl[t][s].p].life = ssl[t][s].life

Bind(t, s, p, byFd) ==
    /\ ssl[t][s] = None /\ ~Free(p) /\ sock[p].owner = t /\ sock[p].st = "est"
    /\ ssl' = [ssl EXCEPT ![t][s] = [p |-> p, life |-> sock[p].life]]
    /\ ssl_fd' = IF byFd /\ InScope(t) THEN [ssl_fd EXCEPT ![t][s] = sock[p].life] ELSE ssl_fd
    /\ UNCHANGED <<setup, scope, sock, lives, calls, connMap, tid_cookie, connect_fd, connect_exit_live,
                   inflight>> /\ Quiet

FreeIfSeated(t, s) == IF InScope(t) THEN [ssl_fd EXCEPT ![t][s] = None] ELSE ssl_fd   \* a fault
FreeAlways(t, s) == [ssl_fd EXCEPT ![t][s] = None]

SslFree(t, s) ==
    /\ ssl[t][s] # None /\ \A i \in DOMAIN calls[t] : calls[t][i].fn # "connect" => calls[t][i].s # s
    /\ ssl' = [ssl EXCEPT ![t][s] = None]
    /\ ssl_fd' = FreeAlways(t, s)
    /\ UNCHANGED <<setup, scope, sock, lives, calls, connMap, tid_cookie, connect_fd, connect_exit_live,
                   inflight>> /\ Quiet

(* tcp_sendmsg: remember the thread's connection, start and stop the clock *)
(* of the handshake. A first handshake record of a passive open is no      *)
(* ClientHello.                                                            *)
StashCookie(t, p) == IF sock_ts[p] = None THEN tid_cookie ELSE [tid_cookie EXCEPT ![t] = p]

Stamped(p, field, value) == IF sock_ts[p] = None THEN sock_ts ELSE [sock_ts EXCEPT ![p][field] = value]

HelloSent(p) ==
    IF SockInScope(p) /\ EntryOr0(p).ch = 0 /\ EntryOr0(p).syn # 0
    THEN Stamped(p, "ch", sock[p].life) ELSE sock_ts

DataSent(p) ==
    IF EntryOr0(p).ch # 0 /\ EntryOr0(p).hs = 0 THEN Stamped(p, "hs", sock_ts[p].ch) ELSE sock_ts

(* The records of an object leave inside one of its calls, or, through a   *)
(* memory BIO, whenever any thread u that has the socket sends them.       *)
Connecting(t) == calls[t] # NoCall /\ calls[t][1].fn = "connect"

Send(u, t, s, stamped) ==
    /\ Alive(t, s) /\ ~Connecting(u)
    /\ tid_cookie' = StashCookie(u, ssl[t][s].p)
    /\ sock_ts' = stamped
    /\ UNCHANGED <<setup, objects, tracked_socks, callMap>> /\ Quiet

Handshake(u, t, s) == Send(u, t, s, HelloSent(ssl[t][s].p))
SendData(u, t, s)  == Send(u, t, s, DataSent(ssl[t][s].p))

-----------------------------------------------------------------------------
(* SSL_write and SSL_read: the entry stashes the call under its thread,    *)
(* the exit reports what the return value says. A call may be entered from *)
(* a callback of another (TLS inside TLS), or be left without a return. A  *)
(* write of less than seven bytes is not large: it can hold no head.       *)

Frame(t, fn, s, large) == [fn |-> fn, s |-> s, large |-> large, seated |-> InScope(t)]

EnterSsl(t, fn, s, large) ==
    /\ Alive(t, s) /\ Len(calls[t]) < Nesting
    /\ \A i \in DOMAIN calls[t] :
          calls[t][i].fn # "connect" /\ calls[t][i].s # s
    /\ fn = "read" => large
    /\ calls' = [calls EXCEPT ![t] = Append(@, Frame(t, fn, s, large))]
    /\ inflight' = IF InScope(t) /\ large
                   THEN [inflight EXCEPT ![fn][t] = s] ELSE inflight
    /\ UNCHANGED <<setup, scope, sock, lives, ssl, connMap, tid_cookie, connect_fd, connect_exit_live,
                   ssl_fd>> /\ Quiet

Top(t) == calls[t][Len(calls[t])]
InSsl(t) == calls[t] # NoCall /\ Top(t).fn # "connect"
Pop(t) == calls' = [calls EXCEPT ![t] = SubSeq(@, 1, Len(@) - 1)]

FdOf(t, s) == IF ssl_fd[t][s] = None THEN 0 ELSE ssl_fd[t][s]

(* ssl_write_capture and ssl_read_capture: of what the stashed buffer      *)
(* holds, a request or response head is copied, the rest of a response is  *)
(* counted, the rest of a request is not reported.                         *)
Kind(fn, head) == IF head THEN fn ELSE IF fn = "read" THEN "body" ELSE "none"

Plaintext(t, call, st, kind, cookie, sent) ==
    LET fd == FdOf(t, st)
    IN  [type |-> kind, s |-> st, fd |-> fd,
         cookie |-> IF fd = 0 THEN cookie ELSE None,
         call |-> call, conn |-> ssl[t][call.s], sent |-> sent,
         known |-> sock_ts[ssl[t][call.s].p] # None]

Reported(t, st) == st # None /\ InScope(t)

(* A write that returns bytes may have sent them, so that tcp_sendmsg ran  *)
(* before and the thread's cookie, unless forgotten since, is of that; or  *)
(* it left them to a memory BIO.                                           *)
CookiesAfter(t, p, sent) ==
    IF sent THEN {StashCookie(t, p), [tid_cookie EXCEPT ![t] = None]} ELSE {tid_cookie}

Return(t, outcome, sent) ==
    /\ InSsl(t)
    /\ sent => Top(t).fn = "write" /\ outcome # "fail"
    /\ LET call == Top(t)
           st == inflight[call.fn][t]
           p == ssl[t][call.s].p
       IN  /\ outcome # "fail" => Alive(t, call.s)
           /\ outcome = "head" => call.large
           /\ tid_cookie' \in CookiesAfter(t, p, sent)
           /\ sock_ts' = IF sent THEN DataSent(p) ELSE sock_ts
           /\ inflight' = [inflight EXCEPT ![call.fn][t] = None]
           /\ \E head \in BOOLEAN :
                 LET kind == Kind(call.fn, head)
                 IN  /\ head => call.large
                     /\ st = call.s => head = (outcome = "head")
                     /\ IF outcome # "fail" /\ Reported(t, st) /\ kind # "none"
                        THEN event' = Plaintext(t, call, st, kind, tid_cookie'[t], sent)
                        ELSE Quiet
    /\ Pop(t)
    /\ UNCHANGED <<setup, scope, sock, lives, ssl, tracked_socks, connect_fd, connect_exit_live, ssl_fd>>

(* An exception or a longjmp to the caller of the library: no return of    *)
(* any of the calls, no exit probe.                                        *)
Abandon(t) ==
    /\ InSsl(t)
    /\ calls' = [calls EXCEPT ![t] = NoCall]
    /\ UNCHANGED <<setup, scope, sock, lives, ssl, connMap, tid_cookie, callMap>> /\ Quiet

-----------------------------------------------------------------------------
(* The LRU maps drop any entry when others fill them; a seat is given and  *)
(* withdrawn at any time.                                                  *)

Evict ==
    /\ \/ /\ \E p \in Ptrs : sock_ts[p] # None /\ sock_ts' = [sock_ts EXCEPT ![p] = None]
          /\ UNCHANGED <<tracked_socks, tid_cookie, connect_fd, ssl_fd, inflight>>
       \/ /\ \E p \in tracked_socks : tracked_socks' = tracked_socks \ {p}
          /\ UNCHANGED <<sock_ts, tid_cookie, connect_fd, ssl_fd, inflight>>
       \/ /\ \E t \in Threads : tid_cookie[t] # None /\ tid_cookie' = [tid_cookie EXCEPT ![t] = None]
          /\ UNCHANGED <<connMap, connect_fd, ssl_fd, inflight>>
       \/ /\ \E t \in Threads : connect_fd[t] # None /\ connect_fd' = [connect_fd EXCEPT ![t] = None]
          /\ UNCHANGED <<connMap, tid_cookie, ssl_fd, inflight>>
       \/ /\ \E t \in Threads, s \in Ssls :
                ssl_fd[t][s] # None /\ ssl_fd' = [ssl_fd EXCEPT ![t][s] = None]
          /\ UNCHANGED <<connMap, tid_cookie, connect_fd, inflight>>
       \/ /\ \E t \in Threads, fn \in {"read", "write"} :
                inflight[fn][t] # None /\ inflight' = [inflight EXCEPT ![fn][t] = None]
          /\ UNCHANGED <<connMap, tid_cookie, connect_fd, ssl_fd>>
    /\ UNCHANGED <<setup, objects, connect_exit_live>> /\ Quiet

Rescope(t) ==
    /\ filtering
    /\ scope' = IF t \in scope THEN scope \ {t} ELSE scope \cup {t}
    /\ UNCHANGED <<setup, sock, lives, calls, ssl, connMap, tid_cookie, callMap>> /\ Quiet

-----------------------------------------------------------------------------
Init ==
    /\ filtering \in Filters /\ exitAttached = FALSE
    /\ scope = IF filtering THEN Threads ELSE {}
    /\ sock = [p \in Ptrs |-> None] /\ lives = 0
    /\ calls = [t \in Threads |-> NoCall]
    /\ ssl = [t \in Threads |-> [s \in Ssls |-> None]]
    /\ sock_ts = [p \in Ptrs |-> None] /\ tracked_socks = {}
    /\ tid_cookie = [t \in Threads |-> None]
    /\ connect_fd = [t \in Threads |-> None] /\ connect_exit_live = FALSE
    /\ ssl_fd = [t \in Threads |-> [s \in Ssls |-> None]]
    /\ inflight = [fn \in {"read", "write"} |-> [t \in Threads |-> None]]
    /\ event = None

Sockets ==
    \/ \E p \in Ptrs : Establish(p) \/ TcpClose(p) \/ OtherClose(p) \/ Sample(p) \/ IntervalOver(p)
    \/ \E t \in Threads, p \in Ptrs : QueryDns(t, p) \/ Accept(t, p) \/ Listen(t, p)

Connects ==
    \/ \E t \in Threads, p \in Ptrs :
          EnterConnect(t, p, "new") \/ EnterConnect(t, p, "udp") \/ OtherConnect(t, p) \/ TcpConnect(t, p)
    \/ \E t \in Threads : ExitConnect(t) \/ Age(t)
    \/ AttachExit

SslCalls ==
    \/ \E t \in Threads, s \in Ssls, p \in Ptrs, byFd \in BOOLEAN : Bind(t, s, p, byFd)
    \/ \E t \in Threads, s \in Ssls : SslFree(t, s)
    \/ \E u, t \in Threads, s \in Ssls : Handshake(u, t, s) \/ SendData(u, t, s)
    \/ \E t \in Threads, s \in Ssls, fn \in {"read", "write"}, large \in BOOLEAN :
          EnterSsl(t, fn, s, large)
    \/ \E t \in Threads, outcome \in {"fail", "head", "other"}, sent \in BOOLEAN :
          Return(t, outcome, sent)
    \/ \E t \in Threads : Abandon(t)

Next == Sockets \/ Connects \/ SslCalls \/ Evict \/ \E t \in Threads : Rescope(t)

Spec == Init /\ [][Next]_vars

-----------------------------------------------------------------------------
TypeOK ==
    /\ filtering \in BOOLEAN /\ exitAttached \in BOOLEAN
    /\ scope \subseteq Threads /\ lives \in 0 .. Lives
    /\ sock \in [Ptrs -> SocketState \cup {None}]
    /\ calls \in [Threads -> Seq(ConnectCall \cup SslCall)]
    /\ ssl \in [Threads -> [Ssls -> Binding \cup {None}]]
    /\ sock_ts \in [Ptrs -> ConnTrack \cup {None}]
    /\ tracked_socks \subseteq Ptrs /\ (~filtering => tracked_socks = {})
    /\ tid_cookie \in [Threads -> Ptrs \cup {None}]
    /\ connect_fd \in [Threads -> ConnectStash \cup {None}] /\ connect_exit_live \in BOOLEAN
    /\ ssl_fd \in [Threads -> [Ssls -> (1 .. Lives) \cup {None}]]
    /\ inflight \in [{"read", "write"} -> [Threads -> Ssls \cup {None}]]

Is(types) == event # None /\ event.type \in types

(* A connect or close event tells of one socket. The owner, the latency,   *)
(* the lifetime and the handshake time are its own, or unknown, however    *)
(* often its address was used before and whatever the maps forgot; and     *)
(* under a filter no active open that was out of scope at its SYN is       *)
(* reported, also when its address still carries the mark of a datagram    *)
(* socket or of an earlier connection.                                     *)
EventsAreOwn ==
    /\ Is({"connect", "close"}) => event.of \subseteq {0, event.real.life}
    /\ filtering /\ Is({"connect", "close", "sample"}) /\ event.real.active => event.real.mine

(* A conn_id names the fd of its own socket. The exception is a stash that *)
(* was made before the exit probe was attached.                            *)
ConnIdTrue == Is({"conn_id"}) => event.fd = event.real.life \/ event.windowed

(* A plaintext event of a call whose entry was in scope is about the       *)
(* object of that call, though calls nest and are abandoned; its fd is     *)
(* that of the object, or unknown; and a request without an fd that its    *)
(* own thread sent, on a connection that is tracked, carries the cookie of *)
(* that connection or none, whatever the thread sent on before.            *)
PlaintextIsOwn ==
    Is({"write", "read", "body"}) /\ event.call.seated =>
        /\ event.s = event.call.s
        /\ event.fd \in {0, event.conn.life}
        /\ event.type = "write" /\ event.fd = 0 /\ event.sent /\ event.known =>
              event.cookie \in {None, event.conn.p}

(* emit_tls_data: the cookie of a request without an fd is left 0 if the   *)
(* connection is unknown. So it is never another connection's, of a        *)
(* request that its own thread sent.                                       *)
UnknownLeftPartial ==
    Is({"write"}) /\ event.fd = 0 /\ event.sent /\ event.call.seated =>
        event.cookie \in {None, event.conn.p}
=============================================================================
