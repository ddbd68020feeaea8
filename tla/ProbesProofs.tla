---------------------------- MODULE ProbesProofs ----------------------------
(***************************************************************************)
(* The probes for every number of threads, socket addresses, SSL objects,  *)
(* lives and nested calls: no event tells of another socket, call or SSL   *)
(* object than its own.                                                    *)
(***************************************************************************)
EXTENDS Probes, SequenceTheorems, TLAPS

Live(p) == ~Free(p) /\ sock[p].st \in {"syn", "est"}

(* An entry that passes the gate of its socket's close holds facts of that *)
(* socket only. One that a closed socket has left behind was made of a     *)
(* stale mark, under the filter, and knows no SYN, hence no handshake.     *)
EntryOwn(p) ==
    sock_ts[p] # None =>
        /\ Live(p) /\ CloseGate(p) =>
              {sock_ts[p].syn, sock_ts[p].est, sock_ts[p].ch, sock_ts[p].hs} \subseteq {0, sock[p].life}
        /\ sock_ts[p].scoped \/ ~filtering => Live(p)
        /\ filtering /\ ~sock_ts[p].scoped => sock_ts[p].syn = 0 /\ sock_ts[p].ch = 0 /\ sock_ts[p].hs = 0

(* The close of an active open that was out of scope finds neither a mark  *)
(* nor an entry made with one.                                             *)
ForeignUnmarked(p) ==
    filtering /\ Live(p) /\ sock[p].active /\ ~sock[p].mine => ~CloseGate(p)

EntriesOwn == \A p \in Ptrs : EntryOwn(p) /\ ForeignUnmarked(p)

InConnect(t, p) == calls[t] = <<[fn |-> "connect", p |-> p]>>

(* Once the exit probe is attached, a stash is that of the connect() its   *)
(* thread is in.                                                           *)
StashOwn(t) ==
    connect_fd[t] # None /\ ~connect_fd[t].windowed =>
        /\ exitAttached /\ calls[t] # NoCall
        /\ \A p \in Ptrs :
              InConnect(t, p) /\ IsNew(t, p) => sock[p].life = connect_fd[t].fd
        /\ \E p \in Ptrs : InConnect(t, p)

StashesOwn == \A t \in Threads : StashOwn(t)

(* What is in flight for a function is the object of its innermost call    *)
(* that the entry probe stashed, if the thread is still in one.            *)
Stashed(call, fn) == call.fn = fn /\ call.seated /\ call.large

Innermost(seq, fn, i) ==
    /\ i \in DOMAIN seq /\ Stashed(seq[i], fn)
    /\ \A j \in DOMAIN seq : j > i => ~Stashed(seq[j], fn)

Answers(seq, fn, s) == s # None => \A i : Innermost(seq, fn, i) => seq[i].s = s

CallsOwn ==
    \A t \in Threads :
        /\ \A fn \in {"read", "write"} : Answers(calls[t], fn, inflight[fn][t])
        /\ \A i \in DOMAIN calls[t] : calls[t][i].fn = "read" => calls[t][i].large

(* The fd of an SSL object is that of the socket it is bound to.           *)
ObjectsOwn ==
    \A t \in Threads, s \in Ssls :
        ssl_fd[t][s] # None => ssl[t][s] # None /\ ssl_fd[t][s] = ssl[t][s].life

Reports == EventsAreOwn /\ ConnIdTrue /\ PlaintextIsOwn

Inv == TypeOK /\ EntriesOwn /\ StashesOwn /\ CallsOwn /\ ObjectsOwn /\ Reports

-----------------------------------------------------------------------------
(* A step that submits nothing reports nothing wrong.                      *)
LEMMA SilenceIsTrue == Quiet => Reports'
BY DEF Quiet, Reports, EventsAreOwn, ConnIdTrue, PlaintextIsOwn, Is

(* What a step leaves alone stays true.                                    *)
LEMMA EntriesFrame ==
    EntriesOwn /\ UNCHANGED <<filtering, sock, sock_ts, tracked_socks>> => EntriesOwn'
BY DEF EntriesOwn, EntryOwn, ForeignUnmarked, Live, Free, CloseGate, Held, SockInScope

LEMMA StashesFrame ==
    StashesOwn /\ UNCHANGED <<exitAttached, calls, sock, connect_fd>> => StashesOwn'
<1> SUFFICES ASSUME StashesOwn, UNCHANGED <<exitAttached, calls, sock, connect_fd>>
             PROVE  StashesOwn'
  OBVIOUS
<1>1. \A t, p : (InConnect(t, p)' <=> InConnect(t, p)) /\ (IsNew(t, p)' <=> IsNew(t, p))
  BY DEF InConnect, IsNew, Free
<1> QED
  BY <1>1 DEF StashesOwn, StashOwn

LEMMA CallsFrame == CallsOwn /\ UNCHANGED <<calls, inflight>> => CallsOwn'
BY DEF CallsOwn

LEMMA ObjectsFrame == ObjectsOwn /\ UNCHANGED <<ssl, ssl_fd>> => ObjectsOwn'
BY DEF ObjectsOwn

LEMMA EveryFrame == Inv /\ UNCHANGED vars => Inv'
<1> SUFFICES ASSUME Inv, UNCHANGED vars PROVE Inv'
  OBVIOUS
<1>1. UNCHANGED <<filtering, exitAttached, scope, sock, lives, calls, ssl, sock_ts, tracked_socks,
                  tid_cookie, connect_fd, connect_exit_live, ssl_fd, inflight, event>>
  BY DEF vars, setup, objects, connMap, callMap
<1>2. TypeOK'
  BY <1>1 DEF Inv, TypeOK
<1>3. Reports'
  BY <1>1 DEF Inv, Reports, EventsAreOwn, ConnIdTrue, PlaintextIsOwn, Is
<1> QED
  BY <1>1, <1>2, <1>3, EntriesFrame, StashesFrame, CallsFrame, ObjectsFrame DEF Inv

-----------------------------------------------------------------------------
(* What the maps hold.                                                     *)
LEMMA SockTyped ==
    ASSUME TypeOK, NEW p \in Ptrs, ~Free(p)
    PROVE  /\ sock[p] \in SocketState /\ sock[p].owner \in Threads
           /\ sock[p].st \in {"new", "udp", "syn", "est", "listen"}
           /\ sock[p].life \in 1 .. Lives
           /\ sock[p].active \in BOOLEAN /\ sock[p].mine \in BOOLEAN
BY DEF TypeOK, Free, SocketState

LEMMA EntryTyped ==
    ASSUME TypeOK, NEW p \in Ptrs
    PROVE  /\ EntryOr0(p) \in ConnTrack
           /\ sock_ts[p] = None => EntryOr0(p) = NoEntry
           /\ sock_ts[p] # None => EntryOr0(p) = sock_ts[p]
<1>1. NoEntry \in ConnTrack
  BY ProbesAssumption DEF NoEntry, ConnTrack
<1> QED
  BY <1>1 DEF EntryOr0, TypeOK

LEMMA NotNone ==
    /\ \A x \in SocketState : x # None
    /\ \A x \in ConnTrack : x # None
    /\ \A x \in ConnectStash : x # None
    /\ \A x \in Binding : x # None
    /\ \A x \in Nat : x # None
BY ProbesAssumption

LEMMA SocketTyped ==
    ASSUME TypeOK, NEW t \in Threads, lives < Lives, NEW active \in BOOLEAN,
           NEW st \in {"new", "udp", "syn", "est", "listen"}
    PROVE  /\ Socket(t, st, active) \in SocketState
           /\ Socket(t, st, active) # None
           /\ Socket(t, st, active).owner = t
           /\ Socket(t, st, active).st = st
           /\ Socket(t, st, active).active = active
           /\ Socket(t, st, active).life = lives + 1
           /\ lives + 1 \in 1 .. Lives
<1>1. lives + 1 \in 1 .. Lives
  BY ProbesAssumption DEF TypeOK
<1>2. Socket(t, st, active) \in SocketState
  BY <1>1 DEF Socket, SocketState
<1> QED
  BY <1>1, <1>2, NotNone DEF Socket

LEMMA Created ==
    ASSUME TypeOK, NEW p \in Ptrs, NEW s, Create(p, s)
    PROVE  /\ Free(p) /\ lives < Lives /\ lives' \in 0 .. Lives
           /\ sock' = [sock EXCEPT ![p] = s] /\ sock'[p] = s
BY ProbesAssumption DEF TypeOK, Create

LEMMA InitInv == Init => Inv
<1> SUFFICES ASSUME Init PROVE Inv
  OBVIOUS
<1>1. TypeOK
  <2>1. filtering \in BOOLEAN /\ scope \subseteq Threads
    BY ProbesAssumption DEF Init
  <2>2. lives \in 0 .. Lives
    BY ProbesAssumption DEF Init
  <2>3. calls \in [Threads -> Seq(ConnectCall \cup SslCall)]
    BY DEF Init, NoCall
  <2>4. /\ exitAttached \in BOOLEAN /\ connect_exit_live \in BOOLEAN
        /\ sock \in [Ptrs -> SocketState \cup {None}]
        /\ sock_ts \in [Ptrs -> ConnTrack \cup {None}]
        /\ tracked_socks \subseteq Ptrs /\ (~filtering => tracked_socks = {})
        /\ tid_cookie \in [Threads -> Ptrs \cup {None}]
        /\ connect_fd \in [Threads -> ConnectStash \cup {None}]
    BY DEF Init
  <2>5. /\ ssl \in [Threads -> [Ssls -> Binding \cup {None}]]
        /\ ssl_fd \in [Threads -> [Ssls -> (1 .. Lives) \cup {None}]]
        /\ inflight \in [{"read", "write"} -> [Threads -> Ssls \cup {None}]]
    BY DEF Init
  <2> QED
    BY <2>1, <2>2, <2>3, <2>4, <2>5 DEF TypeOK
<1>2. EntriesOwn
  BY DEF Init, EntriesOwn, EntryOwn, ForeignUnmarked, Live, Free
<1>3. StashesOwn
  BY DEF Init, StashesOwn, StashOwn
<1>4. CallsOwn
  <2>1. /\ \A t \in Threads : calls[t] = <<>>
        /\ \A t \in Threads, fn \in {"read", "write"} : inflight[fn][t] = None
    BY DEF Init, NoCall
  <2> QED
    BY <2>1 DEF CallsOwn, Answers
<1>5. ObjectsOwn
  <2>1. \A t \in Threads, s \in Ssls : ssl_fd[t][s] = None
    BY DEF Init
  <2> QED
    BY <2>1 DEF ObjectsOwn
<1>6. Reports
  BY DEF Init, Reports, EventsAreOwn, ConnIdTrue, PlaintextIsOwn, Is
<1> QED
  BY <1>1, <1>2, <1>3, <1>4, <1>5, <1>6 DEF Inv

-----------------------------------------------------------------------------
(* One socket address, one thread, left alone by a step on others.         *)
EntryKeeps(p) == EntryOwn(p) /\ ForeignUnmarked(p)

LEMMA EntryFrame ==
    ASSUME NEW p, EntryKeeps(p), filtering' = filtering,
           sock'[p] = sock[p], sock_ts'[p] = sock_ts[p],
           p \in tracked_socks' <=> p \in tracked_socks
    PROVE  EntryKeeps(p)'
BY DEF EntryKeeps, EntryOwn, ForeignUnmarked, Live, Free, CloseGate, Held, SockInScope

(* A stash stays true as long as no new socket appears under its thread.   *)
LEMMA StashFrame ==
    ASSUME NEW t, StashOwn(t), exitAttached' = exitAttached,
           calls'[t] = calls[t], connect_fd'[t] = connect_fd[t],
           \A p \in Ptrs : IsNew(t, p)' => IsNew(t, p) /\ sock'[p].life = sock[p].life
    PROVE  StashOwn(t)'
<1>1. \A p : InConnect(t, p)' <=> InConnect(t, p)
  BY DEF InConnect
<1> QED
  BY <1>1 DEF StashOwn

(* The sockets of a step that makes no socket new.                         *)
NoneNew == \A t \in Threads, p \in Ptrs : IsNew(t, p)' => IsNew(t, p) /\ sock'[p].life = sock[p].life

LEMMA StashesKept ==
    StashesOwn /\ NoneNew /\ UNCHANGED <<exitAttached, calls, connect_fd>> => StashesOwn'
BY StashFrame DEF StashesOwn, NoneNew

-----------------------------------------------------------------------------
(* Sockets.                                                                *)

LEMMA EstablishInv ==
    ASSUME Inv, NEW p \in Ptrs, Establish(p)
    PROVE  Inv'
<1> DEFINE s == sock[p]
           s1 == [sock[p] EXCEPT !.st = "est"]
           t == EntryOr0(p)
           e == [t EXCEPT !.est = s.life]
<1>1. /\ s \in SocketState /\ s.st = "syn" /\ s.life \in 1 .. Lives
      /\ t \in ConnTrack /\ ~Free(p)
  BY SockTyped, EntryTyped DEF Inv, Establish
<1>2. /\ s1 \in SocketState /\ s1.st = "est" /\ s1.life = s.life /\ s1.active = s.active /\ s1.mine = s.mine
      /\ s1 # None /\ sock' = [sock EXCEPT ![p] = s1] /\ sock'[p] = s1
  BY <1>1, NotNone DEF Establish, SocketState, Inv, TypeOK
<1>3. /\ e \in ConnTrack /\ e # None
      /\ e.est = s.life /\ e.syn = t.syn /\ e.ch = t.ch /\ e.hs = t.hs /\ e.scoped = t.scoped
  <2> HIDE DEF t
  <2> QED
    BY <1>1, NotNone DEF ConnTrack
<1>4. UNCHANGED <<filtering, exitAttached, scope, lives, calls, ssl, tracked_socks, tid_cookie,
                  connect_fd, connect_exit_live, ssl_fd, inflight>>
  BY DEF Establish, setup, callMap
<1>5. \/ ~SockInScope(p) /\ sock_ts' = sock_ts /\ Quiet
      \/ /\ SockInScope(p) /\ sock_ts' = [sock_ts EXCEPT ![p] = e] /\ sock_ts'[p] = e
         /\ event' = [type |-> "connect", of |-> {t.syn}, real |-> s]
  BY DEF Establish, Established, Inv, TypeOK
<1> HIDE DEF s, s1, t, e
<1>6. TypeOK'
  BY <1>2, <1>3, <1>4, <1>5 DEF Inv, TypeOK
<1>7. EntriesOwn'
  <2> SUFFICES ASSUME NEW q \in Ptrs PROVE EntryKeeps(q)'
    BY DEF EntriesOwn, EntryKeeps
  <2>1. EntryKeeps(q)
    BY DEF Inv, EntriesOwn, EntryKeeps
  <2>2. CASE q # p
    <3>1. sock'[q] = sock[q] /\ sock_ts'[q] = sock_ts[q]
      BY <2>2, <1>2, <1>5 DEF Inv, TypeOK
    <3> QED
      BY <3>1, <2>1, <1>4, EntryFrame
  <2>3. CASE q = p
    <3>1. Live(p) /\ Live(p)'
      BY <1>1, <1>2 DEF Live, Free, s
    <3>2. CASE ~SockInScope(p) /\ sock_ts' = sock_ts
      BY <3>1, <3>2, <2>3, <2>1, <1>1, <1>2, <1>4
         DEF EntryKeeps, EntryOwn, ForeignUnmarked, CloseGate, Held, SockInScope, s
    <3>3. CASE SockInScope(p) /\ sock_ts'[p] = e
      <4>1. /\ {t.syn, t.ch, t.hs} \subseteq {0, s.life}
            /\ filtering /\ ~t.scoped => t.syn = 0 /\ t.ch = 0 /\ t.hs = 0
        <5>1. CASE sock_ts[p] = None
          BY <5>1, EntryTyped DEF Inv, t, NoEntry
        <5>2. CASE sock_ts[p] # None
          <6>1. t = sock_ts[p]
            BY <5>2, EntryTyped DEF Inv, t
          <6> QED
            BY <6>1, <5>2, <3>1, <3>3, <2>1, <2>3 DEF EntryKeeps, EntryOwn, CloseGate, s
        <5> QED
          BY <5>1, <5>2
      <4>2. EntryOwn(p)'
        BY <4>1, <3>1, <3>3, <1>2, <1>3, <1>4 DEF EntryOwn
      <4>3. ForeignUnmarked(p)'
        BY <3>1, <3>3, <2>1, <2>3, <1>1, <1>2, <1>4 DEF EntryKeeps, ForeignUnmarked, CloseGate, SockInScope, s
      <4> QED
        BY <4>2, <4>3, <2>3 DEF EntryKeeps
    <3> QED
      BY <3>2, <3>3, <1>5
  <2> QED
    BY <2>2, <2>3
<1>8. StashesOwn'
  <2>1. NoneNew
    BY <1>1, <1>2 DEF NoneNew, IsNew, Free, Inv, TypeOK
  <2> QED
    BY <2>1, <1>4, StashesKept DEF Inv
<1>9. CallsOwn' /\ ObjectsOwn'
  BY <1>4, CallsFrame, ObjectsFrame DEF Inv
<1>10. Reports'
  <2>1. CASE Quiet
    BY <2>1, SilenceIsTrue
  <2>2. CASE SockInScope(p) /\ event' = [type |-> "connect", of |-> {t.syn}, real |-> s]
    <3>1. EntryKeeps(p) /\ Live(p)
      BY <1>1 DEF Inv, EntriesOwn, EntryKeeps, Live, s
    <3>2. t.syn \in {0, s.life}
      <4>1. CASE sock_ts[p] = None
        BY <4>1, EntryTyped DEF Inv, t, NoEntry
      <4>2. CASE sock_ts[p] # None
        <5>1. t = sock_ts[p]
          BY <4>2, EntryTyped DEF Inv, t
        <5> QED
          BY <5>1, <4>2, <3>1, <2>2 DEF EntryKeeps, EntryOwn, CloseGate, s
      <4> QED
        BY <4>1, <4>2
    <3>3. filtering /\ s.active => s.mine
      BY <3>1, <2>2, <1>1 DEF EntryKeeps, ForeignUnmarked, CloseGate, s, SocketState
    <3> QED
      BY <3>2, <3>3, <2>2, <1>4 DEF Reports, EventsAreOwn, ConnIdTrue, PlaintextIsOwn, Is
  <2> QED
    BY <2>1, <2>2, <1>5
<1> QED
  BY <1>6, <1>7, <1>8, <1>9, <1>10 DEF Inv

(* What a dead address has left in the map knows no SYN.                   *)
LEMMA Leftover ==
    ASSUME Inv, NEW p \in Ptrs, ~Live(p), sock_ts[p] # None
    PROVE  filtering /\ sock_ts[p].scoped = FALSE /\ sock_ts[p].syn = 0 /\ sock_ts[p].ch = 0 /\ sock_ts[p].hs = 0
<1>1. sock_ts[p] \in ConnTrack /\ EntryOwn(p)
  BY DEF Inv, TypeOK, EntriesOwn
<1> QED
  BY <1>1 DEF EntryOwn, ConnTrack

LEMMA AcceptInv ==
    ASSUME Inv, NEW t \in Threads, NEW p \in Ptrs, Accept(t, p)
    PROVE  Inv'
<1> DEFINE s == Socket(t, "est", FALSE)
           k == EntryOr0(p)
           e == [k EXCEPT !.est = s.life]
<1>1. /\ s \in SocketState /\ s.st = "est" /\ s.life \in 1 .. Lives /\ s.active = FALSE /\ s # None
      /\ lives' \in 0 .. Lives /\ k \in ConnTrack /\ ~Live(p) /\ Free(p)
  <2>1. TypeOK /\ Create(p, s)
    BY DEF Accept, Inv
  <2>2. Free(p) /\ lives < Lives /\ lives' \in 0 .. Lives
    BY <2>1, Created
  <2>3. /\ s \in SocketState /\ s # None /\ s.st = "est" /\ s.active = FALSE
        /\ s.life = lives + 1 /\ lives + 1 \in 1 .. Lives
    BY <2>1, <2>2, SocketTyped
  <2>4. k \in ConnTrack
    BY <2>1, EntryTyped
  <2> QED
    BY <2>2, <2>3, <2>4 DEF Live
<1>2. sock' = [sock EXCEPT ![p] = s] /\ sock'[p] = s
  BY DEF Accept, Create, Inv, TypeOK
<1>3. /\ e \in ConnTrack /\ e # None
      /\ e.est = s.life /\ e.syn = k.syn /\ e.ch = k.ch /\ e.hs = k.hs /\ e.scoped = k.scoped
  <2> HIDE DEF k, s
  <2> QED
    BY <1>1, NotNone DEF ConnTrack
<1>4. UNCHANGED <<filtering, exitAttached, scope, calls, ssl, tracked_socks, tid_cookie,
                  connect_fd, connect_exit_live, ssl_fd, inflight>>
  BY DEF Accept, setup, callMap
<1>5. \/ ~SockInScope(p) /\ sock_ts' = sock_ts /\ Quiet
      \/ /\ SockInScope(p) /\ sock_ts' = [sock_ts EXCEPT ![p] = e] /\ sock_ts'[p] = e
         /\ event' = [type |-> "connect", of |-> {k.syn}, real |-> s]
  BY DEF Accept, Established, Inv, TypeOK
<1>6. k.syn = 0 /\ k.ch = 0 /\ k.hs = 0 /\ k.scoped = FALSE
  <2>1. CASE sock_ts[p] = None
    BY <2>1, EntryTyped DEF Inv, k, NoEntry
  <2>2. CASE sock_ts[p] # None
    BY <2>2, <1>1, Leftover, EntryTyped DEF Inv, k
  <2> QED
    BY <2>1, <2>2
<1> HIDE DEF s, k, e
<1>7. TypeOK'
  BY <1>1, <1>2, <1>3, <1>4, <1>5 DEF Inv, TypeOK
<1>8. EntriesOwn'
  <2> SUFFICES ASSUME NEW q \in Ptrs PROVE EntryKeeps(q)'
    BY DEF EntriesOwn, EntryKeeps
  <2>1. EntryKeeps(q)
    BY DEF Inv, EntriesOwn, EntryKeeps
  <2>2. CASE q # p
    <3>1. sock'[q] = sock[q] /\ sock_ts'[q] = sock_ts[q]
      BY <2>2, <1>2, <1>5 DEF Inv, TypeOK
    <3> QED
      BY <3>1, <2>1, <1>4, EntryFrame
  <2>3. CASE q = p
    <3>1. Live(p)' /\ ForeignUnmarked(p)'
      BY <1>1, <1>2 DEF Live, Free, ForeignUnmarked
    <3>2. CASE ~SockInScope(p) /\ sock_ts' = sock_ts
      <4>1. sock_ts[p] = None \/ (filtering /\ sock_ts[p].scoped = FALSE /\ sock_ts[p].syn = 0
                                  /\ sock_ts[p].ch = 0 /\ sock_ts[p].hs = 0)
        BY <1>1, Leftover
      <4> QED
        BY <4>1, <3>1, <3>2, <2>3, <1>4 DEF EntryKeeps, EntryOwn, CloseGate, Held, SockInScope
    <3>3. CASE sock_ts'[p] = e
      BY <3>1, <3>3, <2>3, <1>1, <1>2, <1>3, <1>6 DEF EntryKeeps, EntryOwn
    <3> QED
      BY <3>2, <3>3, <1>5
  <2> QED
    BY <2>2, <2>3
<1>9. StashesOwn'
  <2>1. NoneNew
    BY <1>1, <1>2 DEF NoneNew, IsNew, Free, Inv, TypeOK
  <2> QED
    BY <2>1, <1>4, StashesKept DEF Inv
<1>10. CallsOwn' /\ ObjectsOwn'
  BY <1>4, CallsFrame, ObjectsFrame DEF Inv
<1>11. Reports'
  BY <1>1, <1>4, <1>5, <1>6, SilenceIsTrue DEF Reports, EventsAreOwn, ConnIdTrue, PlaintextIsOwn, Is
<1> QED
  BY <1>7, <1>8, <1>9, <1>10, <1>11 DEF Inv

LEMMA ListenInv ==
    ASSUME Inv, NEW t \in Threads, NEW p \in Ptrs, Listen(t, p)
    PROVE  Inv'
<1> DEFINE s == Socket(t, "listen", FALSE)
<1>1. /\ s \in SocketState /\ s.st = "listen" /\ s # None
      /\ lives' \in 0 .. Lives /\ ~Live(p)
  <2>1. Create(p, s)
    BY DEF Listen
  <2> QED
    BY <2>1, Created, SocketTyped DEF Inv, Live
<1>2. sock' = [sock EXCEPT ![p] = s] /\ sock'[p] = s
  BY DEF Listen, Create, Inv, TypeOK
<1>3. UNCHANGED <<filtering, exitAttached, scope, calls, ssl, sock_ts, tracked_socks, tid_cookie,
                  connect_fd, connect_exit_live, ssl_fd, inflight>> /\ Quiet
  BY DEF Listen, setup, callMap, connMap
<1> HIDE DEF s
<1>4. TypeOK'
  BY <1>1, <1>2, <1>3 DEF Inv, TypeOK
<1>5. EntriesOwn'
  <2> SUFFICES ASSUME NEW q \in Ptrs PROVE EntryKeeps(q)'
    BY DEF EntriesOwn, EntryKeeps
  <2>1. EntryKeeps(q)
    BY DEF Inv, EntriesOwn, EntryKeeps
  <2>2. CASE q # p
    <3>1. sock'[q] = sock[q]
      BY <2>2, <1>2 DEF Inv, TypeOK
    <3> QED
      BY <3>1, <2>1, <1>3, EntryFrame
  <2>3. CASE q = p
    <3>1. ~Live(p)'
      BY <1>1, <1>2 DEF Live
    <3> QED
      BY <3>1, <2>1, <2>3, <1>1, <1>3 DEF EntryKeeps, EntryOwn, ForeignUnmarked
  <2> QED
    BY <2>2, <2>3
<1>6. StashesOwn'
  <2>1. NoneNew
    BY <1>1, <1>2 DEF NoneNew, IsNew, Free, Inv, TypeOK
  <2> QED
    BY <2>1, <1>3, StashesKept DEF Inv
<1> QED
  BY <1>3, <1>4, <1>5, <1>6, CallsFrame, ObjectsFrame, SilenceIsTrue DEF Inv

LEMMA TcpCloseInv ==
    ASSUME Inv, NEW p \in Ptrs, TcpClose(p)
    PROVE  Inv'
<1> DEFINE s == sock[p]
           k == EntryOr0(p)
<1>1. /\ s \in SocketState /\ s.st \in {"syn", "est"} /\ s.life \in 1 .. Lives
      /\ ~Free(p) /\ Live(p) /\ EntryKeeps(p)
  BY SockTyped DEF Inv, TcpClose, Live, EntriesOwn, EntryKeeps
<1>2. sock' = [sock EXCEPT ![p] = None] /\ sock'[p] = None /\ tracked_socks' = tracked_socks \ {p}
  BY DEF TcpClose, Inv, TypeOK
<1>3. UNCHANGED <<filtering, exitAttached, scope, lives, calls, ssl, tid_cookie,
                  connect_fd, connect_exit_live, ssl_fd, inflight>>
  BY DEF TcpClose, setup, callMap
<1>4. \/ ~CloseGate(p) /\ sock_ts' = sock_ts /\ Quiet
      \/ /\ CloseGate(p) /\ sock_ts' = [sock_ts EXCEPT ![p] = None] /\ sock_ts'[p] = None
         /\ event' = [type |-> "close", of |-> {k.syn, IF k.est # 0 THEN k.est ELSE k.syn, k.hs}, real |-> s]
  BY DEF TcpClose, CloseEvent, EntryDropped, Inv, TypeOK
<1> HIDE DEF s, k
<1>5. TypeOK'
  BY <1>2, <1>3, <1>4 DEF Inv, TypeOK
<1>6. EntriesOwn'
  <2> SUFFICES ASSUME NEW q \in Ptrs PROVE EntryKeeps(q)'
    BY DEF EntriesOwn, EntryKeeps
  <2>1. EntryKeeps(q)
    BY DEF Inv, EntriesOwn, EntryKeeps
  <2>2. CASE q # p
    <3>1. sock'[q] = sock[q] /\ sock_ts'[q] = sock_ts[q] /\ (q \in tracked_socks' <=> q \in tracked_socks)
      BY <2>2, <1>2, <1>4 DEF Inv, TypeOK
    <3> QED
      BY <3>1, <2>1, <1>3, EntryFrame
  <2>3. CASE q = p
    <3>1. ~Live(p)'
      BY <1>2 DEF Live, Free
    <3>2. CASE ~CloseGate(p) /\ sock_ts' = sock_ts
      <4>1. sock_ts[p] \in ConnTrack \cup {None}
        BY DEF Inv, TypeOK
      <4>2. filtering /\ (sock_ts[p] # None => sock_ts[p].scoped = FALSE)
        BY <4>1, <3>2 DEF CloseGate, Held, SockInScope, ConnTrack
      <4> QED
        BY <4>2, <3>1, <3>2, <2>1, <2>3, <1>3 DEF EntryKeeps, EntryOwn, ForeignUnmarked
    <3>3. CASE sock_ts'[p] = None
      BY <3>1, <3>3, <2>3 DEF EntryKeeps, EntryOwn, ForeignUnmarked
    <3> QED
      BY <3>2, <3>3, <1>4
  <2> QED
    BY <2>2, <2>3
<1>7. StashesOwn'
  <2>1. NoneNew
    BY <1>2 DEF NoneNew, IsNew, Free, Inv, TypeOK
  <2> QED
    BY <2>1, <1>3, StashesKept DEF Inv
<1>8. CallsOwn' /\ ObjectsOwn'
  BY <1>3, CallsFrame, ObjectsFrame DEF Inv
<1>9. Reports'
  <2>1. CASE Quiet
    BY <2>1, SilenceIsTrue
  <2>2. CASE /\ CloseGate(p)
             /\ event' = [type |-> "close", of |-> {k.syn, IF k.est # 0 THEN k.est ELSE k.syn, k.hs}, real |-> s]
    <3>1. {k.syn, k.est, k.hs} \subseteq {0, s.life}
      <4>1. CASE sock_ts[p] = None
        BY <4>1, EntryTyped DEF Inv, k, NoEntry
      <4>2. CASE sock_ts[p] # None
        <5>1. k = sock_ts[p]
          BY <4>2, EntryTyped DEF Inv, k
        <5> QED
          BY <5>1, <4>2, <2>2, <1>1 DEF EntryKeeps, EntryOwn, s
      <4> QED
        BY <4>1, <4>2
    <3>2. filtering /\ s.active => s.mine
      BY <2>2, <1>1 DEF EntryKeeps, ForeignUnmarked, s, SocketState
    <3>3. event'.of \subseteq {0, event'.real.life}
      BY <3>1, <2>2
    <3> QED
      BY <3>2, <3>3, <2>2, <1>3 DEF Reports, EventsAreOwn, ConnIdTrue, PlaintextIsOwn, Is
  <2> QED
    BY <2>1, <2>2, <1>4
<1> QED
  BY <1>5, <1>6, <1>7, <1>8, <1>9 DEF Inv

LEMMA OtherCloseInv ==
    ASSUME Inv, NEW p \in Ptrs, OtherClose(p)
    PROVE  Inv'
<1>1. sock' = [sock EXCEPT ![p] = None] /\ sock'[p] = None /\ ~Live(p)
  BY DEF OtherClose, Inv, TypeOK, Live
<1>2. UNCHANGED <<filtering, exitAttached, scope, lives, calls, ssl, sock_ts, tracked_socks, tid_cookie,
                  connect_fd, connect_exit_live, ssl_fd, inflight>> /\ Quiet
  BY DEF OtherClose, setup, callMap, connMap
<1>3. TypeOK'
  BY <1>1, <1>2 DEF Inv, TypeOK
<1>4. EntriesOwn'
  <2> SUFFICES ASSUME NEW q \in Ptrs PROVE EntryKeeps(q)'
    BY DEF EntriesOwn, EntryKeeps
  <2>1. EntryKeeps(q)
    BY DEF Inv, EntriesOwn, EntryKeeps
  <2>2. CASE q # p
    <3>1. sock'[q] = sock[q]
      BY <2>2, <1>1 DEF Inv, TypeOK
    <3> QED
      BY <3>1, <2>1, <1>2, EntryFrame
  <2>3. CASE q = p
    <3>1. ~Live(p)'
      BY <1>1 DEF Live, Free
    <3> QED
      BY <3>1, <2>1, <2>3, <1>1, <1>2 DEF EntryKeeps, EntryOwn, ForeignUnmarked
  <2> QED
    BY <2>2, <2>3
<1>5. StashesOwn'
  <2>1. NoneNew
    BY <1>1 DEF NoneNew, IsNew, Free, Inv, TypeOK
  <2> QED
    BY <2>1, <1>2, StashesKept DEF Inv
<1> QED
  BY <1>2, <1>3, <1>4, <1>5, CallsFrame, ObjectsFrame, SilenceIsTrue DEF Inv

LEMMA MarksTyped ==
    ASSUME TypeOK, NEW t \in Threads, NEW p \in Ptrs, tracked_socks' = MarkOnSyn(t, p),
           filtering' = filtering
    PROVE  /\ tracked_socks' \subseteq Ptrs /\ (~filtering' => tracked_socks' = {})
           /\ \A q \in Ptrs : q # p => (q \in tracked_socks' <=> q \in tracked_socks)
           /\ filtering /\ ~InScope(t) => p \notin tracked_socks'
BY DEF TypeOK, MarkOnSyn

LEMMA QueryDnsInv ==
    ASSUME Inv, NEW t \in Threads, NEW p \in Ptrs, QueryDns(t, p)
    PROVE  Inv'
<1>1. UNCHANGED <<filtering, exitAttached, scope, sock, lives, calls, ssl, sock_ts, tid_cookie,
                  connect_fd, connect_exit_live, ssl_fd, inflight>> /\ Quiet
  BY DEF QueryDns, setup, objects, callMap
<1>2. /\ tracked_socks' \subseteq Ptrs /\ (~filtering' => tracked_socks' = {})
      /\ \A q \in Ptrs : q # p => (q \in tracked_socks' <=> q \in tracked_socks)
  BY <1>1, MarksTyped DEF Inv, QueryDns
<1>3. TypeOK'
  BY <1>1, <1>2 DEF Inv, TypeOK
<1>4. EntriesOwn'
  <2> SUFFICES ASSUME NEW q \in Ptrs PROVE EntryKeeps(q)'
    BY DEF EntriesOwn, EntryKeeps
  <2>1. EntryKeeps(q)
    BY DEF Inv, EntriesOwn, EntryKeeps
  <2>2. CASE q # p
    BY <2>1, <2>2, <1>1, <1>2, EntryFrame
  <2>3. CASE q = p
    <3>1. ~Live(p) /\ ~Live(p)'
      BY <1>1 DEF QueryDns, Live, Free
    <3> QED
      BY <3>1, <2>1, <2>3, <1>1 DEF EntryKeeps, EntryOwn, ForeignUnmarked
  <2> QED
    BY <2>2, <2>3
<1> QED
  BY <1>1, <1>3, <1>4, StashesFrame, CallsFrame, ObjectsFrame, SilenceIsTrue DEF Inv

(* An entry gets other fields, the handshake's ones from the entry or the  *)
(* socket; without a SYN of its own it gets none.                          *)
LEMMA FieldSet ==
    ASSUME Inv, NEW p \in Ptrs, sock_ts[p] # None, NEW e \in ConnTrack,
           sock_ts' = [sock_ts EXCEPT ![p] = e],
           UNCHANGED <<filtering, sock, tracked_socks>>,
           e.syn = sock_ts[p].syn, e.est = sock_ts[p].est, e.scoped = sock_ts[p].scoped,
           {e.ch, e.hs} \subseteq {sock_ts[p].ch, sock_ts[p].hs, sock[p].life},
           e.syn = 0 => e.ch = sock_ts[p].ch /\ e.hs \in {sock_ts[p].ch, sock_ts[p].hs}
    PROVE  sock_ts' \in [Ptrs -> ConnTrack \cup {None}] /\ EntriesOwn'
<1>1. sock_ts[p] \in ConnTrack /\ sock_ts'[p] = e /\ e # None
  BY NotNone DEF Inv, TypeOK
<1>2. sock_ts' \in [Ptrs -> ConnTrack \cup {None}]
  BY DEF Inv, TypeOK
<1>3. ASSUME NEW q \in Ptrs PROVE EntryKeeps(q)'
  <2>1. EntryKeeps(q)
    BY DEF Inv, EntriesOwn, EntryKeeps
  <2>2. CASE q # p
    <3>1. sock_ts'[q] = sock_ts[q]
      BY <2>2 DEF Inv, TypeOK
    <3> QED
      BY <3>1, <2>1, EntryFrame
  <2>3. CASE q = p
    <3>1. /\ Live(p)' <=> Live(p)
          /\ CloseGate(p)' <=> CloseGate(p)
      BY <1>1 DEF Live, Free, CloseGate, Held, SockInScope
    <3>2. ForeignUnmarked(p)'
      BY <3>1, <2>1, <2>3 DEF EntryKeeps, ForeignUnmarked
    <3>3. EntryOwn(p)'
      BY <3>1, <2>1, <2>3, <1>1 DEF EntryKeeps, EntryOwn
    <3> QED
      BY <3>2, <3>3, <2>3 DEF EntryKeeps
  <2> QED
    BY <2>2, <2>3
<1> QED
  BY <1>2, <1>3 DEF EntriesOwn, EntryKeeps

LEMMA FlagSet ==
    ASSUME Inv, NEW p \in Ptrs, sock_ts[p] # None, NEW b \in BOOLEAN,
           sock_ts' = [sock_ts EXCEPT ![p].sampled = b],
           UNCHANGED <<filtering, sock, tracked_socks>>
    PROVE  sock_ts' \in [Ptrs -> ConnTrack \cup {None}] /\ EntriesOwn'
<1> DEFINE e == [sock_ts[p] EXCEPT !.sampled = b]
<1>1. /\ e \in ConnTrack
      /\ e.syn = sock_ts[p].syn /\ e.est = sock_ts[p].est /\ e.ch = sock_ts[p].ch
      /\ e.hs = sock_ts[p].hs /\ e.scoped = sock_ts[p].scoped
  BY DEF Inv, TypeOK, ConnTrack
<1>2. sock_ts' = [sock_ts EXCEPT ![p] = e]
  BY DEF Inv, TypeOK
<1>3. /\ {e.ch, e.hs} \subseteq {sock_ts[p].ch, sock_ts[p].hs, sock[p].life}
      /\ e.syn = 0 => e.ch = sock_ts[p].ch /\ e.hs \in {sock_ts[p].ch, sock_ts[p].hs}
  BY <1>1
<1> HIDE DEF e
<1> QED
  BY <1>1, <1>2, <1>3, FieldSet

LEMMA SampleInv ==
    ASSUME Inv, NEW p \in Ptrs, Sample(p)
    PROVE  Inv'
<1>1. UNCHANGED <<filtering, exitAttached, scope, sock, lives, calls, ssl, tracked_socks, tid_cookie,
                  connect_fd, connect_exit_live, ssl_fd, inflight>>
  BY DEF Sample, setup, objects, callMap
<1>2. sock_ts' \in [Ptrs -> ConnTrack \cup {None}] /\ EntriesOwn'
  BY <1>1, FlagSet DEF Sample
<1>3. TypeOK'
  BY <1>1, <1>2 DEF Inv, TypeOK
<1>4. Reports'
  <2>1. filtering /\ sock[p].active => sock[p].mine
    BY SockTyped DEF Sample, Inv, EntriesOwn, ForeignUnmarked, Live
  <2>2. event' = [type |-> "sample", real |-> sock[p]]
    BY DEF Sample
  <2> QED
    BY <2>1, <2>2, <1>1 DEF Reports, EventsAreOwn, ConnIdTrue, PlaintextIsOwn, Is
<1> QED
  BY <1>1, <1>2, <1>3, <1>4, StashesFrame, CallsFrame, ObjectsFrame DEF Inv

LEMMA IntervalOverInv ==
    ASSUME Inv, NEW p \in Ptrs, IntervalOver(p)
    PROVE  Inv'
<1>1. UNCHANGED <<filtering, exitAttached, scope, sock, lives, calls, ssl, tracked_socks, tid_cookie,
                  connect_fd, connect_exit_live, ssl_fd, inflight>> /\ Quiet
  BY DEF IntervalOver, setup, objects, callMap
<1>2. sock_ts' \in [Ptrs -> ConnTrack \cup {None}] /\ EntriesOwn'
  BY <1>1, FlagSet DEF IntervalOver
<1>3. TypeOK'
  BY <1>1, <1>2 DEF Inv, TypeOK
<1> QED
  BY <1>1, <1>2, <1>3, StashesFrame, CallsFrame, ObjectsFrame, SilenceIsTrue DEF Inv

-----------------------------------------------------------------------------
(* connect().                                                              *)

(* The decision of the SYN, for whatever the address carries: an entry of  *)
(* the new socket, or no mark.                                             *)
LEMMA SynSentOwn ==
    ASSUME Inv, NEW t \in Threads, NEW p \in Ptrs, ~Live(p), NEW s \in SocketState,
           s.st = "syn", s.mine = (filtering /\ InScope(t)),
           sock' = [sock EXCEPT ![p] = s], SynSent(t, p, s),
           filtering' = filtering
    PROVE  /\ sock_ts' \in [Ptrs -> ConnTrack \cup {None}]
           /\ tracked_socks' \subseteq Ptrs /\ (~filtering' => tracked_socks' = {})
           /\ EntriesOwn'
<1> DEFINE e == TrackEntry(s)
<1>1. /\ s.life \in 1 .. Lives /\ s # None /\ sock'[p] = s
      /\ filtering \in BOOLEAN /\ (~filtering => InScope(t))
  BY NotNone DEF SocketState, Inv, TypeOK, InScope
<1>2. /\ e \in ConnTrack /\ e # None
      /\ e.syn = s.life /\ e.est = 0 /\ e.ch = 0 /\ e.hs = 0 /\ e.scoped = filtering
  <2>1. /\ NoEntry \in ConnTrack
        /\ NoEntry.est = 0 /\ NoEntry.ch = 0 /\ NoEntry.hs = 0
    BY ProbesAssumption DEF NoEntry, ConnTrack
  <2>2. 0 \in 0 .. Lives /\ s.life \in 0 .. Lives
    BY <1>1, ProbesAssumption
  <2>3. /\ e \in ConnTrack
        /\ e.syn = s.life /\ e.est = 0 /\ e.ch = 0 /\ e.hs = 0 /\ e.scoped = filtering
    BY <2>1, <2>2, <1>1 DEF TrackEntry, ConnTrack
  <2>4. e # None
    BY <2>3, NotNone
  <2> HIDE DEF e
  <2> QED
    BY <2>3, <2>4
<1>3. \/ InScope(t) /\ sock_ts' = [sock_ts EXCEPT ![p] = e] /\ sock_ts'[p] = e
      \/ ~InScope(t) /\ sock_ts' = sock_ts
  BY DEF SynSent, Inv, TypeOK
<1>4. tracked_socks' = MarkOnSyn(t, p)
  BY DEF SynSent
<1> HIDE DEF e
<1>5. sock_ts' \in [Ptrs -> ConnTrack \cup {None}]
  BY <1>2, <1>3 DEF Inv, TypeOK
<1>6. /\ tracked_socks' \subseteq Ptrs /\ (~filtering' => tracked_socks' = {})
      /\ \A q \in Ptrs : q # p => (q \in tracked_socks' <=> q \in tracked_socks)
      /\ filtering /\ ~InScope(t) => p \notin tracked_socks'
  BY <1>4, MarksTyped DEF Inv
<1>7. ASSUME NEW q \in Ptrs PROVE EntryKeeps(q)'
  <2>1. EntryKeeps(q)
    BY DEF Inv, EntriesOwn, EntryKeeps
  <2>2. CASE q # p
    <3>1. sock'[q] = sock[q] /\ sock_ts'[q] = sock_ts[q]
      BY <2>2, <1>3 DEF Inv, TypeOK
    <3> QED
      BY <3>1, <2>1, <2>2, <1>6, EntryFrame
  <2>3. CASE q = p
    <3>1. Live(p)'
      BY <1>1 DEF Live, Free
    <3>2. CASE InScope(t) /\ sock_ts'[p] = e
      BY <3>1, <3>2, <2>3, <1>1, <1>2 DEF EntryKeeps, EntryOwn, ForeignUnmarked
    <3>3. CASE ~InScope(t) /\ sock_ts' = sock_ts
      <4>1. sock_ts[p] # None => sock_ts[p].scoped = FALSE /\ sock_ts[p].syn = 0
                                 /\ sock_ts[p].ch = 0 /\ sock_ts[p].hs = 0
        BY Leftover
      <4>2. ~CloseGate(p)'
        BY <4>1, <3>3, <1>1, <1>6 DEF CloseGate, Held, SockInScope
      <4> QED
        BY <4>1, <4>2, <3>1, <3>3, <2>3, <1>1 DEF EntryKeeps, EntryOwn, ForeignUnmarked
    <3> QED
      BY <3>2, <3>3, <1>3
  <2> QED
    BY <2>2, <2>3
<1> QED
  BY <1>5, <1>6, <1>7 DEF EntriesOwn, EntryKeeps

(* What a conn_id says is what the stash of its thread says.               *)
LEMMA EmitConnIdOwn ==
    ASSUME Inv, NEW t \in Threads, NEW s, EmitConnId(t, s), s # None,
           connect_fd[t] # None /\ ~connect_fd[t].windowed => s.life = connect_fd[t].fd
    PROVE  /\ connect_fd' = [connect_fd EXCEPT ![t] = None] /\ connect_fd'[t] = None
           /\ connect_fd' \in [Threads -> ConnectStash \cup {None}]
           /\ Reports'
<1>1. /\ connect_fd' = [connect_fd EXCEPT ![t] = None] /\ connect_fd'[t] = None
      /\ connect_fd' \in [Threads -> ConnectStash \cup {None}]
  BY DEF EmitConnId, Inv, TypeOK
<1>2. CASE Quiet
  BY <1>1, <1>2, SilenceIsTrue
<1>3. CASE ~Quiet
  <2>1. connect_fd[t] # None
        /\ event' = [type |-> "conn_id", fd |-> connect_fd[t].fd,
                     windowed |-> connect_fd[t].windowed, real |-> s]
    BY <1>3 DEF EmitConnId, Quiet
  <2>2. connect_fd[t] \in ConnectStash
    BY <2>1 DEF Inv, TypeOK
  <2> QED
    BY <1>1, <2>1, <2>2 DEF Reports, EventsAreOwn, ConnIdTrue, PlaintextIsOwn, Is, ConnectStash
<1> QED
  BY <1>2, <1>3

LEMMA TcpConnectInv ==
    ASSUME Inv, NEW t \in Threads, NEW p \in Ptrs, TcpConnect(t, p)
    PROVE  Inv'
<1> DEFINE s == [sock[p] EXCEPT !.st = "syn", !.mine = filtering /\ InScope(t)]
<1>1. /\ sock[p] \in SocketState /\ sock[p].st = "new" /\ sock[p].owner = t /\ ~Free(p) /\ ~Live(p)
      /\ InConnect(t, p) /\ IsNew(t, p)
  BY SockTyped DEF Inv, TcpConnect, IsNew, Live, InConnect
<1>2. /\ s \in SocketState /\ s # None /\ s.st = "syn" /\ s.life = sock[p].life
      /\ s.mine = (filtering /\ InScope(t))
  BY <1>1, NotNone DEF SocketState, Inv, TypeOK
<1>3. sock' = [sock EXCEPT ![p] = s] /\ sock'[p] = s /\ EmitConnId(t, s) /\ SynSent(t, p, s)
  BY DEF TcpConnect, Inv, TypeOK
<1>4. UNCHANGED <<filtering, exitAttached, scope, lives, calls, ssl, tid_cookie,
                  connect_exit_live, ssl_fd, inflight>>
  BY DEF TcpConnect, setup
<1> HIDE DEF s
<1>5. /\ sock_ts' \in [Ptrs -> ConnTrack \cup {None}]
      /\ tracked_socks' \subseteq Ptrs /\ (~filtering' => tracked_socks' = {})
      /\ EntriesOwn'
  BY <1>1, <1>2, <1>3, <1>4, SynSentOwn
<1>6. connect_fd[t] # None /\ ~connect_fd[t].windowed => s.life = connect_fd[t].fd
  BY <1>1, <1>2 DEF Inv, StashesOwn, StashOwn
<1>7. /\ connect_fd' = [connect_fd EXCEPT ![t] = None] /\ connect_fd'[t] = None
      /\ connect_fd' \in [Threads -> ConnectStash \cup {None}]
      /\ Reports'
  BY <1>6, <1>2, <1>3, EmitConnIdOwn
<1>8. TypeOK'
  BY <1>5, <1>7, <1>2, <1>3, <1>4 DEF Inv, TypeOK
<1>9. StashesOwn'
  <2> SUFFICES ASSUME NEW u \in Threads PROVE StashOwn(u)'
    BY DEF StashesOwn
  <2>1. CASE u = t
    BY <2>1, <1>7 DEF StashOwn
  <2>2. CASE u # t
    <3>1. connect_fd'[u] = connect_fd[u]
      BY <2>2, <1>7 DEF Inv, TypeOK
    <3>2. \A q \in Ptrs : IsNew(u, q)' => IsNew(u, q) /\ sock'[q].life = sock[q].life
      BY <1>2, <1>3 DEF IsNew, Free, Inv, TypeOK
    <3> QED
      BY <3>1, <3>2, <1>4, StashFrame DEF Inv, StashesOwn
  <2> QED
    BY <2>1, <2>2
<1> QED
  BY <1>5, <1>7, <1>8, <1>9, <1>4, CallsFrame, ObjectsFrame DEF Inv

LEMMA OtherConnectInv ==
    ASSUME Inv, NEW t \in Threads, NEW p \in Ptrs, OtherConnect(t, p)
    PROVE  Inv'
<1> DEFINE s0 == Socket(t, "syn", TRUE)
           s == [s0 EXCEPT !.mine = filtering /\ InScope(t)]
<1>1. calls[t] = NoCall /\ Create(p, s) /\ EmitConnId(t, s) /\ SynSent(t, p, s)
  BY DEF OtherConnect
<1>2. /\ Free(p) /\ ~Live(p) /\ lives' \in 0 .. Lives
      /\ sock' = [sock EXCEPT ![p] = s] /\ sock'[p] = s
      /\ s0 \in SocketState /\ s0.st = "syn"
  <2>1. /\ Free(p) /\ lives < Lives /\ lives' \in 0 .. Lives
        /\ sock' = [sock EXCEPT ![p] = s] /\ sock'[p] = s
    BY <1>1, Created DEF Inv
  <2> QED
    BY <2>1, SocketTyped DEF Inv, Live
<1> HIDE DEF s0
<1>3. s \in SocketState /\ s # None /\ s.st = "syn" /\ s.mine = (filtering /\ InScope(t))
  BY <1>2, NotNone DEF SocketState, Inv, TypeOK
<1>4. UNCHANGED <<filtering, exitAttached, scope, calls, ssl, tid_cookie,
                  connect_exit_live, ssl_fd, inflight>>
  BY DEF OtherConnect, setup
<1> HIDE DEF s
<1>5. /\ sock_ts' \in [Ptrs -> ConnTrack \cup {None}]
      /\ tracked_socks' \subseteq Ptrs /\ (~filtering' => tracked_socks' = {})
      /\ EntriesOwn'
  BY <1>1, <1>2, <1>3, <1>4, SynSentOwn
<1>6. ~(connect_fd[t] # None /\ ~connect_fd[t].windowed)
  BY <1>1 DEF Inv, StashesOwn, StashOwn
<1>7. /\ connect_fd' = [connect_fd EXCEPT ![t] = None] /\ connect_fd'[t] = None
      /\ connect_fd' \in [Threads -> ConnectStash \cup {None}]
      /\ Reports'
  BY <1>6, <1>1, <1>3, EmitConnIdOwn
<1>8. TypeOK'
  BY <1>5, <1>7, <1>2, <1>3, <1>4 DEF Inv, TypeOK
<1>9. StashesOwn'
  <2> SUFFICES ASSUME NEW u \in Threads PROVE StashOwn(u)'
    BY DEF StashesOwn
  <2>1. CASE u = t
    BY <2>1, <1>7 DEF StashOwn
  <2>2. CASE u # t
    <3>1. connect_fd'[u] = connect_fd[u]
      BY <2>2, <1>7 DEF Inv, TypeOK
    <3>2. \A q \in Ptrs : IsNew(u, q)' => IsNew(u, q) /\ sock'[q].life = sock[q].life
      BY <1>2, <1>3 DEF IsNew, Free, Inv, TypeOK
    <3> QED
      BY <3>1, <3>2, <1>4, StashFrame DEF Inv, StashesOwn
  <2> QED
    BY <2>1, <2>2
<1> QED
  BY <1>5, <1>7, <1>8, <1>9, <1>4, CallsFrame, ObjectsFrame DEF Inv

(* A thread in a connect() has no SSL call, so nothing of it is in flight. *)
LEMMA OneCallOwn ==
    ASSUME Inv, NEW t \in Threads, UNCHANGED inflight, NEW seq,
           \A i \in DOMAIN seq : seq[i].fn = "connect",
           calls' = [calls EXCEPT ![t] = seq]
    PROVE  CallsOwn'
<1> SUFFICES ASSUME NEW u \in Threads
             PROVE  /\ \A fn \in {"read", "write"} : Answers(calls'[u], fn, inflight'[fn][u])
                    /\ \A i \in DOMAIN calls'[u] : calls'[u][i].fn = "read" => calls'[u][i].large
  BY DEF CallsOwn
<1>1. CASE u = t
  <2>1. calls'[u] = seq
    BY <1>1 DEF Inv, TypeOK
  <2> QED
    BY <2>1 DEF Answers, Innermost, Stashed
<1>2. CASE u # t
  <2>1. calls'[u] = calls[u]
    BY <1>2 DEF Inv, TypeOK
  <2> QED
    BY <2>1 DEF Inv, CallsOwn
<1> QED
  BY <1>1, <1>2

LEMMA EnterConnectInv ==
    ASSUME Inv, NEW t \in Threads, NEW p \in Ptrs, NEW st \in {"new", "udp"}, EnterConnect(t, p, st)
    PROVE  Inv'
<1> DEFINE s == Socket(t, st, TRUE)
           seq == <<[fn |-> "connect", p |-> p]>>
           stash == [fd |-> lives + 1, age |-> 0, windowed |-> ~exitAttached]
<1>1. /\ Free(p) /\ lives' \in 0 .. Lives /\ lives + 1 \in 1 .. Lives
      /\ sock' = [sock EXCEPT ![p] = s] /\ sock'[p] = s
      /\ s \in SocketState /\ s # None /\ s.owner = t /\ s.st = st /\ s.life = lives + 1
  <2>1. Create(p, s)
    BY DEF EnterConnect
  <2>2. /\ Free(p) /\ lives < Lives /\ lives' \in 0 .. Lives
        /\ sock' = [sock EXCEPT ![p] = s] /\ sock'[p] = s
    BY <2>1, Created DEF Inv
  <2>3. TypeOK
    BY DEF Inv
  <2>4. /\ s \in SocketState /\ s # None /\ s.owner = t /\ s.st = st /\ s.life = lives + 1
        /\ lives + 1 \in 1 .. Lives
    <3>1. CASE st = "new"
      BY <3>1, <2>2, <2>3, SocketTyped
    <3>2. CASE st = "udp"
      BY <3>2, <2>2, <2>3, SocketTyped
    <3> QED
      BY <3>1, <3>2
  <2> QED
    BY <2>2, <2>4
<1>2. calls[t] = NoCall /\ calls' = [calls EXCEPT ![t] = seq] /\ calls'[t] = seq
  BY DEF EnterConnect, Inv, TypeOK
<1>3. UNCHANGED <<filtering, exitAttached, scope, ssl, sock_ts, tracked_socks, tid_cookie,
                  connect_exit_live, ssl_fd, inflight>> /\ Quiet
  BY DEF EnterConnect, setup, connMap
<1>4. \/ connect_fd' = [connect_fd EXCEPT ![t] = stash] /\ connect_fd'[t] = stash
      \/ connect_fd' = connect_fd
  BY DEF EnterConnect, Inv, TypeOK
<1>5. stash \in ConnectStash /\ stash.fd = lives + 1 /\ stash.windowed = ~exitAttached
  BY <1>1 DEF ConnectStash, Inv, TypeOK
<1>6. seq \in Seq(ConnectCall \cup SslCall) /\ \A i \in DOMAIN seq : seq[i].fn = "connect"
  BY DEF ConnectCall
<1>7. InConnect(t, p)'
  BY <1>2 DEF InConnect
<1> HIDE DEF s, seq, stash
<1>8. TypeOK'
  <2>1. calls' \in [Threads -> Seq(ConnectCall \cup SslCall)]
    BY <1>2, <1>6 DEF Inv, TypeOK
  <2>2. connect_fd' \in [Threads -> ConnectStash \cup {None}]
    BY <1>4, <1>5 DEF Inv, TypeOK
  <2>3. sock' \in [Ptrs -> SocketState \cup {None}]
    BY <1>1 DEF Inv, TypeOK
  <2> QED
    BY <2>1, <2>2, <2>3, <1>1, <1>3 DEF Inv, TypeOK
<1>9. EntriesOwn'
  <2> SUFFICES ASSUME NEW q \in Ptrs PROVE EntryKeeps(q)'
    BY DEF EntriesOwn, EntryKeeps
  <2>1. EntryKeeps(q)
    BY DEF Inv, EntriesOwn, EntryKeeps
  <2>2. CASE q # p
    <3>1. sock'[q] = sock[q]
      BY <2>2, <1>1 DEF Inv, TypeOK
    <3> QED
      BY <3>1, <2>1, <1>3, EntryFrame
  <2>3. CASE q = p
    <3>1. ~Live(p) /\ ~Live(p)'
      BY <1>1 DEF Live
    <3> QED
      BY <3>1, <2>1, <2>3, <1>3 DEF EntryKeeps, EntryOwn, ForeignUnmarked
  <2> QED
    BY <2>2, <2>3
<1>10. StashesOwn'
  <2> SUFFICES ASSUME NEW u \in Threads PROVE StashOwn(u)'
    BY DEF StashesOwn
  <2>1. CASE u = t
    <3>1. CASE connect_fd'[t] = stash
      <4>1. ~stash.windowed => exitAttached
        BY <1>5 DEF Inv, TypeOK
      <4>2. \A q \in Ptrs : InConnect(t, q)' => q = p
        BY <1>7 DEF InConnect
      <4> QED
        BY <4>1, <4>2, <3>1, <2>1, <1>1, <1>2, <1>3, <1>5, <1>6, <1>7 DEF StashOwn, InConnect, NoCall
    <3>2. CASE connect_fd' = connect_fd
      BY <3>2, <2>1, <1>2 DEF Inv, StashesOwn, StashOwn
    <3> QED
      BY <3>1, <3>2, <1>4
  <2>2. CASE u # t
    <3>1. connect_fd'[u] = connect_fd[u] /\ calls'[u] = calls[u]
      BY <2>2, <1>2, <1>4 DEF Inv, TypeOK
    <3>2. \A q \in Ptrs : IsNew(u, q)' => IsNew(u, q) /\ sock'[q].life = sock[q].life
      BY <2>2, <1>1 DEF IsNew, Free, Inv, TypeOK
    <3> QED
      BY <3>1, <3>2, <1>3, StashFrame DEF Inv, StashesOwn
  <2> QED
    BY <2>1, <2>2
<1>11. CallsOwn'
  BY <1>2, <1>3, <1>6, OneCallOwn
<1> QED
  BY <1>3, <1>8, <1>9, <1>10, <1>11, ObjectsFrame, SilenceIsTrue DEF Inv

LEMMA AgeInv ==
    ASSUME Inv, NEW t \in Threads, Age(t)
    PROVE  Inv'
<1> DEFINE c == connect_fd[t]
           k == [c EXCEPT !.age = c.age + 1]
<1>1. /\ c \in ConnectStash /\ k \in ConnectStash /\ k # None
      /\ k.fd = c.fd /\ k.windowed = c.windowed
  <2>1. c \in ConnectStash /\ c.age < 2
    BY DEF Age, Inv, TypeOK
  <2>2. c.age + 1 \in 0 .. 2
    BY <2>1 DEF ConnectStash
  <2> HIDE DEF c
  <2> QED
    BY <2>1, <2>2, NotNone DEF ConnectStash
<1>2. connect_fd' = [connect_fd EXCEPT ![t] = k] /\ connect_fd'[t] = k /\ connect_fd[t] # None
  BY DEF Age, Inv, TypeOK
<1>3. UNCHANGED <<filtering, exitAttached, scope, sock, lives, calls, ssl, sock_ts, tracked_socks,
                  tid_cookie, connect_exit_live, ssl_fd, inflight>> /\ Quiet
  BY DEF Age, setup, objects, connMap
<1> HIDE DEF k
<1>4. TypeOK'
  <2>1. connect_fd' \in [Threads -> ConnectStash \cup {None}]
    BY <1>1, <1>2 DEF Inv, TypeOK
  <2> QED
    BY <2>1, <1>3 DEF Inv, TypeOK
<1>5. StashesOwn'
  <2> SUFFICES ASSUME NEW u \in Threads PROVE StashOwn(u)'
    BY DEF StashesOwn
  <2>1. \A v, p : (InConnect(v, p)' <=> InConnect(v, p)) /\ (IsNew(v, p)' <=> IsNew(v, p))
    BY <1>3 DEF InConnect, IsNew, Free
  <2>2. connect_fd'[u] = connect_fd[u]
        \/ (u = t /\ connect_fd'[u].fd = connect_fd[u].fd /\ connect_fd'[u].windowed = connect_fd[u].windowed)
    BY <1>1, <1>2 DEF Inv, TypeOK
  <2> QED
    BY <2>1, <2>2, <1>2, <1>3 DEF Inv, StashesOwn, StashOwn
<1> QED
  BY <1>3, <1>4, <1>5, EntriesFrame, CallsFrame, ObjectsFrame, SilenceIsTrue DEF Inv

LEMMA ExitConnectInv ==
    ASSUME Inv, NEW t \in Threads, ExitConnect(t)
    PROVE  Inv'
<1>1. PICK p \in Ptrs : p = calls[t][1].p
  <2>1. calls[t] \in Seq(ConnectCall \cup SslCall) /\ Len(calls[t]) = 1 /\ calls[t][1].fn = "connect"
    BY DEF ExitConnect, Inv, TypeOK
  <2>2. calls[t][1] \in ConnectCall \cup SslCall
    BY <2>1
  <2>3. calls[t][1] \notin SslCall
    BY <2>1 DEF SslCall
  <2> QED
    BY <2>2, <2>3 DEF ConnectCall
<1>2. \/ sock' = sock
      \/ IsNew(t, p) /\ sock' = [sock EXCEPT ![p] = None] /\ sock'[p] = None
  BY <1>1 DEF ExitConnect, Inv, TypeOK
<1>3. calls' = [calls EXCEPT ![t] = NoCall] /\ calls'[t] = NoCall
  BY DEF ExitConnect, Inv, TypeOK
<1>4. \/ /\ exitAttached /\ connect_exit_live' = TRUE
         /\ connect_fd' = [connect_fd EXCEPT ![t] = None] /\ connect_fd'[t] = None
      \/ ~exitAttached /\ UNCHANGED <<connect_exit_live, connect_fd>>
  BY DEF ExitConnect, StashEnded, Inv, TypeOK
<1>5. UNCHANGED <<filtering, exitAttached, scope, lives, ssl, sock_ts, tracked_socks,
                  tid_cookie, ssl_fd, inflight>> /\ Quiet
  BY DEF ExitConnect, setup, connMap
<1>6. TypeOK'
  <2>1. calls' \in [Threads -> Seq(ConnectCall \cup SslCall)]
    BY <1>3 DEF Inv, TypeOK, NoCall
  <2>2. connect_fd' \in [Threads -> ConnectStash \cup {None}] /\ connect_exit_live' \in BOOLEAN
    BY <1>4 DEF Inv, TypeOK
  <2>3. sock' \in [Ptrs -> SocketState \cup {None}]
    BY <1>2 DEF Inv, TypeOK
  <2> QED
    BY <2>1, <2>2, <2>3, <1>5 DEF Inv, TypeOK
<1>7. EntriesOwn'
  <2> SUFFICES ASSUME NEW q \in Ptrs PROVE EntryKeeps(q)'
    BY DEF EntriesOwn, EntryKeeps
  <2>1. EntryKeeps(q)
    BY DEF Inv, EntriesOwn, EntryKeeps
  <2>2. CASE sock'[q] = sock[q]
    BY <2>1, <2>2, <1>5, EntryFrame
  <2>3. CASE q = p /\ IsNew(t, p) /\ sock'[p] = None
    <3>1. ~Live(p) /\ ~Live(p)'
      BY <2>3 DEF Live, Free, IsNew
    <3> QED
      BY <3>1, <2>1, <2>3, <1>5 DEF EntryKeeps, EntryOwn, ForeignUnmarked
  <2> QED
    BY <2>2, <2>3, <1>2 DEF Inv, TypeOK
<1>8. StashesOwn'
  <2> SUFFICES ASSUME NEW u \in Threads PROVE StashOwn(u)'
    BY DEF StashesOwn
  <2>1. CASE u = t
    BY <2>1, <1>4, <1>5 DEF StashOwn, Inv, StashesOwn
  <2>2. CASE u # t
    <3>1. connect_fd'[u] = connect_fd[u] /\ calls'[u] = calls[u]
      BY <2>2, <1>3, <1>4 DEF Inv, TypeOK
    <3>2. \A q \in Ptrs : IsNew(u, q)' => IsNew(u, q) /\ sock'[q].life = sock[q].life
      BY <1>2 DEF IsNew, Free, Inv, TypeOK
    <3> QED
      BY <3>1, <3>2, <1>5, StashFrame DEF Inv, StashesOwn
  <2> QED
    BY <2>1, <2>2
<1>9. CallsOwn'
  <2>1. \A i \in DOMAIN NoCall : NoCall[i].fn = "connect"
    BY DEF NoCall
  <2> QED
    BY <2>1, <1>3, <1>5, OneCallOwn
<1> QED
  BY <1>5, <1>6, <1>7, <1>8, <1>9, ObjectsFrame, SilenceIsTrue DEF Inv

LEMMA AttachExitInv == Inv /\ AttachExit => Inv'
<1> SUFFICES ASSUME Inv, AttachExit PROVE Inv'
  OBVIOUS
<1>1. UNCHANGED <<filtering, scope, sock, lives, calls, ssl, sock_ts, tracked_socks, tid_cookie,
                  connect_fd, connect_exit_live, ssl_fd, inflight>> /\ exitAttached' = TRUE /\ Quiet
  BY DEF AttachExit, objects, connMap, callMap
<1>2. TypeOK'
  BY <1>1 DEF Inv, TypeOK
<1>3. StashesOwn'
  <2>1. \A v, p : (InConnect(v, p)' <=> InConnect(v, p)) /\ (IsNew(v, p)' <=> IsNew(v, p))
    BY <1>1 DEF InConnect, IsNew, Free
  <2> QED
    BY <2>1, <1>1 DEF Inv, StashesOwn, StashOwn
<1> QED
  BY <1>1, <1>2, <1>3, EntriesFrame, CallsFrame, ObjectsFrame, SilenceIsTrue DEF Inv

-----------------------------------------------------------------------------
(* SSL objects and the records they send.                                  *)

LEMMA NestedTyped ==
    ASSUME NEW S, NEW T, NEW V, NEW f \in [S -> [T -> V]], NEW a \in S, NEW b \in T, NEW v \in V
    PROVE  [f EXCEPT ![a][b] = v] \in [S -> [T -> V]]
OBVIOUS

LEMMA BindInv ==
    ASSUME Inv, NEW t \in Threads, NEW s \in Ssls, NEW p \in Ptrs, NEW byFd \in BOOLEAN,
           Bind(t, s, p, byFd)
    PROVE  Inv'
<1> DEFINE b == [p |-> p, life |-> sock[p].life]
<1>1. b \in Binding /\ b # None /\ b.life = sock[p].life /\ sock[p].life \in 1 .. Lives
  BY SockTyped, NotNone DEF Bind, Inv, Binding
<1>2. ssl[t][s] = None /\ ssl' = [ssl EXCEPT ![t][s] = b]
  BY DEF Bind
<1>3. ssl_fd' = ssl_fd \/ ssl_fd' = [ssl_fd EXCEPT ![t][s] = b.life]
  BY DEF Bind
<1>4. UNCHANGED <<filtering, exitAttached, scope, sock, lives, calls, sock_ts, tracked_socks,
                  tid_cookie, connect_fd, connect_exit_live, inflight>> /\ Quiet
  BY DEF Bind, setup, connMap
<1> HIDE DEF b
<1>5. TypeOK'
  <2>1. ssl' \in [Threads -> [Ssls -> Binding \cup {None}]]
    BY <1>1, <1>2 DEF Inv, TypeOK
  <2>2. ssl_fd \in [Threads -> [Ssls -> (1 .. Lives) \cup {None}]]
    BY DEF Inv, TypeOK
  <2>3. b.life \in (1 .. Lives) \cup {None}
    BY <1>1
  <2>4. [ssl_fd EXCEPT ![t][s] = b.life] \in [Threads -> [Ssls -> (1 .. Lives) \cup {None}]]
    BY <2>2, <2>3, NestedTyped
  <2>5. ssl_fd' \in [Threads -> [Ssls -> (1 .. Lives) \cup {None}]]
    BY <2>2, <2>4, <1>3, Zenon
  <2> QED
    BY <2>1, <2>5, <1>4 DEF Inv, TypeOK
<1>6. ObjectsOwn'
  <2> SUFFICES ASSUME NEW u \in Threads, NEW o \in Ssls, ssl_fd'[u][o] # None
               PROVE  ssl'[u][o] # None /\ ssl_fd'[u][o] = ssl'[u][o].life
    BY DEF ObjectsOwn
  <2>1. ssl_fd[u][o] # None => ssl[u][o] # None /\ ssl_fd[u][o] = ssl[u][o].life
    BY DEF Inv, ObjectsOwn
  <2>2. CASE u = t /\ o = s
    <3>1. ssl'[u][o] = b
      BY <2>2, <1>2 DEF Inv, TypeOK
    <3>2. ssl_fd'[u][o] = ssl_fd[u][o] \/ ssl_fd'[u][o] = b.life
      BY <2>2, <1>3 DEF Inv, TypeOK
    <3> QED
      BY <3>1, <3>2, <2>1, <2>2, <1>1, <1>2
  <2>3. CASE ~(u = t /\ o = s)
    <3>1. ssl'[u][o] = ssl[u][o] /\ ssl_fd'[u][o] = ssl_fd[u][o]
      BY <2>3, <1>2, <1>3 DEF Inv, TypeOK
    <3> QED
      BY <3>1, <2>1
  <2> QED
    BY <2>2, <2>3
<1> QED
  BY <1>4, <1>5, <1>6, EntriesFrame, StashesFrame, CallsFrame, SilenceIsTrue DEF Inv

LEMMA SslFreeInv ==
    ASSUME Inv, NEW t \in Threads, NEW s \in Ssls, SslFree(t, s)
    PROVE  Inv'
<1>1. ssl' = [ssl EXCEPT ![t][s] = None] /\ ssl_fd' = [ssl_fd EXCEPT ![t][s] = None]
  BY DEF SslFree, FreeAlways
<1>2. UNCHANGED <<filtering, exitAttached, scope, sock, lives, calls, sock_ts, tracked_socks,
                  tid_cookie, connect_fd, connect_exit_live, inflight>> /\ Quiet
  BY DEF SslFree, setup, connMap
<1>3. TypeOK'
  <2>1. ssl' \in [Threads -> [Ssls -> Binding \cup {None}]]
    BY <1>1 DEF Inv, TypeOK
  <2>2. ssl_fd' \in [Threads -> [Ssls -> (1 .. Lives) \cup {None}]]
    BY <1>1 DEF Inv, TypeOK
  <2> QED
    BY <2>1, <2>2, <1>2 DEF Inv, TypeOK
<1>4. ObjectsOwn'
  <2> SUFFICES ASSUME NEW u \in Threads, NEW o \in Ssls, ssl_fd'[u][o] # None
               PROVE  ssl'[u][o] # None /\ ssl_fd'[u][o] = ssl'[u][o].life
    BY DEF ObjectsOwn
  <2>1. ssl'[u][o] = ssl[u][o] /\ ssl_fd'[u][o] = ssl_fd[u][o]
    BY <1>1 DEF Inv, TypeOK
  <2> QED
    BY <2>1 DEF Inv, ObjectsOwn
<1> QED
  BY <1>2, <1>3, <1>4, EntriesFrame, StashesFrame, CallsFrame, SilenceIsTrue DEF Inv

LEMMA BoundTyped ==
    ASSUME TypeOK, NEW t \in Threads, NEW s \in Ssls, Alive(t, s)
    PROVE  ssl[t][s].p \in Ptrs /\ ~Free(ssl[t][s].p) /\ ssl[t][s].life \in 1 .. Lives
BY DEF TypeOK, Alive, Binding

LEMMA CookieTyped ==
    ASSUME TypeOK, NEW t \in Threads, NEW p \in Ptrs
    PROVE  /\ StashCookie(t, p) \in [Threads -> Ptrs \cup {None}]
           /\ sock_ts[p] # None => StashCookie(t, p)[t] = p
BY DEF TypeOK, StashCookie

LEMMA HelloOwn ==
    ASSUME Inv, NEW p \in Ptrs, ~Free(p), sock_ts' = HelloSent(p),
           UNCHANGED <<filtering, sock, tracked_socks>>
    PROVE  sock_ts' \in [Ptrs -> ConnTrack \cup {None}] /\ EntriesOwn'
<1> DEFINE e == [sock_ts[p] EXCEPT !.ch = sock[p].life]
<1>1. CASE sock_ts' = sock_ts
  BY <1>1, EntriesFrame DEF Inv, TypeOK
<1>2. CASE sock_ts[p] # None /\ sock_ts[p].syn # 0 /\ sock_ts' = [sock_ts EXCEPT ![p] = e]
  <2>1. sock[p].life \in 0 .. Lives
    BY SockTyped DEF Inv
  <2>2. sock_ts[p] \in ConnTrack
    BY <1>2 DEF Inv, TypeOK
  <2>3. /\ e \in ConnTrack /\ e.ch = sock[p].life
        /\ e.syn = sock_ts[p].syn /\ e.est = sock_ts[p].est
        /\ e.hs = sock_ts[p].hs /\ e.scoped = sock_ts[p].scoped
    BY <2>1, <2>2 DEF ConnTrack
  <2> HIDE DEF e
  <2> QED
    BY <2>3, <1>2, FieldSet
<1> HIDE DEF e
<1> QED
  <2>1. EntryOr0(p).syn # 0 /\ sock_ts[p] # None => sock_ts[p].syn # 0
    BY EntryTyped DEF Inv
  <2>2. sock_ts' = sock_ts \/ (EntryOr0(p).syn # 0 /\ sock_ts' = Stamped(p, "ch", sock[p].life))
    BY DEF HelloSent
  <2>3. Stamped(p, "ch", sock[p].life) = IF sock_ts[p] = None THEN sock_ts ELSE [sock_ts EXCEPT ![p] = e]
    BY DEF Stamped, e, Inv, TypeOK
  <2> QED
    BY <2>1, <2>2, <2>3, <1>1, <1>2

LEMMA DataOwn ==
    ASSUME Inv, NEW p \in Ptrs, sock_ts' = DataSent(p),
           UNCHANGED <<filtering, sock, tracked_socks>>
    PROVE  sock_ts' \in [Ptrs -> ConnTrack \cup {None}] /\ EntriesOwn'
<1> DEFINE e == [sock_ts[p] EXCEPT !.hs = sock_ts[p].ch]
<1>1. CASE sock_ts' = sock_ts
  BY <1>1, EntriesFrame DEF Inv, TypeOK
<1>2. CASE sock_ts[p] # None /\ sock_ts' = [sock_ts EXCEPT ![p] = e]
  <2>1. sock_ts[p] \in ConnTrack
    BY <1>2 DEF Inv, TypeOK
  <2>2. /\ e \in ConnTrack /\ e.hs = sock_ts[p].ch
        /\ e.syn = sock_ts[p].syn /\ e.est = sock_ts[p].est
        /\ e.ch = sock_ts[p].ch /\ e.scoped = sock_ts[p].scoped
    BY <2>1 DEF ConnTrack
  <2> HIDE DEF e
  <2> QED
    BY <2>2, <1>2, FieldSet
<1> HIDE DEF e
<1> QED
  <2>1. sock_ts' = sock_ts \/ sock_ts' = Stamped(p, "hs", sock_ts[p].ch)
    BY DEF DataSent
  <2>2. Stamped(p, "hs", sock_ts[p].ch) = IF sock_ts[p] = None THEN sock_ts ELSE [sock_ts EXCEPT ![p] = e]
    BY DEF Stamped, e, Inv, TypeOK
  <2> QED
    BY <2>1, <2>2, <1>1, <1>2

LEMMA SendInv ==
    ASSUME Inv, NEW u \in Threads, NEW t \in Threads, NEW s \in Ssls,
           Handshake(u, t, s) \/ SendData(u, t, s)
    PROVE  Inv'
<1> DEFINE p == ssl[t][s].p
<1>1. p \in Ptrs /\ ~Free(p)
  BY BoundTyped DEF Inv, Handshake, SendData, Send
<1>2. tid_cookie' = StashCookie(u, p) /\ (sock_ts' = HelloSent(p) \/ sock_ts' = DataSent(p))
  BY DEF Handshake, SendData, Send
<1>3. UNCHANGED <<filtering, exitAttached, scope, sock, lives, calls, ssl, tracked_socks,
                  connect_fd, connect_exit_live, ssl_fd, inflight>> /\ Quiet
  BY DEF Handshake, SendData, Send, setup, objects, callMap
<1> HIDE DEF p
<1>4. sock_ts' \in [Ptrs -> ConnTrack \cup {None}] /\ EntriesOwn'
  BY <1>1, <1>2, <1>3, HelloOwn, DataOwn
<1>5. tid_cookie' \in [Threads -> Ptrs \cup {None}]
  BY <1>1, <1>2, CookieTyped DEF Inv
<1>6. TypeOK'
  BY <1>3, <1>4, <1>5 DEF Inv, TypeOK
<1> QED
  BY <1>3, <1>4, <1>6, StashesFrame, CallsFrame, ObjectsFrame, SilenceIsTrue DEF Inv

-----------------------------------------------------------------------------
(* The calls.                                                              *)

LEMMA AnswersAppended ==
    ASSUME NEW C, NEW seq \in Seq(C), NEW call \in C, NEW fn, NEW s, Answers(seq, fn, s)
    PROVE  /\ ~Stashed(call, fn) => Answers(Append(seq, call), fn, s)
           /\ Stashed(call, fn) => Answers(Append(seq, call), fn, call.s)
<1> DEFINE seq1 == Append(seq, call)
           top == Len(seq) + 1
<1>1. /\ Len(seq) \in Nat /\ DOMAIN seq = 1 .. Len(seq) /\ DOMAIN seq1 = 1 .. top
      /\ \A i \in 1 .. Len(seq) : seq1[i] = seq[i]
      /\ seq1[top] = call
  BY AppendProperties
<1> HIDE DEF seq1
<1>2. CASE ~Stashed(call, fn)
  <2> SUFFICES ASSUME s # None, NEW i, Innermost(seq1, fn, i) PROVE seq1[i].s = s
    BY <1>2 DEF Answers, seq1
  <2>1. i \in 1 .. Len(seq)
    BY <1>1, <1>2 DEF Innermost
  <2>2. Innermost(seq, fn, i)
    BY <2>1, <1>1 DEF Innermost
  <2> QED
    BY <2>1, <2>2, <1>1 DEF Answers
<1>3. CASE Stashed(call, fn)
  <2> SUFFICES ASSUME NEW i, Innermost(seq1, fn, i) PROVE seq1[i].s = call.s
    BY <1>3 DEF Answers, seq1
  <2>1. i \in 1 .. top /\ ~(top > i)
    BY <1>1, <1>3 DEF Innermost
  <2>2. i = top
    BY <2>1, <1>1
  <2> QED
    BY <2>2, <1>1
<1> QED
  BY <1>2, <1>3

LEMMA AnswersPopped ==
    ASSUME NEW C, NEW seq \in Seq(C), seq # <<>>, NEW fn, NEW s, Answers(seq, fn, s)
    PROVE  LET n == Len(seq)
               front == SubSeq(seq, 1, n - 1)
           IN  /\ n \in Nat \ {0} /\ seq[n] \in C /\ front \in Seq(C)
               /\ DOMAIN front = 1 .. n - 1 /\ \A i \in 1 .. n - 1 : front[i] = seq[i]
               /\ ~Stashed(seq[n], fn) => Answers(front, fn, s)
               /\ Stashed(seq[n], fn) /\ s # None => s = seq[n].s
<1> DEFINE n == Len(seq)
           front == SubSeq(seq, 1, n - 1)
<1>1. n \in Nat \ {0} /\ DOMAIN seq = 1 .. n /\ seq[n] \in C /\ \A i \in 1 .. n - 1 : seq[i] \in C
  BY EmptySeq
<1>2. /\ front \in Seq(C) /\ Len(front) = n - 1 /\ DOMAIN front = 1 .. n - 1
      /\ \A i \in 1 .. n - 1 : front[i] = seq[i]
  <2>1. /\ front \in Seq(C) /\ Len(front) = IF 1 <= n - 1 THEN (n - 1) - 1 + 1 ELSE 0
        /\ \A i \in 1 .. (n - 1) - 1 + 1 : front[i] = seq[1 + i - 1]
    <3>1. 1 \in Int /\ n - 1 \in Int
      BY <1>1
    <3> HIDE DEF n
    <3> QED
      BY <3>1, <1>1, SubSeqProperties
  <2>2. Len(front) = n - 1
    BY <2>1, <1>1
  <2>3. \A i \in 1 .. n - 1 : front[i] = seq[i]
    BY <2>1, <1>1
  <2>4. DOMAIN front = 1 .. Len(front)
    BY <2>1
  <2> HIDE DEF front
  <2> QED
    BY <2>1, <2>2, <2>3, <2>4
<1> HIDE DEF n, front
<1>3. ASSUME ~Stashed(seq[n], fn) PROVE Answers(front, fn, s)
  <2> SUFFICES ASSUME s # None, NEW i, Innermost(front, fn, i) PROVE front[i].s = s
    BY DEF Answers
  <2>1. i \in 1 .. n - 1
    BY <1>2 DEF Innermost
  <2>2. Innermost(seq, fn, i)
    <3>1. i \in DOMAIN seq /\ Stashed(seq[i], fn)
      BY <2>1, <1>1, <1>2 DEF Innermost
    <3>2. ASSUME NEW j \in DOMAIN seq, j > i PROVE ~Stashed(seq[j], fn)
      <4>1. j = n \/ j \in 1 .. n - 1
        BY <1>1
      <4> QED
        BY <4>1, <3>2, <1>1, <1>2, <1>3 DEF Innermost
    <3> QED
      BY <3>1, <3>2 DEF Innermost
  <2> QED
    BY <2>1, <2>2, <1>2 DEF Answers
<1>4. ASSUME Stashed(seq[n], fn), s # None PROVE s = seq[n].s
  <2>1. Innermost(seq, fn, n)
    BY <1>1, <1>4 DEF Innermost
  <2> QED
    BY <2>1, <1>4 DEF Answers
<1> QED
  BY <1>1, <1>2, <1>3, <1>4 DEF n, front

LEMMA EnterSslInv ==
    ASSUME Inv, NEW t \in Threads, NEW s \in Ssls, NEW fn \in {"read", "write"},
           NEW large \in BOOLEAN, EnterSsl(t, fn, s, large)
    PROVE  Inv'
<1> DEFINE f == Frame(t, fn, s, large)
           old == calls[t]
           seq == Append(old, f)
<1>1. /\ f \in SslCall /\ f.fn = fn /\ f.s = s /\ (f.large <=> large) /\ (f.seated <=> InScope(t))
      /\ fn = "read" => large
  BY DEF Frame, SslCall, InScope, EnterSsl, Inv, TypeOK
<1>2. old \in Seq(ConnectCall \cup SslCall) /\ \A i \in DOMAIN old : old[i].fn # "connect"
  BY DEF EnterSsl, Inv, TypeOK
<1>3. calls' = [calls EXCEPT ![t] = seq] /\ calls'[t] = seq
  BY DEF EnterSsl, Inv, TypeOK
<1>4. \/ InScope(t) /\ large /\ inflight' = [inflight EXCEPT ![fn][t] = s]
      \/ ~(InScope(t) /\ large) /\ inflight' = inflight
  BY DEF EnterSsl
<1>5. UNCHANGED <<filtering, exitAttached, scope, sock, lives, ssl, sock_ts, tracked_socks,
                  tid_cookie, connect_fd, connect_exit_live, ssl_fd>> /\ Quiet
  BY DEF EnterSsl, setup, connMap
<1> HIDE DEF f
<1>6. /\ seq \in Seq(ConnectCall \cup SslCall) /\ DOMAIN old = 1 .. Len(old)
      /\ Len(old) \in Nat /\ DOMAIN seq = 1 .. Len(old) + 1
      /\ \A i \in 1 .. Len(old) : seq[i] = old[i]
      /\ seq[Len(old) + 1] = f
  <2> HIDE DEF old
  <2> QED
    BY <1>1, <1>2, AppendProperties
<1> HIDE DEF old, seq
<1>7. TypeOK'
  <2>1. calls' \in [Threads -> Seq(ConnectCall \cup SslCall)]
    BY <1>3, <1>6 DEF Inv, TypeOK
  <2>2. inflight \in [{"read", "write"} -> [Threads -> Ssls \cup {None}]] /\ s \in Ssls \cup {None}
    BY DEF Inv, TypeOK
  <2>3. [inflight EXCEPT ![fn][t] = s] \in [{"read", "write"} -> [Threads -> Ssls \cup {None}]]
    BY <2>2, NestedTyped
  <2>4. inflight' \in [{"read", "write"} -> [Threads -> Ssls \cup {None}]]
    BY <2>2, <2>3, <1>4, Zenon
  <2> QED
    BY <2>1, <2>4, <1>5 DEF Inv, TypeOK
<1>8. StashesOwn'
  <2> SUFFICES ASSUME NEW u \in Threads PROVE StashOwn(u)'
    BY DEF StashesOwn
  <2>1. CASE u = t
    <3>1. \A q \in Ptrs : ~InConnect(t, q)
      <4> SUFFICES ASSUME NEW q \in Ptrs, InConnect(t, q) PROVE FALSE
        OBVIOUS
      <4>1. 1 \in DOMAIN old /\ old[1].fn = "connect"
        BY DEF InConnect, old
      <4> QED
        BY <4>1, <1>2
    <3>2. ~(connect_fd[t] # None /\ ~connect_fd[t].windowed)
      BY <3>1 DEF Inv, StashesOwn, StashOwn
    <3> QED
      BY <3>2, <2>1, <1>5 DEF StashOwn
  <2>2. CASE u # t
    <3>1. calls'[u] = calls[u]
      BY <2>2, <1>3 DEF Inv, TypeOK
    <3>2. \A q \in Ptrs : IsNew(u, q)' => IsNew(u, q) /\ sock'[q].life = sock[q].life
      BY <1>5 DEF IsNew, Free
    <3> QED
      BY <3>1, <3>2, <1>5, StashFrame DEF Inv, StashesOwn
  <2> QED
    BY <2>1, <2>2
<1>9. CallsOwn'
  <2> SUFFICES ASSUME NEW u \in Threads
               PROVE  /\ \A g \in {"read", "write"} : Answers(calls'[u], g, inflight'[g][u])
                      /\ \A i \in DOMAIN calls'[u] : calls'[u][i].fn = "read" => calls'[u][i].large
    BY DEF CallsOwn
  <2>1. CASE u # t
    <3>1. calls'[u] = calls[u] /\ \A g \in {"read", "write"} : inflight'[g][u] = inflight[g][u]
      BY <2>1, <1>3, <1>4 DEF Inv, TypeOK
    <3> QED
      BY <3>1 DEF Inv, CallsOwn
  <2>2. CASE u = t
    <3>1. \A i \in DOMAIN seq : seq[i].fn = "read" => seq[i].large
      BY <1>1, <1>6 DEF Inv, CallsOwn, old
    <3>2. ASSUME NEW g \in {"read", "write"} PROVE Answers(seq, g, inflight'[g][t])
      <4>1. Answers(old, g, inflight[g][t])
        BY DEF Inv, CallsOwn, old
      <4>2. /\ ~Stashed(f, g) => Answers(seq, g, inflight[g][t])
            /\ Stashed(f, g) => Answers(seq, g, s)
        BY <4>1, <1>1, <1>2, AnswersAppended DEF seq
      <4>3. Stashed(f, g) <=> g = fn /\ InScope(t) /\ large
        BY <1>1 DEF Stashed
      <4>4. CASE g = fn /\ InScope(t) /\ large
        <5>1. inflight'[g][t] = s
          BY <4>4, <1>4 DEF Inv, TypeOK
        <5> QED
          BY <5>1, <4>2, <4>3, <4>4
      <4>5. CASE ~(g = fn /\ InScope(t) /\ large)
        <5>1. inflight'[g][t] = inflight[g][t]
          BY <4>5, <1>4 DEF Inv, TypeOK
        <5> QED
          BY <5>1, <4>2, <4>3, <4>5
      <4> QED
        BY <4>4, <4>5
    <3> QED
      BY <3>1, <3>2, <2>2, <1>3
  <2> QED
    BY <2>1, <2>2
<1> QED
  BY <1>5, <1>7, <1>8, <1>9, EntriesFrame, ObjectsFrame, SilenceIsTrue DEF Inv

LEMMA AbandonInv ==
    ASSUME Inv, NEW t \in Threads, Abandon(t)
    PROVE  Inv'
<1>1. calls' = [calls EXCEPT ![t] = NoCall] /\ calls'[t] = NoCall
  BY DEF Abandon, Inv, TypeOK
<1>2. UNCHANGED <<filtering, exitAttached, scope, sock, lives, ssl, sock_ts, tracked_socks,
                  tid_cookie, connect_fd, connect_exit_live, ssl_fd, inflight>> /\ Quiet
  BY DEF Abandon, setup, connMap, callMap
<1>3. TypeOK'
  <2>1. calls' \in [Threads -> Seq(ConnectCall \cup SslCall)]
    BY <1>1 DEF Inv, TypeOK, NoCall
  <2> QED
    BY <2>1, <1>2 DEF Inv, TypeOK
<1>4. StashesOwn'
  <2> SUFFICES ASSUME NEW u \in Threads PROVE StashOwn(u)'
    BY DEF StashesOwn
  <2>1. CASE u = t
    <3>1. \A q \in Ptrs : ~InConnect(t, q)
      BY DEF InConnect, Abandon, InSsl, Top
    <3> QED
      BY <3>1, <2>1, <1>2 DEF StashOwn, Inv, StashesOwn
  <2>2. CASE u # t
    <3>1. calls'[u] = calls[u]
      BY <2>2, <1>1 DEF Inv, TypeOK
    <3>2. \A q \in Ptrs : IsNew(u, q)' => IsNew(u, q) /\ sock'[q].life = sock[q].life
      BY <1>2 DEF IsNew, Free
    <3> QED
      BY <3>1, <3>2, <1>2, StashFrame DEF Inv, StashesOwn
  <2> QED
    BY <2>1, <2>2
<1>5. CallsOwn'
  <2>1. \A i \in DOMAIN NoCall : NoCall[i].fn = "connect"
    BY DEF NoCall
  <2> QED
    BY <2>1, <1>1, <1>2, OneCallOwn
<1> QED
  BY <1>2, <1>3, <1>4, <1>5, EntriesFrame, ObjectsFrame, SilenceIsTrue DEF Inv

LEMMA ReturnInv ==
    ASSUME Inv, NEW t \in Threads, NEW outcome \in {"fail", "head", "other"},
           NEW sent \in BOOLEAN, Return(t, outcome, sent)
    PROVE  Inv'
<1> DEFINE seq == calls[t]
           call == Top(t)
           front == SubSeq(seq, 1, Len(seq) - 1)
           st == inflight[call.fn][t]
           p == ssl[t][call.s].p
<1>1. /\ seq \in Seq(ConnectCall \cup SslCall) /\ seq # <<>> /\ call = seq[Len(seq)]
      /\ call.fn # "connect"
  BY DEF Return, InSsl, NoCall, Top, Inv, TypeOK
<1>2. /\ Len(seq) \in Nat \ {0} /\ call \in ConnectCall \cup SslCall
      /\ front \in Seq(ConnectCall \cup SslCall) /\ DOMAIN front = 1 .. Len(seq) - 1
      /\ \A i \in 1 .. Len(seq) - 1 : front[i] = seq[i]
      /\ \A fn \in {"read", "write"} :
            /\ ~Stashed(call, fn) => Answers(front, fn, inflight[fn][t])
            /\ Stashed(call, fn) /\ inflight[fn][t] # None => inflight[fn][t] = call.s
  <2>1. \A fn \in {"read", "write"} : Answers(seq, fn, inflight[fn][t])
    BY DEF Inv, CallsOwn
  <2> HIDE DEF seq, call
  <2>2. /\ Len(seq) \in Nat \ {0} /\ call \in ConnectCall \cup SslCall
        /\ front \in Seq(ConnectCall \cup SslCall) /\ DOMAIN front = 1 .. Len(seq) - 1
        /\ \A i \in 1 .. Len(seq) - 1 : front[i] = seq[i]
    BY <1>1, <2>1, AnswersPopped
  <2>3. ASSUME NEW fn \in {"read", "write"}
        PROVE  /\ ~Stashed(call, fn) => Answers(front, fn, inflight[fn][t])
               /\ Stashed(call, fn) /\ inflight[fn][t] # None => inflight[fn][t] = call.s
    BY <1>1, <2>1, AnswersPopped
  <2> QED
    BY <2>2, <2>3
<1>3. /\ call \in SslCall /\ call.fn \in {"read", "write"} /\ call.s \in Ssls
      /\ call.large \in BOOLEAN /\ call.seated \in BOOLEAN
  <2> HIDE DEF call
  <2> QED
    BY <1>1, <1>2 DEF ConnectCall, SslCall
<1>4. calls' = [calls EXCEPT ![t] = front] /\ calls'[t] = front
  BY DEF Return, Pop, Inv, TypeOK
<1>5. /\ UNCHANGED <<filtering, exitAttached, scope, sock, lives, ssl, tracked_socks, connect_fd,
                     connect_exit_live, ssl_fd>>
      /\ inflight' = [inflight EXCEPT ![call.fn][t] = None]
      /\ tid_cookie' \in CookiesAfter(t, p, sent)
      /\ sock_ts' = IF sent THEN DataSent(p) ELSE sock_ts
      /\ sent => outcome # "fail"
      /\ outcome # "fail" => Alive(t, call.s)
  BY DEF Return, setup
<1>6. \/ Quiet
      \/ \E head \in BOOLEAN :
            /\ head => call.large
            /\ outcome # "fail" /\ st # None /\ Kind(call.fn, head) # "none"
            /\ event' = Plaintext(t, call, st, Kind(call.fn, head), tid_cookie'[t], sent)
  BY DEF Return, Reported
<1>7. outcome # "fail" => p \in Ptrs /\ ~Free(p)
  <2> HIDE DEF call
  <2> QED
    BY <1>3, <1>5, BoundTyped DEF Inv
<1> HIDE DEF seq, call, front, p
<1>8. sock_ts' \in [Ptrs -> ConnTrack \cup {None}] /\ EntriesOwn'
  <2>1. CASE sent
    BY <2>1, <1>5, <1>7, DataOwn
  <2>2. CASE ~sent
    BY <2>2, <1>5, EntriesFrame DEF Inv, TypeOK
  <2> QED
    BY <2>1, <2>2
<1>9. /\ tid_cookie' \in [Threads -> Ptrs \cup {None}]
      /\ sent /\ sock_ts[p] # None => tid_cookie'[t] \in {None, p}
  <2>1. CASE tid_cookie' = StashCookie(t, p) /\ sent
    BY <2>1, <1>5, <1>7, CookieTyped DEF Inv, TypeOK
  <2>2. CASE tid_cookie' = [tid_cookie EXCEPT ![t] = None]
    BY <2>2 DEF Inv, TypeOK
  <2>3. CASE ~sent
    BY <2>3, <1>5 DEF CookiesAfter, Inv, TypeOK
  <2> QED
    BY <2>1, <2>2, <2>3, <1>5 DEF CookiesAfter
<1>10. TypeOK'
  <2>1. calls' \in [Threads -> Seq(ConnectCall \cup SslCall)]
    BY <1>2, <1>4 DEF Inv, TypeOK
  <2>2. inflight \in [{"read", "write"} -> [Threads -> Ssls \cup {None}]]
    BY DEF Inv, TypeOK
  <2>3. [inflight EXCEPT ![call.fn][t] = None] \in [{"read", "write"} -> [Threads -> Ssls \cup {None}]]
    BY <2>2, <1>3, NestedTyped
  <2>4. inflight' \in [{"read", "write"} -> [Threads -> Ssls \cup {None}]]
    BY <2>3, <1>5, Zenon
  <2> QED
    BY <2>1, <2>4, <1>5, <1>8, <1>9 DEF Inv, TypeOK
<1>11. StashesOwn'
  <2> SUFFICES ASSUME NEW u \in Threads PROVE StashOwn(u)'
    BY DEF StashesOwn
  <2>1. CASE u = t
    <3>1. \A q \in Ptrs : ~InConnect(t, q)
      <4> SUFFICES ASSUME NEW q \in Ptrs, InConnect(t, q) PROVE FALSE
        OBVIOUS
      <4>1. call.fn = "connect"
        BY <1>1 DEF InConnect, seq
      <4> QED
        BY <4>1, <1>1
    <3>2. ~(connect_fd[t] # None /\ ~connect_fd[t].windowed)
      BY <3>1 DEF Inv, StashesOwn, StashOwn
    <3> QED
      BY <3>2, <2>1, <1>5 DEF StashOwn
  <2>2. CASE u # t
    <3>1. calls'[u] = calls[u]
      BY <2>2, <1>4 DEF Inv, TypeOK
    <3>2. \A q \in Ptrs : IsNew(u, q)' => IsNew(u, q) /\ sock'[q].life = sock[q].life
      BY <1>5 DEF IsNew, Free
    <3> QED
      BY <3>1, <3>2, <1>5, StashFrame DEF Inv, StashesOwn
  <2> QED
    BY <2>1, <2>2
<1>12. CallsOwn'
  <2> SUFFICES ASSUME NEW u \in Threads
               PROVE  /\ \A g \in {"read", "write"} : Answers(calls'[u], g, inflight'[g][u])
                      /\ \A i \in DOMAIN calls'[u] : calls'[u][i].fn = "read" => calls'[u][i].large
    BY DEF CallsOwn
  <2>1. CASE u # t
    <3>1. calls'[u] = calls[u] /\ \A g \in {"read", "write"} : inflight'[g][u] = inflight[g][u]
      BY <2>1, <1>3, <1>4, <1>5 DEF Inv, TypeOK
    <3> QED
      BY <3>1 DEF Inv, CallsOwn
  <2>2. CASE u = t
    <3>1. \A i \in DOMAIN front : front[i].fn = "read" => front[i].large
      <4>1. \A i \in DOMAIN seq : seq[i].fn = "read" => seq[i].large
        BY DEF Inv, CallsOwn, seq
      <4>2. DOMAIN seq = 1 .. Len(seq)
        BY <1>1
      <4> QED
        BY <4>1, <4>2, <1>2
    <3>2. ASSUME NEW g \in {"read", "write"} PROVE Answers(front, g, inflight'[g][t])
      <4>1. CASE g = call.fn
        <5>1. inflight'[g][t] = None
          BY <4>1, <1>5 DEF Inv, TypeOK
        <5> QED
          BY <5>1 DEF Answers
      <4>2. CASE g # call.fn
        <5>1. inflight'[g][t] = inflight[g][t]
          BY <4>2, <1>3, <1>5 DEF Inv, TypeOK
        <5>2. ~Stashed(call, g)
          BY <4>2 DEF Stashed
        <5> QED
          BY <5>1, <5>2, <1>2
      <4> QED
        BY <4>1, <4>2
    <3> QED
      BY <3>1, <3>2, <2>2, <1>4
  <2> QED
    BY <2>1, <2>2
<1>13. Reports'
  <2>1. CASE Quiet
    BY <2>1, SilenceIsTrue
  <2>2. CASE ~Quiet
    <3>1. PICK head \in BOOLEAN :
             /\ head => call.large
             /\ outcome # "fail" /\ st # None /\ Kind(call.fn, head) # "none"
             /\ event' = Plaintext(t, call, st, Kind(call.fn, head), tid_cookie'[t], sent)
      BY <2>2, <1>6
    <3> DEFINE kind == Kind(call.fn, head)
    <3>2. /\ kind \in {"read", "write", "body"} /\ (kind = "write" => call.fn = "write")
          /\ call.fn = "write" => head
      BY <3>1, <1>3 DEF Kind
    <3>3. call.large
      <4>1. CASE call.fn = "read"
        <5>1. Len(seq) \in DOMAIN seq
          BY <1>1, <1>2
        <5> QED
          BY <5>1, <4>1, <1>1 DEF Inv, CallsOwn, seq
      <4>2. CASE call.fn = "write"
        BY <4>2, <3>1, <3>2
      <4> QED
        BY <4>1, <4>2, <1>3
    <3>4. /\ event'.type = kind /\ event'.s = st /\ event'.fd = FdOf(t, st)
          /\ event'.cookie = (IF FdOf(t, st) = 0 THEN tid_cookie'[t] ELSE None)
          /\ event'.call = call /\ event'.conn = ssl[t][call.s]
          /\ event'.known <=> sock_ts[p] # None
          /\ event'.sent <=> sent
      BY <3>1 DEF Plaintext, p
    <3> HIDE DEF kind
    <3>5. EventsAreOwn' /\ ConnIdTrue'
      BY <3>2, <3>4 DEF EventsAreOwn, ConnIdTrue, Is
    <3>6. ASSUME call.seated
          PROVE  /\ event'.s = call.s /\ event'.fd \in {0, event'.conn.life}
                 /\ event'.fd = 0 /\ event'.sent /\ event'.known =>
                       event'.cookie \in {None, event'.conn.p}
      <4>1. st = call.s
        <5>1. Stashed(call, call.fn)
          BY <3>3, <3>6 DEF Stashed
        <5> QED
          BY <5>1, <3>1, <1>2, <1>3
      <4>2. FdOf(t, st) \in {0, ssl[t][call.s].life}
        BY <4>1, <1>3 DEF FdOf, Inv, ObjectsOwn
      <4>3. sent /\ sock_ts[p] # None => tid_cookie'[t] \in {None, p}
        BY <1>9
      <4> QED
        BY <4>1, <4>2, <4>3, <3>4 DEF p
    <3>7. PlaintextIsOwn'
      BY <3>4, <3>6 DEF PlaintextIsOwn, Is
    <3> QED
      BY <3>5, <3>7 DEF Reports
  <2> QED
    BY <2>1, <2>2
<1> QED
  BY <1>5, <1>8, <1>10, <1>11, <1>12, <1>13, ObjectsFrame DEF Inv

-----------------------------------------------------------------------------
(* Maps that forget, processes that gain and lose their seat.              *)

LEMMA EvictInv == Inv /\ Evict => Inv'
<1> SUFFICES ASSUME Inv, Evict PROVE Inv'
  OBVIOUS
<1>1. UNCHANGED <<filtering, exitAttached, scope, sock, lives, calls, ssl, connect_exit_live>> /\ Quiet
  BY DEF Evict, setup, objects
<1>2. CASE \E p \in Ptrs : sock_ts[p] # None /\ sock_ts' = [sock_ts EXCEPT ![p] = None]
                           /\ UNCHANGED <<tracked_socks, tid_cookie, connect_fd, ssl_fd, inflight>>
  <2>1. PICK p \in Ptrs : /\ sock_ts' = [sock_ts EXCEPT ![p] = None] /\ sock_ts'[p] = None
                          /\ UNCHANGED <<tracked_socks, tid_cookie, connect_fd, ssl_fd, inflight>>
    BY <1>2 DEF Inv, TypeOK
  <2>2. TypeOK'
    BY <2>1, <1>1 DEF Inv, TypeOK
  <2>3. EntriesOwn'
    <3> SUFFICES ASSUME NEW q \in Ptrs PROVE EntryKeeps(q)'
      BY DEF EntriesOwn, EntryKeeps
    <3>1. EntryKeeps(q)
      BY DEF Inv, EntriesOwn, EntryKeeps
    <3>2. CASE q # p
      <4>1. sock_ts'[q] = sock_ts[q]
        BY <3>2, <2>1 DEF Inv, TypeOK
      <4> QED
        BY <4>1, <3>1, <2>1, <1>1, EntryFrame
    <3>3. CASE q = p
      BY <3>1, <3>3, <2>1, <1>1
         DEF EntryKeeps, EntryOwn, ForeignUnmarked, Live, Free, CloseGate, Held, SockInScope
    <3> QED
      BY <3>2, <3>3
  <2> QED
    BY <2>1, <2>2, <2>3, <1>1, StashesFrame, CallsFrame, ObjectsFrame, SilenceIsTrue DEF Inv
<1>3. CASE \E p \in tracked_socks : tracked_socks' = tracked_socks \ {p}
                           /\ UNCHANGED <<sock_ts, tid_cookie, connect_fd, ssl_fd, inflight>>
  <2>1. PICK p \in tracked_socks : tracked_socks' = tracked_socks \ {p}
                                   /\ UNCHANGED <<sock_ts, tid_cookie, connect_fd, ssl_fd, inflight>>
    BY <1>3
  <2>2. TypeOK'
    BY <2>1, <1>1 DEF Inv, TypeOK
  <2>3. EntriesOwn'
    <3> SUFFICES ASSUME NEW q \in Ptrs PROVE EntryKeeps(q)'
      BY DEF EntriesOwn, EntryKeeps
    <3>1. EntryKeeps(q)
      BY DEF Inv, EntriesOwn, EntryKeeps
    <3>2. Live(q)' <=> Live(q)
      BY <1>1 DEF Live, Free
    <3>3. CloseGate(q)' => CloseGate(q)
      BY <2>1, <1>1 DEF CloseGate, Held, SockInScope
    <3>4. EntryOwn(q)'
      BY <3>1, <3>2, <3>3, <2>1, <1>1 DEF EntryKeeps, EntryOwn
    <3>5. ForeignUnmarked(q)'
      BY <3>1, <3>2, <3>3, <2>1, <1>1 DEF EntryKeeps, ForeignUnmarked
    <3> QED
      BY <3>4, <3>5 DEF EntryKeeps
  <2> QED
    BY <2>1, <2>2, <2>3, <1>1, StashesFrame, CallsFrame, ObjectsFrame, SilenceIsTrue DEF Inv
<1>4. CASE \E t \in Threads, fn \in {"read", "write"} :
              /\ inflight[fn][t] # None /\ inflight' = [inflight EXCEPT ![fn][t] = None]
              /\ UNCHANGED <<connMap, tid_cookie, connect_fd, ssl_fd>>
  <2>1. PICK t \in Threads, fn \in {"read", "write"} :
              /\ inflight' = [inflight EXCEPT ![fn][t] = None]
              /\ UNCHANGED <<sock_ts, tracked_socks, tid_cookie, connect_fd, ssl_fd>>
    BY <1>4 DEF connMap
  <2>2. TypeOK'
    <3>1. inflight \in [{"read", "write"} -> [Threads -> Ssls \cup {None}]]
      BY DEF Inv, TypeOK
    <3>2. [inflight EXCEPT ![fn][t] = None] \in [{"read", "write"} -> [Threads -> Ssls \cup {None}]]
      BY <3>1, NestedTyped
    <3>3. inflight' \in [{"read", "write"} -> [Threads -> Ssls \cup {None}]]
      BY <3>2, <2>1, Zenon
    <3> QED
      BY <3>3, <2>1, <1>1 DEF Inv, TypeOK
  <2>3. CallsOwn'
    <3> SUFFICES ASSUME NEW u \in Threads
                 PROVE  /\ \A g \in {"read", "write"} : Answers(calls'[u], g, inflight'[g][u])
                        /\ \A i \in DOMAIN calls'[u] : calls'[u][i].fn = "read" => calls'[u][i].large
      BY DEF CallsOwn
    <3>1. \A g \in {"read", "write"} : inflight'[g][u] \in {None, inflight[g][u]}
      BY <2>1 DEF Inv, TypeOK
    <3> QED
      BY <3>1, <1>1 DEF Inv, CallsOwn, Answers
  <2> QED
    BY <2>1, <2>2, <2>3, <1>1, EntriesFrame, StashesFrame, ObjectsFrame, SilenceIsTrue DEF Inv
<1>5. CASE \E t \in Threads : /\ tid_cookie[t] # None /\ tid_cookie' = [tid_cookie EXCEPT ![t] = None]
                              /\ UNCHANGED <<connMap, connect_fd, ssl_fd, inflight>>
  <2>1. UNCHANGED <<sock_ts, tracked_socks, connect_fd, ssl_fd, inflight>>
    BY <1>5 DEF connMap
  <2>2. TypeOK'
    BY <1>5, <2>1, <1>1 DEF Inv, TypeOK
  <2> QED
    BY <2>1, <2>2, <1>1, EntriesFrame, StashesFrame, CallsFrame, ObjectsFrame, SilenceIsTrue DEF Inv
<1>6. CASE \E t \in Threads : /\ connect_fd[t] # None /\ connect_fd' = [connect_fd EXCEPT ![t] = None]
                              /\ UNCHANGED <<connMap, tid_cookie, ssl_fd, inflight>>
  <2>1. PICK t \in Threads : /\ connect_fd' = [connect_fd EXCEPT ![t] = None]
                             /\ UNCHANGED <<sock_ts, tracked_socks, tid_cookie, ssl_fd, inflight>>
    BY <1>6 DEF connMap
  <2>2. TypeOK'
    BY <2>1, <1>1 DEF Inv, TypeOK
  <2>3. StashesOwn'
    <3> SUFFICES ASSUME NEW u \in Threads PROVE StashOwn(u)'
      BY DEF StashesOwn
    <3>1. connect_fd'[u] \in {None, connect_fd[u]}
      BY <2>1 DEF Inv, TypeOK
    <3>2. CASE connect_fd'[u] = None
      BY <3>2, <1>1 DEF StashOwn, Inv, StashesOwn
    <3>3. CASE connect_fd'[u] = connect_fd[u]
      <4>1. \A q \in Ptrs : IsNew(u, q)' => IsNew(u, q) /\ sock'[q].life = sock[q].life
        BY <1>1 DEF IsNew, Free
      <4> QED
        BY <3>3, <4>1, <1>1, StashFrame DEF Inv, StashesOwn
    <3> QED
      BY <3>1, <3>2, <3>3
  <2> QED
    BY <2>1, <2>2, <2>3, <1>1, EntriesFrame, CallsFrame, ObjectsFrame, SilenceIsTrue DEF Inv
<1>7. CASE \E t \in Threads, s \in Ssls :
              /\ ssl_fd[t][s] # None /\ ssl_fd' = [ssl_fd EXCEPT ![t][s] = None]
              /\ UNCHANGED <<connMap, tid_cookie, connect_fd, inflight>>
  <2>1. PICK t \in Threads, s \in Ssls :
              /\ ssl_fd' = [ssl_fd EXCEPT ![t][s] = None]
              /\ UNCHANGED <<sock_ts, tracked_socks, tid_cookie, connect_fd, inflight>>
    BY <1>7 DEF connMap
  <2>2. TypeOK'
    <3>1. ssl_fd \in [Threads -> [Ssls -> (1 .. Lives) \cup {None}]]
      BY DEF Inv, TypeOK
    <3>2. [ssl_fd EXCEPT ![t][s] = None] \in [Threads -> [Ssls -> (1 .. Lives) \cup {None}]]
      BY <3>1, NestedTyped
    <3>3. ssl_fd' \in [Threads -> [Ssls -> (1 .. Lives) \cup {None}]]
      BY <3>2, <2>1, Zenon
    <3> QED
      BY <3>3, <2>1, <1>1 DEF Inv, TypeOK
  <2>3. ObjectsOwn'
    <3>1. \A u \in Threads, o \in Ssls : ssl_fd'[u][o] \in {None, ssl_fd[u][o]}
      BY <2>1 DEF Inv, TypeOK
    <3> QED
      BY <3>1, <1>1 DEF Inv, ObjectsOwn
  <2> QED
    BY <2>1, <2>2, <2>3, <1>1, EntriesFrame, StashesFrame, CallsFrame, SilenceIsTrue DEF Inv
<1> QED
  BY <1>2, <1>3, <1>4, <1>5, <1>6, <1>7 DEF Evict

LEMMA RescopeInv ==
    ASSUME Inv, NEW t \in Threads, Rescope(t)
    PROVE  Inv'
<1>1. UNCHANGED <<filtering, exitAttached, sock, lives, calls, ssl, sock_ts, tracked_socks,
                  tid_cookie, connect_fd, connect_exit_live, ssl_fd, inflight>> /\ Quiet
  BY DEF Rescope, setup, connMap, callMap
<1>2. scope' \subseteq Threads
  BY DEF Rescope, Inv, TypeOK
<1>3. TypeOK'
  BY <1>1, <1>2 DEF Inv, TypeOK
<1> QED
  BY <1>1, <1>3, EntriesFrame, StashesFrame, CallsFrame, ObjectsFrame, SilenceIsTrue DEF Inv

-----------------------------------------------------------------------------
(* Every action and every stutter keeps the invariant.                     *)

LEMMA NextKeepsInv == Inv /\ [Next]_vars => Inv'
<1> SUFFICES ASSUME Inv, [Next]_vars PROVE Inv'
  OBVIOUS
<1>1. CASE UNCHANGED vars
  BY <1>1, EveryFrame
<1>2. ASSUME NEW p \in Ptrs,
             Establish(p) \/ TcpClose(p) \/ OtherClose(p) \/ Sample(p) \/ IntervalOver(p)
      PROVE  Inv'
  BY <1>2, EstablishInv, TcpCloseInv, OtherCloseInv, SampleInv, IntervalOverInv
<1>3. ASSUME NEW t \in Threads, NEW p \in Ptrs, QueryDns(t, p) \/ Accept(t, p) \/ Listen(t, p)
      PROVE  Inv'
  BY <1>3, QueryDnsInv, AcceptInv, ListenInv
<1>4. ASSUME NEW t \in Threads, NEW p \in Ptrs,
             \/ EnterConnect(t, p, "new") \/ EnterConnect(t, p, "udp")
             \/ OtherConnect(t, p) \/ TcpConnect(t, p)
      PROVE  Inv'
  BY <1>4, EnterConnectInv, OtherConnectInv, TcpConnectInv
<1>5. ASSUME NEW t \in Threads, ExitConnect(t) \/ Age(t) PROVE Inv'
  BY <1>5, ExitConnectInv, AgeInv
<1>6. CASE AttachExit
  BY <1>6, AttachExitInv
<1>7. ASSUME NEW t \in Threads, NEW s \in Ssls, NEW p \in Ptrs, NEW byFd \in BOOLEAN, Bind(t, s, p, byFd)
      PROVE  Inv'
  BY <1>7, BindInv
<1>8. /\ \A t \in Threads, s \in Ssls : SslFree(t, s) => Inv'
      /\ \A u, t \in Threads, s \in Ssls : Handshake(u, t, s) \/ SendData(u, t, s) => Inv'
  BY SslFreeInv, SendInv
<1>9. ASSUME NEW t \in Threads, NEW s \in Ssls, NEW fn \in {"read", "write"}, NEW large \in BOOLEAN,
             EnterSsl(t, fn, s, large)
      PROVE  Inv'
  BY <1>9, EnterSslInv
<1>10. ASSUME NEW t \in Threads, NEW outcome \in {"fail", "head", "other"}, NEW sent \in BOOLEAN,
              Return(t, outcome, sent)
       PROVE  Inv'
  BY <1>10, ReturnInv
<1>11. ASSUME NEW t \in Threads, Abandon(t) PROVE Inv'
  BY <1>11, AbandonInv
<1>12. CASE Evict
  BY <1>12, EvictInv
<1>13. ASSUME NEW t \in Threads, Rescope(t) PROVE Inv'
  BY <1>13, RescopeInv
<1>14. Sockets => Inv'
  BY <1>2, <1>3 DEF Sockets
<1>15. Connects => Inv'
  BY <1>4, <1>5, <1>6 DEF Connects
<1>16. SslCalls => Inv'
  BY <1>7, <1>8, <1>9, <1>10, <1>11 DEF SslCalls
<1> QED
  BY <1>1, <1>12, <1>13, <1>14, <1>15, <1>16 DEF Next

(* The invariant holds throughout, whatever the number of threads,         *)
(* addresses, objects, lives and nested calls.                             *)
THEOREM ProbesInv == Spec => []Inv
<1>1. Init => Inv
  BY InitInv
<1>2. Inv /\ [Next]_vars => Inv'
  BY NextKeepsInv
<1> QED
  BY <1>1, <1>2, PTL DEF Spec

(* The maps of the probes hold what their declarations say.                *)
THEOREM ProbesTyped == Spec => []TypeOK
<1>1. Inv => TypeOK
  BY DEF Inv
<1> QED
  BY <1>1, ProbesInv, PTL

(* handle_set_state, the sampler: no connect, close or sample event tells  *)
(* of another socket, or of one that was out of scope at its SYN.          *)
THEOREM ReportsOwnSocket == Spec => []EventsAreOwn
<1>1. Inv => EventsAreOwn
  BY DEF Inv, Reports
<1> QED
  BY <1>1, ProbesInv, PTL

(* emit_conn_id: the fd is that of the socket, but for a stash of the      *)
(* attach window.                                                          *)
THEOREM ReportsOwnFd == Spec => []ConnIdTrue
<1>1. Inv => ConnIdTrue
  BY DEF Inv, Reports
<1> QED
  BY <1>1, ProbesInv, PTL

(* ssl_write_capture, ssl_read_capture: plaintext carries the object of    *)
(* its call, the fd of its object and, sent by its thread on a tracked     *)
(* connection, no other connection's cookie.                               *)
THEOREM ReportsOwnCall == Spec => []PlaintextIsOwn
<1>1. Inv => PlaintextIsOwn
  BY DEF Inv, Reports
<1> QED
  BY <1>1, ProbesInv, PTL
=============================================================================
