------------------------------ MODULE MCOffline ------------------------------
(* Files of the offline commands: every subset of a few palettes of lines.  *)
EXTENDS Consumers

B == <<"b", 0>>
Eu == <<"eu", 0>>
EuAgain == <<"eu", 1>>
Us == <<"us", 0>>

Op == [kind |-> "op", cookie |-> 1, status |-> 200, partial |-> FALSE,
       clean |-> TRUE, reused |-> FALSE, ttfb |-> 400, tcp |-> 40, dns |-> None,
       cls |-> GetObject, verb |-> "GET", bucket |-> B, key |-> 1,
       len |-> 8, dl |-> 400, pid |-> 1, ts |-> 1, total |-> 1]
Conn == [kind |-> "conn", cookie |-> 1, srtt |-> 20, minrtt |-> 20,
         region |-> Eu, cross |-> FALSE, vpce |-> FALSE, ip |-> 1, pid |-> 1,
         sent |-> 0, recv |-> 0, rtx |-> 0, handshake |-> 40, cwnd |-> 10,
         mss |-> 1, clamp |-> 40, life |-> 5, busy |-> 3, rwnd |-> 1,
         sndbuf |-> None, reordering |-> None, castate |-> None,
         ooo |-> 1, dsack |-> None]
Smp == [kind |-> "sample", cookie |-> 1, ts |-> 0, minrtt |-> 20, srtt |-> 40,
        sent |-> 0, recv |-> 0, rtx |-> 0, rate |-> None, ooo |-> 0,
        rcvwnd |-> 0, cwnd |-> 0]

Is(r) == [form |-> "record", rec |-> r]
Only(form) == [form |-> form]

(* Two paths, a cookie used twice, a region spelt twice, latencies of each. *)
Paths ==
    <<Is(Conn), Is([Conn EXCEPT !.cookie = 2, !.srtt = 200, !.region = Us]),
      Is([Conn EXCEPT !.srtt = 200, !.region = Us]),
      Is([Conn EXCEPT !.cookie = 3, !.srtt = None, !.region = EuAgain,
                      !.minrtt = 40, !.sent = 8]),
      Is(Op), Is([Op EXCEPT !.cookie = 2]),
      Is([Op EXCEPT !.cookie = 2, !.reused = TRUE, !.ttfb = 800]),
      Is([Op EXCEPT !.cookie = 3, !.reused = TRUE, !.ttfb = 40]),
      Is([Op EXCEPT !.cookie = 2, !.ttfb = 40]),
      Is([Op EXCEPT !.cookie = 4, !.status = None, !.ts = None])>>

(* Statuses, classes and truncation on one path, and a baseline of its own. *)
Statuses ==
    <<Is(Conn),
      Is([Op EXCEPT !.status = 503, !.cls = PutObject, !.verb = "PUT"]),
      Is([Op EXCEPT !.status = 404, !.cls = <<"GetObject", 1>>]),
      Is([Op EXCEPT !.status = None]),
      Is([Op EXCEPT !.ttfb = 40, !.reused = TRUE]),
      Is([Op EXCEPT !.partial = TRUE, !.reused = TRUE, !.status = 500])>>

(* Samples of two connections, one of whose cookies was used again; bytes   *)
(* that split evenly over every interval and bucket.                        *)
Sampled ==
    <<Is([Smp EXCEPT !.ts = 1]), Is([Smp EXCEPT !.ts = 3, !.recv = 2520]),
      Is([Smp EXCEPT !.ts = 7, !.recv = 5040, !.ooo = 2, !.rcvwnd = 40]),
      Is([Smp EXCEPT !.ts = 9, !.sent = 2520, !.rtx = 1, !.cwnd = 2,
                     !.rate = 5]),
      Is([Smp EXCEPT !.ts = 11, !.sent = 5040, !.rtx = 3, !.rate = 4]),
      Is([Smp EXCEPT !.cookie = 2, !.ts = 2, !.srtt = 80]),
      Is([Smp EXCEPT !.cookie = 2, !.ts = 5, !.recv = 2520]),
      Is([Smp EXCEPT !.cookie = 2, !.ts = 8, !.recv = 7560]), Is(Op)>>

(* One object read again and again, a write, throttling, a retry, a failure *)
(* and a HEAD before a read, by two processes.                              *)
Advised ==
    <<Is([Op EXCEPT !.ts = 1]), Is([Op EXCEPT !.ts = 2, !.tcp = None]),
      Is([Op EXCEPT !.ts = 4, !.dl = None]),
      Is([Op EXCEPT !.ts = 3, !.cls = PutObject, !.verb = "PUT", !.pid = 2]),
      Is([Op EXCEPT !.ts = 5, !.cls = HeadObject, !.verb = "HEAD"]),
      Is([Op EXCEPT !.ts = 6]),
      Is([Op EXCEPT !.ts = 7, !.status = 503, !.key = None]),
      Is([Op EXCEPT !.ts = 8, !.key = 2, !.cookie = 2]),
      Is([Op EXCEPT !.ts = 9, !.status = 404]),
      Is([Conn EXCEPT !.cross = TRUE])>>

(* Reads and writes of three objects: one that shrank, a truncated write, a *)
(* ranged read, reads again in the same order.                              *)
At(key, ts) == [Op EXCEPT !.key = key, !.ts = ts, !.len = 1]
Cached ==
    <<Is([At(1, 1) EXCEPT !.len = 64]), Is(At(2, 2)), Is(At(3, 3)),
      Is([At(1, 4) EXCEPT !.cls = PutObject, !.len = None]),
      Is([At(1, 6) EXCEPT !.len = 64]), Is(At(2, 7)),
      Is([At(3, 8) EXCEPT !.cls = PutObject, !.partial = TRUE]),
      Is([At(3, 9) EXCEPT !.len = None]),
      Is([At(2, 10) EXCEPT !.status = 206]), Is([At(1, 11) EXCEPT !.len = 16])>>

(* Two objects written before each read of them, as only their order tells. *)
PutAt(key, ts) == Is([At(key, ts) EXCEPT !.cls = PutObject])
Rewritten ==
    <<Is(At(1, 1)), Is(At(2, 3)), PutAt(2, 4), PutAt(1, 5),
      Is(At(1, 7)), Is(At(2, 9)), PutAt(1, 10), PutAt(2, 11),
      Is(At(1, 13)), Is(At(2, 15))>>

MCNameOrder == [o \in {B} \X {1, 2, 3} |-> o[2]]
MCHides(t, cap) == t[Len(t)].ts - t[1].ts > Len(t)

(* Every form of line.                                                      *)
Forms ==
    <<Is(Conn), Only("blank"), Only("junk"), Only("long"), Is(Op),
      [form |-> "broken", rec |-> Conn], 
      [form |-> "ibm", event |-> Event("Get", Op)],
      [form |-> "raw", event |-> [Event("Get", Op) EXCEPT !.extent = {0}]],
      Only("binary"), Is([Op EXCEPT !.partial = TRUE]), Only("alien")>>

MCInputs == <<<<Paths, <<>>>>, <<Statuses, SubSeq(Statuses, 1, 5)>>,
             <<Sampled, <<>>>>, <<Advised, <<>>>>, <<Forms, <<>>>>,
             <<Cached, <<>>>>, <<Rewritten, <<>>>>>>
=============================================================================
