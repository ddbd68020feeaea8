------------------------------ MODULE MCCapture ------------------------------
(* Instances of Capture small enough to enumerate. *)
EXTENDS Capture

(* Processes, pointers and the fds of a process may be renamed as long as  *)
(* no map evicts, so the first names are fixed: every other choice is one  *)
(* of these.                                                               *)
FirstNames ==
    /\ sock[1] # None => sock[1].tgid = 1 /\ sock[1].fd = 3 /\ sock[1].cookie = 1
    /\ \A g \in Gens : (sock[g] # None /\ sock[g].tgid # 1) => sock[g].fd = 3

(* A thread's cookie is read by connections without an fd only. Where none *)
(* can read it any more, its value makes no difference: ForgetThread may   *)
(* have come just before, so None stands for all values.                   *)
CookieMatters ==
    \A t \in Tgids, n \in Threads : tid_cookie[<<t, n>>] # None =>
        \E g \in Gens :
            \/ sock[g] = None
            \/ sock[g].tgid = t /\ ~sock[g].observed /\ HoldsFd(g)
=============================================================================
