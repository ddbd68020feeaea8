----------------------------- MODULE MCDnsJoin -----------------------------
(* Instances of DnsJoin small enough to enumerate. *)
EXTENDS DnsJoin

OwnAddresses  == [h \in Hosts |-> IF h = "a" THEN {"ip1"} ELSE {"ip2"}]
=============================================================================
