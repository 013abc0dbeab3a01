------------------------------ MODULE MCNetwork ------------------------------
(***************************************************************************)
(* The network for TLC: TCP connections between two hosts (Tcp), one host's *)
(* ARP, UDP, DHCP and DNS (NetStack) and its card's driver (E1000).  The    *)
(* three share no state in the model, so each behaviour takes the steps of  *)
(* one of them, and the states add up.                                      *)
(***************************************************************************)
EXTENDS Tcp, NetStack, E1000

VARIABLE part

MCAddrOf == [n \in Names |-> IF n = "a" THEN 7 ELSE 8]

\* Bounds: everything a connection goes through with one data segment, FIN or RST
\* (part "tcp"), or several data segments and the FIN after them (part "stream").
ShortTalk == Cardinality({g \in wire : g.flags # {"ACK"}}) <= 3
OneWay == \A g \in wire : "RST" \notin g.flags /\ ("FIN" \in g.flags => g.from \in Senders)

NetworkInit ==
  /\ part \in {"tcp", "stream", "udp", "clients", "nic"}
  /\ TcpInit /\ NetInit /\ e1000_init

NetworkNext ==
  /\ UNCHANGED part
  /\ \/ part = "tcp" /\ TcpNext /\ ShortTalk'
     \/ part = "stream" /\ TcpNext /\ OneWay'
     \/ part \notin {"tcp", "stream"} /\ UNCHANGED tcpvars
  /\ \/ part = "udp" /\ BlockingNext
     \/ part = "clients" /\ (ClientNext \/ ArpNext)
     \/ part \notin {"udp", "clients"} /\ UNCHANGED netvars
  /\ \/ part = "nic" /\ NicNext
     \/ part # "nic" /\ UNCHANGED nicvars

\* TcpFair, asked of the behaviours that exercise TCP.
NetworkFair ==
  /\ \A h \in Hosts, i \in Slots :
       WF_tcpvars(part \in {"tcp", "stream"} /\ \E expired \in SUBSET Slots : i \in expired /\ tcp_tick(h, expired))
  /\ \A h \in Hosts, d \in Sds :
       WF_tcpvars(part \in {"tcp", "stream"} /\ (connect_done(h, d) \/ connect_timeout(h, d)))

NetworkSpec == NetworkInit /\ [][NetworkNext]_<<part, tcpvars, netvars, nicvars>> /\ NetworkFair
=============================================================================
