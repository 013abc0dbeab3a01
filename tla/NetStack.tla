-------------------------------- MODULE NetStack --------------------------------
(***************************************************************************)
(* Datagrams and address resolution on one host: the ARP cache and the     *)
(* route of ip4_send (net/ip.c), the UDP listener table with its polling   *)
(* and blocking receivers (net/udp.c), the DHCP client (net/dhcp.c) and    *)
(* the DNS resolver (net/dns.c).                                           *)
(*                                                                         *)
(* The network loses, repeats, delays and reorders: asked and discovered   *)
(* hold every request that left the host, and a server's answer to any of  *)
(* them may arrive at any later time, any number of times, or never.       *)
(* Frames are handled by the interrupt handler between two steps of the    *)
(* callers. Time limits are abstracted to "may be over".                   *)
(***************************************************************************)
EXTENDS Integers, Sequences, FiniteSetsExt

CONSTANTS
  Addrs, Macs,          \* IPv4 addresses and MAC addresses of the network
  GATEWAY,              \* the configured gateway
  Pool,                 \* addresses the DHCP server gives out
  Names, AddrOf,        \* host names, and the address each really has
  DNSSERVER,
  ARP_CACHE_SIZE, UDP_MAX_LISTENERS, UDP_POLL_SLOTS, UDP_BLOCKING_MAX, DNS_CACHE_SIZE,
  UdpPorts,             \* ports programs wait on with udp_recv_blocking
  UdpProcs,             \* processes that do
  MaxXid, MaxQuery      \* bounds on DHCP and DNS transactions

VARIABLES
  arp,        \* arp_cache[]
  listeners,  \* g_listeners[]
  poll,       \* g_poll_slots[]
  blocking,   \* g_blocking[]
  waiter,     \* what each process of UdpProcs is doing
  dhcp,       \* the DHCP client and g_lease
  dns,        \* the resolver, g_query_id, g_dns_server
  cache,      \* g_cache[] of dns.c
  discovered, \* DHCPDISCOVER and DHCPREQUEST packets sent: <<xid, ip or NONE>>
  asked       \* DNS queries sent: <<id, name>>

netvars == <<arp, listeners, poll, blocking, waiter, dhcp, dns, cache, discovered, asked>>
udpvars == <<listeners, poll, blocking, waiter>>
appvars == <<dhcp, dns, cache, discovered, asked>>

NONE == 0
DHCP_CLIENT_PORT == 68
DNS_CLIENT_PORT  == 53      \* 5353 in the code
DHCP_OFFER == 2
DHCP_ACK   == 5

First(n, P(_)) == LET S == {i \in 1 .. n : P(i)} IN IF S = {} THEN 0 ELSE Min(S)

(***************************************************************************)
(* ARP                                                                     *)
(***************************************************************************)
NoEntry == [valid |-> FALSE, ip |-> NONE, mac |-> NONE]

arp_lookup(ip) == LET Is(i) == arp[i].valid /\ arp[i].ip = ip IN First(ARP_CACHE_SIZE, Is)

\* The first free entry, or the first entry of a full cache.
Victim(t) == LET Free(i) == ~t[i].valid
                 f == First(ARP_CACHE_SIZE, Free)
             IN IF f = 0 THEN 1 ELSE f

arp_cache_add(ip, mac) ==
  LET i == IF arp_lookup(ip) # 0 THEN arp_lookup(ip) ELSE Victim(arp)
  IN [arp EXCEPT ![i] = [valid |-> TRUE, ip |-> ip, mac |-> mac]]

\* Requests, replies and announcements all teach the sender's mapping.
arp_receive(ip, mac) ==
  /\ arp' = arp_cache_add(ip, mac)
  /\ UNCHANGED udpvars /\ UNCHANGED appvars

\* Whether a packet for the broadcast address or the server leaves at once. Off
\* the subnet the next hop is the gateway, the broadcast address included.
Routed == arp_lookup(GATEWAY) # 0

(***************************************************************************)
(* UDP                                                                     *)
(***************************************************************************)
NoListener == [port |-> NONE, cb |-> "none", ctx |-> 0]

\* What leaves the host when a datagram is sent.
udp_send(pkt) == {d \in {pkt} : Routed}

\* The table after udp_listen(port, cb, ctx); cb = "none" unregisters.
udp_listen(t, port, cb, ctx) ==
  LET Same(i) == t[i].port = port
      Free(i) == t[i].port = NONE
      s == First(UDP_MAX_LISTENERS, Same)
      f == First(UDP_MAX_LISTENERS, Free)
      entry == IF cb = "none" THEN NoListener ELSE [port |-> port, cb |-> cb, ctx |-> ctx]
  IN CASE s # 0 -> [t EXCEPT ![s] = entry]
       [] s = 0 /\ cb # "none" /\ f # 0 -> [t EXCEPT ![f] = entry]
       [] OTHER -> t

ListenFails(t, port) == \A i \in 1 .. UDP_MAX_LISTENERS : t[i].port \notin {port, NONE}

\* The callbacks: a poll slot keeps the first unread packet, a blocking slot
\* the first packet.
udp_poll_cb(c, pkt) ==
  /\ poll' = [poll EXCEPT ![c] = IF @.used THEN @ ELSE [@ EXCEPT !.used = TRUE, !.pkt = pkt]]
  /\ UNCHANGED blocking

udp_blocking_cb(c) ==
  /\ blocking' = [blocking EXCEPT ![c].done = TRUE]
  /\ UNCHANGED poll

\* A datagram reaches the callback registered for its port.
udp_receive(port, pkt) ==
  LET Same(i) == listeners[i].port = port
      l == First(UDP_MAX_LISTENERS, Same)
      c == listeners[l].ctx
  IN /\ l # 0
     /\ \/ listeners[l].cb = "poll" /\ udp_poll_cb(c, pkt)
        \/ listeners[l].cb = "blocking" /\ udp_blocking_cb(c)
     /\ UNCHANGED <<listeners, waiter, arp>> /\ UNCHANGED appvars

\* The poll slot of a port: the one it has, else a free one, else none.
PollSlot(port) ==
  LET Same(i) == poll[i].port = port
      Free(i) == poll[i].port = NONE
  IN IF First(UDP_POLL_SLOTS, Same) # 0 THEN First(UDP_POLL_SLOTS, Same)
     ELSE First(UDP_POLL_SLOTS, Free)

\* udp_recv_poll: the first call for a port only registers it; later calls
\* take the waiting packet, for which got(pkt) is done.
Register(port) ==
  LET s == PollSlot(port) IN
  /\ s # 0 /\ poll[s].port = NONE
  /\ poll' = [poll EXCEPT ![s].port = port]
  /\ listeners' = udp_listen(listeners, port, "poll", s)

Taken(port) ==
  LET s == PollSlot(port) IN
  /\ s # 0 /\ poll[s].used
  /\ poll' = [poll EXCEPT ![s].used = FALSE, ![s].pkt = NONE]
  /\ UNCHANGED listeners

Packet(port) == poll[PollSlot(port)].pkt

(***************************************************************************)
(* udp_recv_blocking                                                       *)
(***************************************************************************)
NoSlotB == [port |-> NONE, done |-> FALSE]

udp_recv_blocking(p, port) ==
  LET Free(i) == blocking[i].port = NONE
      b == First(UDP_BLOCKING_MAX, Free)
  IN /\ waiter[p] = 0 /\ b # 0 /\ ~ListenFails(listeners, port)
     /\ blocking'  = [blocking EXCEPT ![b] = [port |-> port, done |-> FALSE]]
     /\ listeners' = udp_listen(listeners, port, "blocking", b)
     /\ waiter' = [waiter EXCEPT ![p] = b]
     /\ UNCHANGED <<poll, arp>> /\ UNCHANGED appvars

Unregistered_not(port) == listeners

Unregistered(port) == udp_listen(listeners, port, "none", 0)

\* Both ways out, a datagram or the time limit, unregister and free the slot.
recv_blocking_return(p) ==
  LET b == waiter[p] IN
  /\ b # 0
  /\ listeners' = Unregistered(blocking[b].port)
  /\ blocking'  = [blocking EXCEPT ![b] = NoSlotB]
  /\ waiter' = [waiter EXCEPT ![p] = 0]
  /\ UNCHANGED <<poll, arp>> /\ UNCHANGED appvars

(***************************************************************************)
(* DHCP. st: idle, discover or request (to be sent), offer or ack (waited  *)
(* for).                                                                   *)
(***************************************************************************)
dhcp_discover ==
  /\ dhcp.st = "idle" /\ dhcp.xid < MaxXid
  /\ dhcp' = [dhcp EXCEPT !.st = "discover", !.xid = @ + 1, !.offered = NONE]
  /\ UNCHANGED udpvars /\ UNCHANGED <<arp, dns, cache, discovered, asked>>

\* What a DISCOVER and a REQUEST say to the server: the transaction, and the
\* address asked for (none in a DISCOVER).
build_discover == <<dhcp.xid, NONE>>

build_request == <<dhcp.xid, dhcp.offered>>

\* dhcp_send ignores whether the packet left: ARP may not have answered.
dhcp_send ==
  /\ dhcp.st \in {"discover", "request"}
  /\ discovered' = discovered \cup 
       udp_send(IF dhcp.st = "discover" THEN build_discover ELSE build_request)
  /\ dhcp' = [dhcp EXCEPT !.st = IF @ = "discover" THEN "offer" ELSE "ack"]
  /\ UNCHANGED udpvars /\ UNCHANGED <<arp, dns, cache, asked>>

dhcp_wait_first ==
  /\ dhcp.st \in {"offer", "ack"}
  /\ Register(DHCP_CLIENT_PORT)
  /\ UNCHANGED <<blocking, waiter, arp>> /\ UNCHANGED appvars

Wanted_anyxid(pkt, type) == pkt.type = type

\* The reply must carry the xid of this transaction and the type waited for.
Wanted(pkt, type) == pkt.key = dhcp.xid /\ pkt.type = type

\* An OFFER is followed by the REQUEST for the address offered.
Offered(pkt) ==
  /\ dhcp' = [dhcp EXCEPT !.st = "request", !.offered = pkt.val]
  /\ UNCHANGED dns

\* An ACK is the lease: the interface and the resolver are configured from it.
Leased(pkt) ==
  /\ dhcp' = [dhcp EXCEPT !.st = "idle", !.lease = pkt.val, !.leasexid = dhcp.xid,
                          !.requested = dhcp.offered]
  /\ dns' = [dns EXCEPT !.server = DNSSERVER]

\* One turn of dhcp_wait that finds a packet.
dhcp_wait ==
  LET pkt == Packet(DHCP_CLIENT_PORT) IN
  /\ dhcp.st \in {"offer", "ack"}
  /\ Taken(DHCP_CLIENT_PORT)
  /\ \/ dhcp.st = "offer" /\ Wanted(pkt, DHCP_OFFER) /\ Offered(pkt)
     \/ dhcp.st = "ack" /\ Wanted(pkt, DHCP_ACK) /\ Leased(pkt)
     \/ /\ ~Wanted(pkt, IF dhcp.st = "offer" THEN DHCP_OFFER ELSE DHCP_ACK)
        /\ UNCHANGED <<dhcp, dns>>
  /\ UNCHANGED <<blocking, waiter, arp, cache, discovered, asked>>

dhcp_timeout ==
  /\ dhcp.st \in {"offer", "ack"}
  /\ dhcp' = [dhcp EXCEPT !.st = "idle"]
  /\ UNCHANGED udpvars /\ UNCHANGED <<arp, dns, cache, discovered, asked>>

\* External: a server answers a DISCOVER with any address of its pool and a
\* REQUEST with the address asked for.
dhcp_server ==
  \E d \in discovered :
    \/ d[2] = NONE /\ \E ip \in Pool :
         udp_receive(DHCP_CLIENT_PORT, [key |-> d[1], type |-> DHCP_OFFER, val |-> ip])
    \/ d[2] # NONE /\ udp_receive(DHCP_CLIENT_PORT, [key |-> d[1], type |-> DHCP_ACK, val |-> d[2]])

(***************************************************************************)
(* DNS                                                                     *)
(***************************************************************************)
Cached(n) == \E i \in 1 .. DNS_CACHE_SIZE : cache[i].name = n

\* A query says to the server its id and the name.
build_query(n) == <<dns.id, n>>

\* A name in the cache is answered from it; without a server nothing is sent.
dns_resolve(n) ==
  /\ dns.name = "" /\ ~Cached(n) /\ dns.server # NONE /\ dns.id < MaxQuery
  /\ dns' = [dns EXCEPT !.name = n, !.sent = dns.id, !.id = @ + 1]
  /\ asked' = asked \cup udp_send(build_query(n))
  /\ UNCHANGED udpvars /\ UNCHANGED <<arp, dhcp, cache, discovered>>

dns_wait_first ==
  /\ dns.name # ""
  /\ Register(DNS_CLIENT_PORT)
  /\ UNCHANGED <<blocking, waiter, arp>> /\ UNCHANGED appvars

\* The transaction id must match and the response must hold an A record.
Answers(pkt) == pkt.key = dns.sent /\ pkt.val # NONE

dns_wait ==
  LET pkt == Packet(DNS_CLIENT_PORT)
      Free(i) == cache[i].name = ""
      f == First(DNS_CACHE_SIZE, Free)
  IN /\ dns.name # ""
     /\ Taken(DNS_CLIENT_PORT)
     /\ IF Answers(pkt)
        THEN /\ cache' = IF f = 0 THEN cache ELSE [cache EXCEPT ![f] = [name |-> dns.name, addr |-> pkt.val]]
             /\ dns' = [dns EXCEPT !.name = ""]
        ELSE UNCHANGED <<cache, dns>>
     /\ UNCHANGED <<blocking, waiter, arp, dhcp, discovered, asked>>

dns_timeout ==
  /\ dns.name # ""
  /\ dns' = [dns EXCEPT !.name = ""]
  /\ UNCHANGED udpvars /\ UNCHANGED <<arp, dhcp, cache, discovered, asked>>

\* External: the server answers a query with the address of the name, or with
\* no record.
dns_server ==
  \E q \in asked, v \in {NONE} \cup {AddrOf[n] : n \in Names} :
    /\ v \in {NONE, AddrOf[q[2]]}
    /\ udp_receive(DNS_CLIENT_PORT, [key |-> q[1], type |-> 0, val |-> v])

(***************************************************************************)
(* Specification                                                           *)
(***************************************************************************)
NetInit ==
  /\ arp = [i \in 1 .. ARP_CACHE_SIZE |-> NoEntry]
  /\ listeners = [i \in 1 .. UDP_MAX_LISTENERS |-> NoListener]
  /\ poll = [i \in 1 .. UDP_POLL_SLOTS |-> [port |-> NONE, used |-> FALSE, pkt |-> NONE]]
  /\ blocking = [i \in 1 .. UDP_BLOCKING_MAX |-> NoSlotB]
  /\ waiter = [p \in UdpProcs |-> 0]
  /\ dhcp = [st |-> "idle", xid |-> 0, offered |-> NONE, requested |-> NONE, lease |-> NONE, leasexid |-> 0]
  /\ dns = [name |-> "", id |-> 1, sent |-> 0, server |-> NONE]
  /\ cache = [i \in 1 .. DNS_CACHE_SIZE |-> [name |-> "", addr |-> NONE]]
  /\ discovered = {} /\ asked = {}

ArpNext == \E ip \in Addrs, mac \in Macs : arp_receive(ip, mac)

BlockingNext ==
  \/ \E p \in UdpProcs, port \in UdpPorts : udp_recv_blocking(p, port)
  \/ \E p \in UdpProcs : recv_blocking_return(p)
  \/ \E port \in UdpPorts : udp_receive(port, NONE)

ClientNext ==
  \/ dhcp_discover \/ dhcp_send \/ dhcp_wait_first \/ dhcp_wait \/ dhcp_timeout \/ dhcp_server
  \/ \E n \in Names : dns_resolve(n)
  \/ dns_wait_first \/ dns_wait \/ dns_timeout \/ dns_server

NetNext == ArpNext \/ BlockingNext \/ ClientNext

NetSpec == NetInit /\ [][NetNext]_netvars

(***************************************************************************)
(* Properties                                                              *)
(***************************************************************************)
\* An answer that arrives late, twice or after its time limit is never taken for
\* the answer to another request: the address the interface runs with is the one
\* this client requested in the transaction the lease came from (dhcp.c:182-209,
\* 243-265), and the resolver's cache holds the true address of every name in it
\* (dns.c:180-215).
AnswersMatch ==
  /\ dhcp.lease = dhcp.requested
  /\ \A i \in 1 .. DNS_CACHE_SIZE : cache[i].name # "" => cache[i].addr = AddrOf[cache[i].name]

\* A datagram is only ever stored for a process that still waits: no listener
\* refers to a blocking slot whose udp_recv_blocking has returned, even when
\* two processes wait on one port (udp.c:184-223; the buffer is the caller's).
NoLateStore ==
  \A i \in 1 .. UDP_MAX_LISTENERS :
    listeners[i].cb = "blocking" => \E p \in UdpProcs : waiter[p] = listeners[i].ctx
================================================================================
