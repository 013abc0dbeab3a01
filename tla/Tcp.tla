---------------------------------- MODULE Tcp ----------------------------------
(***************************************************************************)
(* The TCP stack (net/tcp.c) and the stream half of the BSD socket layer   *)
(* (net/socket.c) of a set of hosts that talk over a network which loses,  *)
(* duplicates and reorders segments: wire is the set of every segment ever *)
(* sent, any of which may be received any number of times or never.        *)
(*                                                                         *)
(* Bytes are numbered: the k-th byte a connection sends is the value k.    *)
(* Sequence numbers are counted modulo SEQ_MOD, as uint32_t in the code.   *)
(* The retransmission timer is abstracted to "may have expired"; tx_rto,   *)
(* checksums, windows and addresses of the wire format are left out.       *)
(*                                                                         *)
(* A slot of sockets[] that is not used is written NoSlot: every path that *)
(* takes a slot clears it first (memset), so nothing of it is read again.  *)
(***************************************************************************)
EXTENDS Integers, Sequences, FiniteSetsExt

CONSTANTS
  Hosts, Clients, Servers,  \* which hosts run programs that connect / that listen
  TCP_MAX_SOCKETS,
  NET_SOCK_MAX,
  SOCK_BACKLOG_MAX,
  RXSIZE,                   \* sizeof(rx_buf)
  SEQ_MOD, ISNs,            \* width of sequence numbers; what rand_seq may return
  TCP_MAX_RETRIES,
  Port,                     \* the port servers bind
  FirstPort, MaxConnects,   \* ephemeral ports start here; bound on connects of a host
  MaxBytes, Senders,        \* bound on the bytes a connection sends; hosts that send
  MaxHeld,                  \* bound on the descriptors of a host when it makes another
  MaxWire,                  \* bound on the different segments, pure ACKs aside
  SendOk                    \* outcomes of ip4_send

VARIABLES
  slots,  \* slots[h][i]: sockets[] of tcp.c
  sds,    \* sds[h][d]: sock_table[] of socket.c
  eph,    \* eph[h]: ephemeral_port
  wire    \* every segment sent so far

tcpvars == <<slots, sds, eph, wire>>

Slots == 0 .. TCP_MAX_SOCKETS - 1
Sds   == 0 .. NET_SOCK_MAX - 1

\* tcp_socket_t. pend stands for tx_rtx_time # 0. The last four fields are the
\* model's own: bytes sent so far, number of the last byte the program read,
\* whether bytes arrived while rx_buf was full, descriptors made for the slot.
NoSlot == [used |-> FALSE, st |-> "CLOSED", lport |-> 0, rip |-> 0, rport |-> 0,
           tx |-> 0, rx |-> 0, ring |-> <<>>,
           pend |-> FALSE, rseq |-> 0, rend |-> 0, rflags |-> {}, rdata |-> <<>>, rcount |-> 0,
           nsent |-> 0, got |-> 0, over |-> FALSE, claims |-> 0]

\* sock_t. conn is the slot a blocked sock_connect waits on, known says that a
\* program holds the descriptor (sock_create or sock_accept returned it).
NoSock == [used |-> FALSE, st |-> "FREE", port |-> 0, tcp |-> -1, backlog |-> <<>>,
           conn |-> -1, known |-> FALSE]

Add(a, n) == (a + n) % SEQ_MOD

FreeSlots(h) == {i \in Slots : ~slots[h][i].used}

(***************************************************************************)
(* Segments                                                                *)
(***************************************************************************)
Segment(h, s, fl, seq, data) ==
  [from |-> h, to |-> s.rip, sport |-> s.lport, dport |-> s.rport, seq |-> seq,
   ack |-> IF "ACK" \in fl THEN s.rx ELSE 0, flags |-> fl, data |-> data]

\* The socket after tcp_send_segment's ip4_send succeeded: a segment that takes
\* sequence space replaces the one saved for retransmission.
Saved(s, fl, data) ==
  LET flagged == Cardinality(fl \cap {"SYN", "FIN"}) IN
  IF flagged + Len(data) = 0 THEN s
  ELSE [s EXCEPT !.tx = Add(s.tx, Len(data)), !.pend = TRUE,
                 !.rseq = s.tx, !.rend = Add(s.tx, Len(data) + flagged),
                 !.rflags = fl, !.rdata = data]

\* ip4_send may fail: ARP does not answer or no buffer is free. Where the
\* segment is not saved this is the loss of the segment, or (for data) an error
\* to the caller that changes nothing; it matters for SYN and FIN.
tcp_send_segment(s, fl, data, ok) == IF ok THEN Saved(s, fl, data) ELSE s

Emitted(h, s, fl, data, ok) == IF ok THEN {Segment(h, s, fl, s.tx, data)} ELSE {}

Bump(s) == [s EXCEPT !.tx = Add(s.tx, 1)]     \* s->tx_seq++ for a SYN or a FIN

\* ack_num < s->tx_rtx_end_seq is a plain unsigned comparison.
tcp_rtx_clear_if_acked(s, ack) ==
  IF ~s.pend \/ ack < s.rend THEN s
  ELSE [s EXCEPT !.pend = FALSE, !.rdata = <<>>, !.rcount = 0]


\* Of a slot whose timer ran out: give up after TCP_MAX_RETRIES, else send again.
tcp_tick_slot(s) ==
  IF s.rcount >= TCP_MAX_RETRIES THEN NoSlot ELSE [s EXCEPT !.rcount = @ + 1]

\* expired: the slots whose RTO has run out. A connect that still waits is at
\* most five seconds old and its second retransmission would come after nine,
\* so it never reaches the give-up branch.
tcp_tick(h, expired) ==
  /\ expired # {}
  /\ \A i \in expired :
       /\ slots[h][i].pend
       /\ slots[h][i].st = "SYN_SENT" => slots[h][i].rcount < TCP_MAX_RETRIES
  /\ slots' = [slots EXCEPT ![h] =
       [i \in Slots |-> IF i \in expired THEN tcp_tick_slot(@[i]) ELSE @[i]]]
  /\ wire' = wire \cup
       {Segment(h, slots[h][i], slots[h][i].rflags, slots[h][i].rseq, slots[h][i].rdata) :
          i \in {j \in expired : slots[h][j].rcount < TCP_MAX_RETRIES}}
  /\ UNCHANGED <<sds, eph>>

(***************************************************************************)
(* The socket layer's table                                                *)
(***************************************************************************)
sock_alloc(h) == IF \A d \in Sds : sds[h][d].used THEN -1
                 ELSE Min({d \in Sds : ~sds[h][d].used})

\* The descriptor table after the final ACK of a handshake: a new connected
\* descriptor, queued on the first listening socket of the port if it has room.
sock_notify_accept(h, port, i) ==
  LET ls == {d \in Sds : sds[h][d].used /\ sds[h][d].st = "LISTENING" /\ sds[h][d].port = port}
      l  == Min(ls)
      d  == sock_alloc(h)
  IN IF ls = {} \/ d = -1 THEN sds[h]
     ELSE [[sds[h] EXCEPT ![d] = [NoSock EXCEPT !.used = TRUE, !.st = "CONNECTED",
                                               !.port = port, !.tcp = i]]
            EXCEPT ![l].backlog =
              IF Len(@) < SOCK_BACKLOG_MAX - 1 THEN Append(@, d) ELSE @]

(***************************************************************************)
(* tcp_receive, one operator per case of its switch. Each gives the slot   *)
(* after the segment; Answers gives what it sends.                         *)
(***************************************************************************)
Match(h, g) == {i \in Slots : /\ slots[h][i].used /\ slots[h][i].lport = g.dport
                              /\ slots[h][i].rport = g.sport /\ slots[h][i].rip = g.from}

\* A SYN for a listening port takes a free slot and answers SYN-ACK. Whether
\* the answer left the host is not looked at.
OnSyn(h, g, ok, isn) ==
  /\ Match(h, g) = {}
  /\ "SYN" \in g.flags /\ "ACK" \notin g.flags
  /\ \E i \in Slots : slots[h][i].st = "LISTEN" /\ slots[h][i].lport = g.dport
  /\ FreeSlots(h) # {}
  /\ LET i  == Min(FreeSlots(h))
         ns == [NoSlot EXCEPT !.used = TRUE, !.st = "SYN_RCVD", !.lport = g.dport,
                              !.rip = g.from, !.rport = g.sport,
                              !.rx = Add(g.seq, 1), !.tx = isn]
         fl == {"SYN", "ACK"}
     IN /\ slots' = [slots EXCEPT ![h][i] = Bump(tcp_send_segment(ns, fl, <<>>, ok))]
        /\ wire'  = wire \cup Emitted(h, ns, fl, <<>>, ok)
  /\ UNCHANGED <<sds, eph>>

OnReset(h, i, g) ==
  /\ "RST" \in g.flags
  /\ slots[h][i].st \in {"SYN_RCVD", "ESTABLISHED"}
  /\ slots' = [slots EXCEPT ![h][i] = NoSlot]
  /\ UNCHANGED <<sds, eph, wire>>


FinalAck(s, g) == s.st = "SYN_RCVD" /\ "ACK" \in g.flags /\ g.ack = s.tx

OnFinalAck(h, i, g) ==
  LET s == slots[h][i] IN
  /\ FinalAck(s, g) /\ "RST" \notin g.flags
  /\ slots' = [slots EXCEPT ![h][i] =
       [tcp_rtx_clear_if_acked(s, g.ack) EXCEPT
          !.st = "ESTABLISHED",
          !.claims = IF sock_notify_accept(h, s.lport, i) = sds[h] THEN @ ELSE @ + 1]]
  /\ sds' = [sds EXCEPT ![h] = sock_notify_accept(h, s.lport, i)]
  /\ UNCHANGED <<eph, wire>>

OnSynAck(h, i, g) ==
  LET s  == slots[h][i]
      ns == [tcp_rtx_clear_if_acked(s, g.ack) EXCEPT !.rx = Add(g.seq, 1), !.st = "ESTABLISHED"]
  IN /\ s.st = "SYN_SENT" /\ {"SYN", "ACK"} \subseteq g.flags /\ g.ack = s.tx
     /\ slots' = [slots EXCEPT ![h][i] = ns]
     /\ wire'  = wire \cup {Segment(h, ns, {"ACK"}, ns.tx, <<>>)}
     /\ UNCHANGED <<sds, eph>>

\* A FIN is taken whatever its sequence number; the answer is ACK, FIN-ACK.
OnFin(h, i, g, ok) ==
  LET s  == [slots[h][i] EXCEPT !.rx = Add(g.seq, 1)]
      fl == {"FIN", "ACK"}
  IN /\ s.st = "ESTABLISHED" /\ "FIN" \in g.flags /\ "RST" \notin g.flags
     /\ slots' = [slots EXCEPT ![h][i] =
          [Bump(tcp_send_segment(s, fl, <<>>, ok)) EXCEPT !.st = "TIME_WAIT"]]
     /\ wire'  = wire \cup {Segment(h, s, {"ACK"}, s.tx, <<>>)} \cup Emitted(h, s, fl, <<>>, ok)
     /\ UNCHANGED <<sds, eph>>

\* The bytes of data that still fit rx_buf; the others are dropped, and
\* acknowledged with the rest.
Room(s) == RXSIZE - 1 - Len(s.ring)

InOrder_any(s, g) == g.data # <<>>

\* A data segment is taken only at the sequence number expected next.
InOrder(s, g) == g.data # <<>> /\ g.seq = s.rx

OnSegment(h, i, g) ==
  LET s     == IF "ACK" \in g.flags THEN tcp_rtx_clear_if_acked(slots[h][i], g.ack)
               ELSE slots[h][i]
      taken == SubSeq(g.data, 1, Min({Len(g.data), Room(s)}))
      ns    == [s EXCEPT !.ring = @ \o taken, !.rx = Add(s.rx, Len(g.data)),
                         !.over = @ \/ Len(taken) < Len(g.data)]
  IN /\ s.st = "ESTABLISHED" /\ g.flags \cap {"FIN", "RST"} = {}
     /\ IF InOrder(s, g)
        THEN /\ slots' = [slots EXCEPT ![h][i] = ns]
             /\ wire'  = wire \cup {Segment(h, ns, {"ACK"}, ns.tx, <<>>)}
        ELSE /\ slots' = [slots EXCEPT ![h][i] = s]
             /\ UNCHANGED wire
     /\ UNCHANGED <<sds, eph>>

\* Any segment ends a connection in TIME_WAIT.
OnTimeWait(h, i, g) ==
  /\ slots[h][i].st = "TIME_WAIT"
  /\ slots' = [slots EXCEPT ![h][i] = NoSlot]
  /\ UNCHANGED <<sds, eph, wire>>

tcp_receive(h, g) ==
  \/ \E ok \in SendOk, isn \in ISNs : OnSyn(h, g, ok, isn)
  \/ /\ Match(h, g) # {}
     /\ LET i == Min(Match(h, g)) IN
          \/ OnReset(h, i, g)
          \/ OnFinalAck(h, i, g)
          \/ OnSynAck(h, i, g)
          \/ \E ok \in SendOk : OnFin(h, i, g, ok)
          \/ OnSegment(h, i, g)
          \/ OnTimeWait(h, i, g)

\* External: a remote stack that has no connection for a segment resets it.
peer_reset(g) ==
  /\ "RST" \notin g.flags
  /\ Match(g.to, g) = {}
  /\ wire' = wire \cup {[from |-> g.to, to |-> g.from, sport |-> g.dport, dport |-> g.sport,
                         seq |-> 0, ack |-> 0, flags |-> {"RST"}, data |-> <<>>]}
  /\ UNCHANGED <<slots, sds, eph>>

(***************************************************************************)
(* The calls of programs. A program uses a descriptor it holds, and is     *)
(* inside sock_connect while conn >= 0.                                    *)
(***************************************************************************)
Callable(h, d) == sds[h][d].used /\ sds[h][d].known /\ sds[h][d].conn = -1

sock_create(h) ==
  /\ Cardinality({d \in Sds : sds[h][d].known}) < MaxHeld
  /\ sock_alloc(h) # -1
  /\ sds' = [sds EXCEPT ![h][sock_alloc(h)] =
       [NoSock EXCEPT !.used = TRUE, !.st = "CREATED", !.known = TRUE]]
  /\ UNCHANGED <<slots, eph, wire>>

sock_bind(h, d) ==
  /\ Callable(h, d) /\ sds[h][d].st = "CREATED"
  /\ sds' = [sds EXCEPT ![h][d].port = Port, ![h][d].st = "BOUND"]
  /\ UNCHANGED <<slots, eph, wire>>

\* The slot tcp_listen returns: the one already listening, else a free one.
ListenSlot(h, port) ==
  LET same == {i \in Slots : slots[h][i].st = "LISTEN" /\ slots[h][i].lport = port}
  IN IF same # {} THEN same ELSE FreeSlots(h)

sock_listen(h, d) ==
  /\ Callable(h, d) /\ sds[h][d].st = "BOUND"
  /\ LET port == sds[h][d].port
         from == ListenSlot(h, port)
     IN /\ from # {}     \* else EADDRINUSE, and nothing changes
        /\ slots' = [slots EXCEPT ![h][Min(from)] =
             IF @.used THEN @ ELSE [NoSlot EXCEPT !.used = TRUE, !.st = "LISTEN", !.lport = port]]
        /\ sds' = [sds EXCEPT ![h][d].st = "LISTENING", ![h][d].tcp = Min(from)]
  /\ UNCHANGED <<eph, wire>>

\* sock_connect up to the wait of tcp_connect; a failed SYN frees the slot.
sock_connect(h, d, to) ==
  /\ Callable(h, d) /\ sds[h][d].st \in {"CREATED", "BOUND"}
  /\ FreeSlots(h) # {}
  /\ eph[h] < FirstPort + MaxConnects
  /\ eph' = [eph EXCEPT ![h] = @ + 1]
  /\ \E ok \in SendOk, isn \in ISNs :
       LET i == Min(FreeSlots(h))
           s == [NoSlot EXCEPT !.used = TRUE, !.st = "SYN_SENT", !.rip = to,
                               !.lport = eph[h], !.rport = Port, !.tx = isn]
       IN /\ wire' = wire \cup Emitted(h, s, {"SYN"}, <<>>, ok)
          /\ IF ok THEN /\ slots' = [slots EXCEPT ![h][i] = Bump(tcp_send_segment(s, {"SYN"}, <<>>, ok))]
                        /\ sds' = [sds EXCEPT ![h][d].conn = i]
             ELSE UNCHANGED <<slots, sds>>

\* The poll loop of tcp_connect sees its slot established. Only the state of
\* the slot is read, not whether it is still the one this call took.
connect_done(h, d) ==
  LET i == sds[h][d].conn IN
  /\ sds[h][d].used /\ i # -1
  /\ slots[h][i].st = "ESTABLISHED"
  /\ slots' = [slots EXCEPT ![h][i].claims = @ + 1]
  /\ sds' = [sds EXCEPT ![h][d].conn = -1, ![h][d].tcp = i, ![h][d].st = "CONNECTED"]
  /\ UNCHANGED <<eph, wire>>

\* Five seconds are over: the slot is marked free whatever it is now.
connect_timeout(h, d) ==
  LET i == sds[h][d].conn IN
  /\ sds[h][d].used /\ i # -1
  /\ slots' = [slots EXCEPT ![h][i] = NoSlot]
  /\ sds' = [sds EXCEPT ![h][d].conn = -1]
  /\ UNCHANGED <<eph, wire>>

sock_accept(h, d) ==
  LET nd == Head(sds[h][d].backlog) IN
  /\ Callable(h, d) /\ sds[h][d].st = "LISTENING" /\ sds[h][d].backlog # <<>>
  /\ sds' = [sds EXCEPT ![h][d].backlog = Tail(@), ![h][nd].known = sds[h][nd].used]
  /\ UNCHANGED <<slots, eph, wire>>

sock_send(h, d, n) ==
  LET i    == sds[h][d].tcp
      s    == slots[h][i]
      data == [k \in 1 .. n |-> s.nsent + k]
  IN /\ h \in Senders
     /\ Callable(h, d) /\ sds[h][d].st = "CONNECTED"
     /\ s.st = "ESTABLISHED" /\ s.nsent + n <= MaxBytes
     /\ slots' = [slots EXCEPT ![h][i] = [Saved(s, {"ACK", "PSH"}, data) EXCEPT !.nsent = @ + n]]
     /\ wire'  = wire \cup {Segment(h, s, {"ACK", "PSH"}, s.tx, data)}
     /\ UNCHANGED <<sds, eph>>

\* At most n bytes leave the receive ring.
tcp_recv(h, i, n) ==
  LET s == slots[h][i]
      k == Min({n, Len(s.ring)})
  IN /\ s.used /\ s.ring # <<>>
     /\ slots' = [slots EXCEPT ![h][i].ring = SubSeq(@, k + 1, Len(@)), ![h][i].got = s.ring[k]]

\* Nothing fills the buffer of a stream socket itself, so all reads are TCP's.
sock_recv(h, d, n) ==
  /\ Callable(h, d) /\ sds[h][d].st = "CONNECTED"
  /\ tcp_recv(h, sds[h][d].tcp, n)
  /\ UNCHANGED <<sds, eph, wire>>

\* tcp_close: a FIN if established, and the slot is free at once.
tcp_close(h, i) ==
  /\ slots' = [slots EXCEPT ![h][i] = NoSlot]
  /\ wire'  = wire \cup
       {Segment(h, s, {"FIN", "ACK"}, s.tx, <<>>) : s \in {t \in {slots[h][i]} : t.st = "ESTABLISHED"}}

\* sys_shutdown is sock_shutdown and then sock_close: the second close of the
\* slot may find it taken again by a segment that came between them.
sock_shutdown(h, d) ==
  /\ Callable(h, d) /\ sds[h][d].st # "CLOSING"
  /\ sds' = [sds EXCEPT ![h][d].st = "CLOSING"]
  /\ IF sds[h][d].tcp >= 0 THEN tcp_close(h, sds[h][d].tcp)
     ELSE UNCHANGED <<slots, wire>>
  /\ UNCHANGED eph

sock_close(h, d) ==
  /\ Callable(h, d)
  /\ sds' = [sds EXCEPT ![h][d] = NoSock]
  /\ IF sds[h][d].tcp >= 0 THEN tcp_close(h, sds[h][d].tcp)
     ELSE UNCHANGED <<slots, wire>>
  /\ UNCHANGED eph

(***************************************************************************)
(* Specification                                                           *)
(***************************************************************************)
TcpInit ==
  /\ slots = [h \in Hosts |-> [i \in Slots |-> NoSlot]]
  /\ sds   = [h \in Hosts |-> [d \in Sds |-> NoSock]]
  /\ eph   = [h \in Hosts |-> FirstPort]
  /\ wire  = {}

Call(h, d) ==
  \/ h \in Servers /\ (sock_bind(h, d) \/ sock_listen(h, d) \/ sock_accept(h, d))
  \/ h \in Clients /\ \E to \in Servers \ {h} : sock_connect(h, d, to)
  \/ connect_done(h, d) \/ connect_timeout(h, d)
  \/ \E n \in 1 .. MaxBytes : sock_send(h, d, n) \/ sock_recv(h, d, n)
  \/ sock_shutdown(h, d) \/ sock_close(h, d)

TcpStep ==
  \/ \E h \in Hosts : sock_create(h)
  \/ \E h \in Hosts, d \in Sds : Call(h, d)
  \/ \E g \in wire : tcp_receive(g.to, g) \/ peer_reset(g)

TcpNext ==
  \/ TcpStep /\ Cardinality({g \in wire' : g.flags # {"ACK"}}) <= MaxWire
  \/ \E h \in Hosts, expired \in SUBSET Slots : tcp_tick(h, expired)

TcpSpec == TcpInit /\ [][TcpNext]_tcpvars

\* The desktop loop calls tcp_tick on every frame, so a timer that is due is
\* served, and the loop of tcp_connect ends after five seconds. Nothing is
\* assumed of the network or of the programs.
TcpFair ==
  /\ \A h \in Hosts, i \in Slots :
       WF_tcpvars(\E expired \in SUBSET Slots : i \in expired /\ tcp_tick(h, expired))
  /\ \A h \in Hosts, d \in Sds : WF_tcpvars(connect_done(h, d) \/ connect_timeout(h, d))

(***************************************************************************)
(* Properties                                                              *)
(***************************************************************************)
\* What a program reads from a connection is what its peer sent, in order and
\* without repetition, however the network lost, repeated and reordered the
\* segments; bytes are missing only if some arrived while rx_buf was full
\* (tcp.c:503-512: data is taken at rx_seq only, a full ring drops bytes).
StreamInOrder ==
  \A h \in Hosts, i \in Slots :
    LET s == slots[h][i] IN
      \A k \in 1 .. Len(s.ring) :
        LET before == IF k = 1 THEN s.got ELSE s.ring[k - 1] IN
          /\ s.ring[k] > before
          /\ ~s.over => s.ring[k] = before + 1


================================================================================
