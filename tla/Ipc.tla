-------------------------------- MODULE Ipc --------------------------------
(***************************************************************************)
(* Message ports: kernel/ipc.c on top of the capability table.  A server    *)
(* polls a port of its own and answers; a client's ipc_call makes a         *)
(* temporary port, sends, waits on that port with a time-out and destroys   *)
(* it.  ipc_call gives up the CPU while it waits, so its parts are steps;   *)
(* the waiting loop keeps a pointer to the slot of port_table.              *)
(*                                                                          *)
(* A message is its msg_id, its reply_port and, for the properties only,    *)
(* the msg_id of the request it answers.  A dead slot keeps what it held.   *)
(***************************************************************************)
EXTENDS Naturals, FiniteSets

CONSTANTS
    CAP_TABLE_SIZE, IdSpace, MaxLaps, MaxRef, Rights, MANAGE, GRANT,
    Objects,               \* <<"port", slot>> and what else capabilities name
    NULL, Tasks,
    Servers, Clients,      \* tasks that serve a port; tasks that call
    IPC_MAX_PORTS,         \* slots of port_table (1024)
    IPC_PORT_QUEUE_SIZE,   \* messages a port holds (64)
    MaxPortId, MaxSeq      \* bounds: port_next_id and msg_seq stay below them

VARIABLES
    cap_table, cap_next_id, cap_active_count, held, lineage, revoked, laps,
    port_table,     \* slot -> ipc_port_t
    port_next_id,
    port_active,
    msg_seq,
    pc,             \* task -> where it is in ipc_call, or "run"
    caller,         \* task -> locals of ipc_call
    serving,        \* server -> port_id_t of its port
    request,        \* server -> the request it has received and not answered
    taken           \* ghost: slot -> msg_id of the last message taken from it

PortSlots == 1 .. IPC_MAX_PORTS
PORT_INVALID == 0
Caps == INSTANCE Cap

caps  == <<cap_table, cap_next_id, cap_active_count, held, lineage, revoked, laps>>
ports == <<port_table, port_next_id, port_active, msg_seq, taken>>
tasks == <<pc, caller, serving, request>>

NoMsg == [id |-> 0, reply_port |-> PORT_INVALID, answers |-> 0]
NoCall == [target |-> PORT_INVALID, reply |-> PORT_INVALID, slot |-> NULL, sent |-> 0, got |-> NoMsg]

(***************************************************************************)
(* Ports                                                                    *)
(***************************************************************************)
ValidPorts == {i \in PortSlots : port_table[i].valid}

find_port(id) ==
    {i \in ValidPorts : /\ port_table[i].id = id
                        /\ \A j \in ValidPorts : port_table[j].id = id => i <= j}

alloc_port == {i \in PortSlots \ ValidPorts : \A j \in PortSlots \ ValidPorts : i <= j}

\* Mutant of Create: a port is named after its slot.
Create_slot_as_id(t, i) ==
    /\ port_next_id < MaxPortId
    /\ port_next_id' = port_next_id + 1
    /\ port_table' = [port_table EXCEPT ![i] =
         [@ EXCEPT !.id = i, !.owner_tid = t, !.q_head = 0, !.q_tail = 0, !.q_count = 0,
                   !.valid = TRUE, !.closed = FALSE,
                   !.cap = IF Caps!alloc_slot = {} THEN 0 ELSE cap_next_id]]
    /\ port_active' = port_active + 1
    /\ taken' = [taken EXCEPT ![i] = 0]
    /\ UNCHANGED msg_seq
    /\ \/ Caps!cap_create(Rights \ {MANAGE}, <<"port", i>>, t)
       \/ Caps!alloc_slot = {} /\ UNCHANGED caps

\* ipc_port_create on the free slot i.  A full capability table leaves the port
\* without a capability.
Create(t, i) ==
    /\ port_next_id < MaxPortId
    /\ port_next_id' = port_next_id + 1
    /\ port_table' = [port_table EXCEPT ![i] =
         [@ EXCEPT !.id = port_next_id, !.owner_tid = t,
                   !.q_head = 0, !.q_tail = 0, !.q_count = 0,
                   !.valid = TRUE, !.closed = FALSE,
                   !.cap = IF Caps!alloc_slot = {} THEN 0 ELSE cap_next_id]]
    /\ port_active' = port_active + 1
    /\ taken' = [taken EXCEPT ![i] = 0]
    /\ UNCHANGED msg_seq
    /\ \/ Caps!cap_create(Rights \ {MANAGE}, <<"port", i>>, t)
       \/ Caps!alloc_slot = {} /\ UNCHANGED caps

\* Mutant of DestroyPort: the capability is left in the table.
DestroyPort_keep_cap(i) ==
    /\ port_table' = [port_table EXCEPT ![i].closed = TRUE, ![i].valid = FALSE, ![i].cap = 0]
    /\ port_active' = port_active - 1
    /\ UNCHANGED <<caps, port_next_id, msg_seq, taken>>

\* ipc_port_destroy on the slot i.
DestroyPort(i) ==
    /\ port_table' = [port_table EXCEPT ![i].closed = TRUE, ![i].valid = FALSE, ![i].cap = 0]
    /\ IF port_table[i].cap # 0 THEN Caps!cap_release(port_table[i].cap) ELSE UNCHANGED caps
    /\ port_active' = port_active - 1
    /\ UNCHANGED <<port_next_id, msg_seq, taken>>

(***************************************************************************)
(* Queues                                                                   *)
(***************************************************************************)
\* ipc_send refuses an unknown port, a full queue, and a message that carries a
\* capability without the right to grant it.
Accepts(id, carried) ==
    {i \in find_port(id) :
        /\ ~port_table[i].closed
        /\ port_table[i].q_count < IPC_PORT_QUEUE_SIZE
        /\ \A c \in carried : Caps!cap_check(c, {GRANT})}

After(k) == (k + 1) % IPC_PORT_QUEUE_SIZE

\* Mutants of Enqueue: the message goes where the count points; the tail does
\* not wrap with the ring.
Enqueue_at_count(i, id, reply_port, answers) ==
    /\ id < MaxSeq
    /\ port_table' = [port_table EXCEPT
         ![i].queue[port_table[i].q_count] =
             [id |-> id, reply_port |-> reply_port, answers |-> answers],
         ![i].q_tail = After(@), ![i].q_count = @ + 1]
    /\ msg_seq' = id + 1

Enqueue(i, id, reply_port, answers) ==
    /\ id < MaxSeq
    /\ port_table' = [port_table EXCEPT
         ![i].queue[port_table[i].q_tail] =
             [id |-> id, reply_port |-> reply_port, answers |-> answers],
         ![i].q_tail = After(@), ![i].q_count = @ + 1]
    /\ msg_seq' = id + 1

Front(i) == port_table[i].queue[port_table[i].q_head]

Dequeue(i) ==
    /\ port_table' = [port_table EXCEPT ![i].q_head = After(@), ![i].q_count = @ - 1]
    /\ taken' = [taken EXCEPT ![i] = Front(i).id]

(***************************************************************************)
(* Servers: a port of their own, polled without waiting                     *)
(***************************************************************************)
ipc_port_create(t) ==
    /\ serving[t] = PORT_INVALID
    /\ \E i \in alloc_port :
         /\ Create(t, i)
         /\ serving' = [serving EXCEPT ![t] = port_table'[i].id]
    /\ UNCHANGED <<pc, caller, request>>

ipc_port_destroy(t) ==
    /\ \E i \in find_port(serving[t]) : DestroyPort(i)
    /\ serving' = [serving EXCEPT ![t] = PORT_INVALID]
    /\ UNCHANGED <<pc, caller, request>>

\* ipc_receive with IPC_TIMEOUT_NONE; a message that asks for no reply is done with.
ipc_receive(t) ==
    /\ request[t] = NoMsg
    /\ \E i \in find_port(serving[t]) :
         /\ port_table[i].q_count > 0
         /\ Dequeue(i)
         /\ request' = [request EXCEPT ![t] =
                          IF Front(i).reply_port = PORT_INVALID THEN NoMsg ELSE Front(i)]
    /\ UNCHANGED <<caps, port_next_id, port_active, msg_seq, pc, caller, serving>>

\* ipc_reply numbers the message, and the ipc_send in it numbers it again.
ipc_reply(t) ==
    /\ request[t] # NoMsg /\ msg_seq < MaxSeq
    /\ LET to == Accepts(request[t].reply_port, {})
       IN  \/ \E i \in to : Enqueue(i, msg_seq + 1, PORT_INVALID, request[t].id)
           \/ to = {} /\ msg_seq' = msg_seq + 1 /\ UNCHANGED port_table
    /\ request' = [request EXCEPT ![t] = NoMsg]
    /\ UNCHANGED <<caps, port_next_id, port_active, taken, pc, caller, serving>>

(***************************************************************************)
(* Clients                                                                  *)
(***************************************************************************)
\* A message nobody replies to.
ipc_send(t, to, carried) ==
    /\ pc[t] = "run"
    /\ \E i \in Accepts(to, carried) : Enqueue(i, msg_seq, PORT_INVALID, 0)
    /\ UNCHANGED <<caps, port_next_id, port_active, taken, tasks>>

\* ipc_call: the reply port ...
call_begin(t, to) ==
    /\ pc[t] = "run"
    /\ \E i \in alloc_port :
         /\ Create(t, i)
         /\ caller' = [caller EXCEPT ![t] =
                       [NoCall EXCEPT !.target = to, !.reply = port_table'[i].id]]
    /\ pc' = [pc EXCEPT ![t] = "send"]
    /\ UNCHANGED <<serving, request>>

\* ... the request, refused or queued ...
call_send(t, carried) ==
    /\ pc[t] = "send"
    /\ \/ \E i \in Accepts(caller[t].target, carried), own \in find_port(caller[t].reply) :
            /\ Enqueue(i, msg_seq, caller[t].reply, 0)
            /\ pc' = [pc EXCEPT ![t] = "wait"]
            /\ caller' = [caller EXCEPT ![t].sent = msg_seq, ![t].slot = own]
       \/ /\ Accepts(caller[t].target, carried) = {}
          /\ pc' = [pc EXCEPT ![t] = "end"]
          /\ UNCHANGED <<port_table, msg_seq, caller>>
    /\ UNCHANGED <<caps, port_next_id, port_active, taken, serving, request>>

\* ... the loop of ipc_receive, which ends with a message ...
call_receive(t) ==
    /\ pc[t] = "wait" /\ port_table[caller[t].slot].q_count > 0
    /\ Dequeue(caller[t].slot)
    /\ pc' = [pc EXCEPT ![t] = "end"]
    /\ caller' = [caller EXCEPT ![t].got = Front(caller[t].slot)]
    /\ UNCHANGED <<caps, port_next_id, port_active, msg_seq, serving, request>>

\* ... or when the time is over ...
call_timeout(t) ==
    /\ pc[t] = "wait" /\ port_table[caller[t].slot].q_count = 0
    /\ pc' = [pc EXCEPT ![t] = "end"]
    /\ UNCHANGED <<caps, ports, caller, serving, request>>

\* ... and the reply port goes.
call_end(t) ==
    /\ pc[t] = "end"
    /\ \E i \in find_port(caller[t].reply) : DestroyPort(i)
    /\ pc' = [pc EXCEPT ![t] = "run"]
    /\ caller' = [caller EXCEPT ![t] = NoCall]
    /\ UNCHANGED <<serving, request>>

IpcInit == \* ipc_init and cap_table_init
    /\ Caps!Init
    /\ port_table = [i \in PortSlots |->
         [id |-> 0, owner_tid |-> NULL, valid |-> FALSE, closed |-> FALSE, cap |-> 0,
          q_head |-> 0, q_tail |-> 0, q_count |-> 0,
          queue |-> [k \in 0 .. IPC_PORT_QUEUE_SIZE - 1 |-> NoMsg]]]
    /\ port_next_id = 1 /\ port_active = 0 /\ msg_seq = 1
    /\ pc = [t \in Tasks |-> "run"] /\ caller = [t \in Tasks |-> NoCall]
    /\ serving = [t \in Tasks |-> PORT_INVALID] /\ request = [t \in Tasks |-> NoMsg]
    /\ taken = [i \in PortSlots |-> 0]

Carried == {{}} \cup {{c} : c \in Caps!Ids}

\* The clients know the ports in known.
IpcNext(known) ==
    \/ \E t \in Servers : \/ ipc_port_create(t) \/ ipc_port_destroy(t)
                          \/ ipc_receive(t) \/ ipc_reply(t)
    \/ \E t \in Clients :
         \/ \E to \in known : \/ call_begin(t, to)
                              \/ \E c \in Carried : ipc_send(t, to, c)
         \/ \E c \in Carried : call_send(t, c)
         \/ call_receive(t) \/ call_timeout(t) \/ call_end(t)

(***************************************************************************)
(* Properties                                                               *)
(***************************************************************************)
\* The k-th message waiting on slot i.
Waiting(i, k) == port_table[i].queue[(port_table[i].q_head + k) % IPC_PORT_QUEUE_SIZE].id

\* A port hands out its messages in the order they were sent, each once: what
\* waits is in increasing order of msg_id and later than what was taken, through
\* wrap-round, destruction and reuse of the slot.
InOrder ==
    \A i \in ValidPorts : \A k \in 0 .. port_table[i].q_count - 1 :
        Waiting(i, k) > IF k = 0 THEN taken[i] ELSE Waiting(i, k - 1)

\* What ipc_call returns answers the request that very call sent: the reply to a
\* call that timed out never reaches a later call, though the slot of its reply
\* port is used again.
RepliesMatch ==
    \A t \in Clients : caller[t].got # NoMsg => caller[t].got.answers = caller[t].sent

ReplyPorts == {caller[t].reply : t \in Clients} \ {PORT_INVALID}
ServicePorts == {serving[t] : t \in Servers} \ {PORT_INVALID}

\* No port outlives its use, and no capability outlives its port: the valid ports
\* are those of servers and of calls in progress, port_active counts them, and the
\* capabilities in the table are exactly theirs, whatever calls failed.
PortsExact ==
    /\ {port_table[i].id : i \in ValidPorts} = ReplyPorts \cup ServicePorts
    /\ Cardinality(ValidPorts) = Cardinality(ReplyPorts \cup ServicePorts)
    /\ port_active = Cardinality(ValidPorts)
    /\ \A s \in Caps!Live, i \in PortSlots :
         cap_table[s].object = <<"port", i>> =>
             i \in ValidPorts /\ port_table[i].cap = cap_table[s].id
    /\ \A i \in ValidPorts : port_table[i].cap # 0 => port_table[i].cap \in Caps!LiveIds
=============================================================================
