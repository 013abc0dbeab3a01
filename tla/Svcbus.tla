------------------------------- MODULE Svcbus -------------------------------
(***************************************************************************)
(* The service registry of kernel/svcbus.c, with the ports and capabilities *)
(* it hands out: servers register the port they serve, clients look names   *)
(* up and call.  Destroying a port does not unregister it.                  *)
(***************************************************************************)
EXTENDS Ipc

CONSTANTS
    Names,                 \* service names
    SVCBUS_MAX_SERVICES    \* slots of svc_table (64)

VARIABLES
    svc_table,             \* slot -> svc_entry_t
    svc_count

registry == <<svc_table, svc_count>>
busvars == <<caps, ports, tasks, registry>>

SvcSlots == 1 .. SVCBUS_MAX_SERVICES
Active == {k \in SvcSlots : svc_table[k].active}
Entry(name) == {k \in Active : svc_table[k].name = name}

\* Mutant of Duplicate: only the first slot is looked at.
Duplicate_first_only(name) == \E k \in Entry(name) : k = 1

Duplicate(name) == Entry(name) # {}

svcbus_register(t, name) ==
    /\ serving[t] # PORT_INVALID
    /\ ~Duplicate(name)
    /\ \E k \in SvcSlots \ Active :
         /\ \A j \in SvcSlots \ Active : k <= j
         /\ svc_table' = [svc_table EXCEPT ![k] =
              [active |-> TRUE, name |-> name, port |-> serving[t], owner_tid |-> t,
               cap |-> IF Caps!alloc_slot = {} THEN 0 ELSE cap_next_id]]
         /\ \/ Caps!cap_create(Rights \ {MANAGE}, <<"service", k>>, t)
            \/ Caps!alloc_slot = {} /\ UNCHANGED caps
    /\ svc_count' = svc_count + 1
    /\ UNCHANGED <<ports, tasks>>

\* The ports a client can be given by svcbus_lookup.
svcbus_lookup == {svc_table[k].port : k \in Active}

\* The first entry of that name decides; another task's is left alone.
svcbus_unregister(t, name) ==
    /\ \E k \in Entry(name) :
         /\ \A j \in Entry(name) : k <= j
         /\ svc_table[k].owner_tid = t
         /\ IF svc_table[k].cap # 0 THEN Caps!cap_release(svc_table[k].cap) ELSE UNCHANGED caps
         /\ svc_table' = [svc_table EXCEPT ![k].active = FALSE]
    /\ svc_count' = svc_count - 1
    /\ UNCHANGED <<ports, tasks>>

BusInit == \* svcbus_init
    /\ IpcInit
    /\ svc_table = [k \in SvcSlots |-> [active |-> FALSE, name |-> NULL, port |-> PORT_INVALID,
                                       owner_tid |-> NULL, cap |-> 0]]
    /\ svc_count = 0

BusNext ==
    \/ IpcNext(svcbus_lookup) /\ UNCHANGED registry
    \/ \E t \in Servers, name \in Names : svcbus_register(t, name) \/ svcbus_unregister(t, name)

BusSpec == BusInit /\ [][BusNext]_busvars

(***************************************************************************)
(* Properties                                                               *)
(***************************************************************************)
\* A name leads to one service, svc_count is the number of services, and the
\* service capabilities in the table are exactly those of registered services.
RegistryExact ==
    /\ \A j, k \in Active : svc_table[j].name = svc_table[k].name => j = k
    /\ svc_count = Cardinality(Active)
    /\ \A s \in Caps!Live, k \in SvcSlots :
         cap_table[s].object = <<"service", k>> =>
             k \in Active /\ svc_table[k].cap = cap_table[s].id
    /\ \A k \in Active : svc_table[k].cap # 0 => svc_table[k].cap \in Caps!LiveIds
=============================================================================
