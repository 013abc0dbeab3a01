----------------------------- MODULE MCProcesses -----------------------------
(***************************************************************************)
(* What processes share, for TLC: their address spaces (AddressSpace) and  *)
(* the ports and services they call each other through (Svcbus).  The two  *)
(* share no state, so each behaviour takes the steps of one of them and    *)
(* the states of the two add up.  Nothing orders the processes of either,  *)
(* so they may be exchanged for one another.                               *)
(***************************************************************************)
EXTENDS AddressSpace, Svcbus, TLC

VARIABLE part

Symmetry == Permutations(Spaces) \cup Permutations(Clients)

MCObjects == ({"port"} \X PortSlots) \cup ({"service"} \X SvcSlots)

\* Bounds on the memory: three spaces where the kernel holds one frame (part "memory"),
\* or two with every frame (part "pair").
Two == Cardinality({s \in Spaces : call[s] # Unused}) <= 2

\* Bounds on the messages: services that come and go, with few ports and messages (part
\* "services"), or calls, their late and their lost replies, of one service that stays
\* (part "calls").
Few == msg_seq <= 2 /\ port_next_id <= 4
Stays == svc_count' \in {svc_count, 1} /\ \A t \in Servers : serving[t] \in {PORT_INVALID, serving'[t]}

MCInit ==
    /\ part \in {"memory", "pair", "services", "calls"}
    /\ Init /\ pmm.used = (IF part = "memory" THEN {NFrames} ELSE {})
    /\ BusInit

MCNext ==
    /\ UNCHANGED part
    /\ \/ part = "memory" /\ Next /\ UNCHANGED busvars
       \/ part = "pair" /\ Next /\ Two' /\ UNCHANGED busvars
       \/ part = "services" /\ BusNext /\ Few' /\ UNCHANGED vars
       \/ part = "calls" /\ BusNext /\ Stays /\ UNCHANGED vars

MCSpec == MCInit /\ [][MCNext]_<<vars, busvars, part>>
=============================================================================
