--------------------------- MODULE PrivateMemory ---------------------------
(***************************************************************************)
(* What fork and virtual memory promise to a user program: a memory of its  *)
(* own.  A child starts with a copy of its parent's, and from then on what  *)
(* one process does is never seen by another.                               *)
(***************************************************************************)
CONSTANTS Spaces, Pages, Values, NIL

VARIABLES
    running,    \* processes that exist for the others
    mem         \* process -> page -> its contents, NIL where nothing is mapped

Empty == [p \in Pages |-> NIL]

Init == \E s \in Spaces : running = {s} /\ mem = [t \in Spaces |-> Empty]

Create(s) ==
    /\ s \notin running
    /\ running' = running \cup {s}
    /\ mem' = [mem EXCEPT ![s] = Empty]

Fork(s, child) ==
    /\ s \in running /\ child \notin running
    /\ running' = running \cup {child}
    /\ mem' = [mem EXCEPT ![child] = mem[s]]

Exit(s) ==
    /\ s \in running
    /\ running' = running \ {s}
    /\ mem' = [mem EXCEPT ![s] = Empty]

Exec(s) ==
    /\ s \in running
    /\ mem' = [mem EXCEPT ![s] = Empty]
    /\ UNCHANGED running

\* A new page: its first contents are whatever the system provides.
Map(s, p, v) ==
    /\ s \in running
    /\ mem' = [mem EXCEPT ![s][p] = v]
    /\ UNCHANGED running

Unmap(s, p) ==
    /\ s \in running
    /\ mem' = [mem EXCEPT ![s][p] = NIL]
    /\ UNCHANGED running

Write(s, p, v) ==
    /\ s \in running /\ mem[s][p] # NIL
    /\ mem' = [mem EXCEPT ![s][p] = v]
    /\ UNCHANGED running

Next ==
    \E s \in Spaces :
        \/ Create(s) \/ Exit(s) \/ Exec(s)
        \/ \E child \in Spaces : Fork(s, child)
        \/ \E p \in Pages : \/ Unmap(s, p)
                            \/ \E v \in Values : Map(s, p, v) \/ Write(s, p, v)

Spec == Init /\ [][Next]_<<running, mem>>
=============================================================================
