------------------------------- MODULE MCCap -------------------------------
(***************************************************************************)
(* Small instances of Cap, and the recursions of cap_release and cap_revoke *)
(* written out call by call, against which the closed forms of Cap are      *)
(* compared in every reachable state.                                       *)
(***************************************************************************)
EXTENDS Cap, FiniteSetsExt

\* cap_get on an explicit table, 0 for NULL.
FindIn(T, id) ==
    LET hits == {s \in Slots : T[s].valid /\ T[s].id = id}
    IN  IF id = CAP_INVALID_ID \/ hits = {} THEN 0 ELSE Min(hits)

RECURSIVE ReleaseCall(_, _)
ReleaseCall(m, id) ==
    LET s == FindIn(m.table, id)
        freed == [table |-> [m.table EXCEPT ![s] = NoCap], count |-> m.count - 1]
    IN  CASE s = 0 -> m
          [] s # 0 /\ m.table[s].ref_count > 1 ->
                [m EXCEPT !.table[s].ref_count = @ - 1]
          [] OTHER -> ReleaseCall(freed, m.table[s].parent)

RECURSIVE RevokeCall(_, _), RevokeChildren(_, _, _)
RevokeCall(m, id) ==
    LET s == FindIn(m.table, id)
        killed == [table |-> [m.table EXCEPT ![s] = NoCap], count |-> m.count - 1]
    IN  IF s = 0 THEN m
        ELSE RevokeChildren(ReleaseCall(killed, m.table[s].parent), id, 1)
RevokeChildren(m, id, i) ==
    IF i > CAP_TABLE_SIZE THEN m
    ELSE RevokeChildren(IF m.table[i].valid /\ m.table[i].parent = id
                        THEN RevokeCall(m, m.table[i].id) ELSE m, id, i + 1)

Closed(dead, freed) ==
    [table |-> Dropped(dead, freed), count |-> cap_active_count - Cardinality(dead)]

\* In every state, what cap_release and cap_revoke leave of the table and the
\* counter is what the recursive C functions leave, in their order of calls.
RecursionsAgree ==
    \A s \in Live :
        LET now   == [table |-> cap_table, count |-> cap_active_count]
            chain == ReleaseChain(s)
        IN  /\ RevokeCall(now, cap_table[s].id) = Closed(Cascade(s) \cup chain, chain)
            /\ cap_table[s].ref_count <= 1 =>
                 ReleaseCall(now, cap_table[s].id) = Closed(chain, chain)
=============================================================================
