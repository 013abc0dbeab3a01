-------------------------------- MODULE Cap --------------------------------
(***************************************************************************)
(* The capability table of kernel/cap.c: a flat array of slots, tokens      *)
(* handed out by a wrapping counter, derivation with reduced rights,        *)
(* cascading revocation and reference counts that keep a parent alive for   *)
(* as long as something was derived from it.                                *)
(*                                                                          *)
(* An invalid slot is represented by NoCap: every reader of the table tests *)
(* valid first, so what a dead slot still holds is never seen.  The type    *)
(* and the object pointer of a capability are one value of Objects.         *)
(***************************************************************************)
EXTENDS Naturals, FiniteSets

CONSTANTS
    CAP_TABLE_SIZE,  \* number of slots (4096 in cap.h)
    IdSpace,         \* number of values of cap_next_id (2^32)
    MaxLaps,         \* bound: how often cap_next_id may wrap round
    MaxRef,          \* bound: largest ref_count a behaviour may build up
    Rights,          \* the bits of cap_rights_t
    MANAGE, GRANT,   \* the two bits the table itself tests
    Objects, NULL,   \* what a capability may refer to; no object
    Tasks            \* owner_tid values

ASSUME CapConstants ==
    /\ CAP_TABLE_SIZE \in Nat \ {0}
    /\ IdSpace \in Nat /\ IdSpace >= 2
    /\ MaxLaps \in Nat /\ MaxRef \in Nat
    /\ {MANAGE, GRANT} \subseteq Rights
    /\ NULL \notin Objects
    /\ Tasks # {}

Slots == 1 .. CAP_TABLE_SIZE
CAP_INVALID_ID == 0
Ids == 1 .. IdSpace - 1

\* cap_t.  owner_tid is kept because cap_derive copies it to the new capability.
Cap == [id : Ids, rights : SUBSET Rights, object : Objects,
        parent : Ids \cup {CAP_INVALID_ID}, ref_count : Nat,
        owner_tid : Tasks, valid : {TRUE}]

NoCap == [id |-> CAP_INVALID_ID, rights |-> {}, object |-> NULL,
          parent |-> CAP_INVALID_ID, ref_count |-> 0,
          owner_tid |-> CAP_INVALID_ID, valid |-> FALSE]

VARIABLES
    cap_table,         \* slot -> cap_t
    cap_next_id,
    cap_active_count,
    held,              \* ghost: references the clients of a slot have not given back
    lineage,           \* ghost: every token a capability was ever derived through
    revoked,           \* ghost: tokens cap_revoke was called on
    laps               \* ghost: how often cap_next_id has wrapped

vars == <<cap_table, cap_next_id, cap_active_count, held, lineage, revoked, laps>>
ghosts == <<held, lineage, revoked, laps>>

(***************************************************************************)
(* Lookups                                                                  *)
(***************************************************************************)
Live == {s \in Slots : cap_table[s].valid}
LiveIds == {cap_table[s].id : s \in Live}
Children(id) == {s \in Live : cap_table[s].parent = id}

\* cap_get: the first valid slot with this token, as a set of at most one slot.
cap_get(id) ==
    {s \in Live : /\ cap_table[s].id = id
                  /\ \A t \in Live : cap_table[t].id = id => s <= t}

cap_check(id, required) ==
    \E s \in cap_get(id) : required \subseteq cap_table[s].rights

\* _alloc_slot: the first invalid slot, as a set of at most one slot.
alloc_slot == {s \in Slots \ Live : \A t \in Slots \ Live : s <= t}

\* _next_id: hand out cap_next_id and step it, skipping 0 when it wraps.
next_id ==
    LET wraps == cap_next_id + 1 = IdSpace
    IN  /\ wraps => laps < MaxLaps
        /\ cap_next_id' = IF wraps THEN 1 ELSE cap_next_id + 1
        /\ laps' = IF wraps THEN laps + 1 ELSE laps

(***************************************************************************)
(* cap_release calls itself on the parent of every slot it frees, and       *)
(* cap_revoke calls itself on every child of the capability it kills.  Each *)
(* recursion visits the least set closed under its own step.                *)
(***************************************************************************)
\* Mutant of ReleaseStep: the parent is freed one reference late.
ReleaseStep_late(s, p) ==
    /\ p \in cap_get(cap_table[s].parent)
    /\ cap_table[p].ref_count < 1

ReleaseStep(s, p) ==
    /\ p \in cap_get(cap_table[s].parent)
    /\ cap_table[p].ref_count <= 1

RevokeStep(s, c) == c \in Children(cap_table[s].id)

ReleaseChain(s) ==
    {t \in Slots : \A X \in SUBSET Slots :
        (s \in X /\ \A u \in X, p \in Slots : ReleaseStep(u, p) => p \in X) => t \in X}

\* Mutant of Cascade: the children are killed, their own children forgotten.
Cascade_one_level(s) == {s} \cup Children(cap_table[s].id)

Cascade(s) ==
    {t \in Slots : \A X \in SUBSET Slots :
        (s \in X /\ \A u \in X, c \in Slots : RevokeStep(u, c) => c \in X) => t \in X}

\* Mutant of Dropped: a freed capability does not give back its parent's reference.
Dropped_no_release(dead, freed) ==
    [s \in Slots |-> IF s \in dead \/ s \notin Live THEN NoCap ELSE cap_table[s]]

\* The slots in dead become invalid; a survivor loses one reference for each
\* slot of freed whose parent it is (the calls of cap_release that found it).
Dropped(dead, freed) ==
    [s \in Slots |->
        IF s \in dead \/ s \notin Live THEN NoCap
        ELSE [cap_table[s] EXCEPT !.ref_count =
                 @ - Cardinality(Children(cap_table[s].id) \cap freed)]]

Drop(dead, freed) ==
    /\ cap_table' = Dropped(dead, freed)
    /\ cap_active_count' = cap_active_count - Cardinality(dead)
    /\ held' = [s \in Slots |-> IF s \in dead THEN 0 ELSE held[s]]
    /\ lineage' = [s \in Slots |-> IF s \in dead THEN {} ELSE lineage[s]]

(***************************************************************************)
(* Operations.  A call that fails returns without touching the table, so    *)
(* the error paths are the guards.                                          *)
(***************************************************************************)
\* Mutant of cap_create: the slot number serves as the token.
cap_create_slot_as_id(rights, object, owner) ==
    \E s \in alloc_slot :
        /\ next_id
        /\ cap_table' = [cap_table EXCEPT ![s] =
             [id |-> s, rights |-> rights, object |-> object,
              parent |-> CAP_INVALID_ID, ref_count |-> 1,
              owner_tid |-> owner, valid |-> TRUE]]
        /\ cap_active_count' = cap_active_count + 1
        /\ held' = [held EXCEPT ![s] = 1]
        /\ lineage' = [lineage EXCEPT ![s] = {}]
        /\ UNCHANGED revoked

cap_create(rights, object, owner) ==
    \E s \in alloc_slot :
        /\ next_id
        /\ cap_table' = [cap_table EXCEPT ![s] =
             [id |-> cap_next_id, rights |-> rights, object |-> object,
              parent |-> CAP_INVALID_ID, ref_count |-> 1,
              owner_tid |-> owner, valid |-> TRUE]]
        /\ cap_active_count' = cap_active_count + 1
        /\ held' = [held EXCEPT ![s] = 1]
        /\ lineage' = [lineage EXCEPT ![s] = {}]
        /\ UNCHANGED revoked

cap_derive(parent_id, reduced) ==
    \E p \in cap_get(parent_id), s \in alloc_slot :
        /\ reduced \subseteq cap_table[p].rights
        /\ MANAGE \in cap_table[p].rights
        /\ cap_table[p].ref_count < MaxRef
        /\ next_id
        /\ cap_table' = [cap_table EXCEPT
             ![s] = [id |-> cap_next_id, rights |-> reduced,
                     object |-> cap_table[p].object, parent |-> parent_id,
                     ref_count |-> 1, owner_tid |-> cap_table[p].owner_tid,
                     valid |-> TRUE],
             ![p].ref_count = @ + 1]
        /\ cap_active_count' = cap_active_count + 1
        /\ held' = [held EXCEPT ![s] = 1]
        /\ lineage' = [lineage EXCEPT ![s] = lineage[p] \cup {parent_id}]
        /\ UNCHANGED revoked

cap_revoke(id) ==
    \E s \in cap_get(id) :
        /\ Drop(Cascade(s) \cup ReleaseChain(s), ReleaseChain(s))
        /\ revoked' = revoked \cup {id}
        /\ UNCHANGED <<cap_next_id, laps>>

cap_addref(id) ==
    \E s \in cap_get(id) :
        /\ cap_table[s].ref_count < MaxRef
        /\ cap_table' = [cap_table EXCEPT ![s].ref_count = @ + 1]
        /\ held' = [held EXCEPT ![s] = @ + 1]
        /\ UNCHANGED <<cap_next_id, cap_active_count, lineage, revoked, laps>>

\* A client gives back a reference it still holds, as ipc_port_destroy,
\* svcbus_unregister and the compositor do.
cap_release(id) ==
    \E s \in cap_get(id) :
        /\ held[s] > 0
        /\ \/ /\ cap_table[s].ref_count > 1
              /\ cap_table' = [cap_table EXCEPT ![s].ref_count = @ - 1]
              /\ held' = [held EXCEPT ![s] = @ - 1]
              /\ UNCHANGED <<cap_active_count, lineage>>
           \/ /\ cap_table[s].ref_count <= 1
              /\ Drop(ReleaseChain(s), ReleaseChain(s))
        /\ UNCHANGED <<cap_next_id, revoked, laps>>

cap_transfer(id, new_owner) ==
    \E s \in cap_get(id) :
        /\ GRANT \in cap_table[s].rights
        /\ cap_table' = [cap_table EXCEPT ![s].owner_tid = new_owner]
        /\ UNCHANGED <<cap_next_id, cap_active_count, ghosts>>

Init == \* cap_table_init
    /\ cap_table = [s \in Slots |-> NoCap]
    /\ cap_next_id = 1
    /\ cap_active_count = 0
    /\ held = [s \in Slots |-> 0]
    /\ lineage = [s \in Slots |-> {}]
    /\ revoked = {}
    /\ laps = 0

Next ==
    \/ \E r \in SUBSET Rights, o \in Objects, t \in Tasks : cap_create(r, o, t)
    \/ \E i \in Ids, r \in SUBSET Rights : cap_derive(i, r)
    \/ \E i \in Ids : cap_revoke(i)
    \/ \E i \in Ids : cap_addref(i)
    \/ \E i \in Ids : cap_release(i)
    \/ \E i \in Ids, t \in Tasks : cap_transfer(i, t)

Spec == Init /\ [][Next]_vars

(***************************************************************************)
(* Properties                                                               *)
(***************************************************************************)
TypeOK ==
    /\ cap_table \in [Slots -> Cap \cup {NoCap}]
    /\ cap_next_id \in Ids
    /\ cap_active_count \in Nat
    /\ held \in [Slots -> Nat]
    /\ lineage \in [Slots -> SUBSET Ids]
    /\ revoked \subseteq Ids
    /\ laps \in Nat

\* The counter cap_count() reports is the number of valid slots, through every
\* release that frees a whole chain of parents and every cascading revocation.
CountExact == cap_active_count = Cardinality(Live)

\* "This capability's unique token": no two valid slots answer to one id, so
\* cap_get cannot find a capability other than the one its token was issued for.
UniqueTokens ==
    \A s, t \in Live : cap_table[s].id = cap_table[t].id => s = t

\* A derived capability keeps its parent alive: whatever was released or
\* revoked meanwhile, the parent named by a valid capability is itself valid,
\* refers to the same object and holds at least the derived rights.
ParentAlive ==
    \A s \in Live : cap_table[s].parent # CAP_INVALID_ID =>
        \E p \in Live :
            /\ cap_table[p].id = cap_table[s].parent
            /\ cap_table[s].rights \subseteq cap_table[p].rights
            /\ cap_table[s].object = cap_table[p].object

\* ref_count is exact: the references clients hold plus one per live child.
RefCountExact ==
    \A s \in Live :
        cap_table[s].ref_count = held[s] + Cardinality(Children(cap_table[s].id))

\* "Revoking cap X also revokes every cap derived from X", however long the
\* chain and whatever was released in between: no valid capability descends
\* from a token that was ever revoked.
NoAuthorityFromRevoked ==
    \A s \in Live : (lineage[s] \cup {cap_table[s].id}) \cap revoked = {}

\* A token that was issued and is no longer valid never becomes valid again,
\* so a client that kept a released or revoked id can only be refused.
StaleTokensStayDead ==
    [][\A i \in Ids : (i < cap_next_id /\ i \notin LiveIds) => i \notin LiveIds']_vars

(***************************************************************************)
(* The inductive invariant of CapProofs: before the first wrap every token  *)
(* in use is below cap_next_id, parents are older than what is derived from *)
(* them, and lineage records exactly the path to the root.                  *)
(***************************************************************************)
TokensIssued ==
    /\ laps = 0
    /\ \A s \in Live : cap_table[s].id < cap_next_id
    /\ \A i \in revoked : i < cap_next_id

LineageExact ==
    \A s \in Live :
        /\ cap_table[s].parent = CAP_INVALID_ID => lineage[s] = {}
        /\ \A p \in Live : cap_table[p].id = cap_table[s].parent =>
              /\ cap_table[p].id < cap_table[s].id
              /\ lineage[s] = lineage[p] \cup {cap_table[p].id}

IInv ==
    /\ TypeOK /\ CountExact /\ UniqueTokens /\ ParentAlive /\ RefCountExact
    /\ NoAuthorityFromRevoked /\ TokensIssued /\ LineageExact
=============================================================================
