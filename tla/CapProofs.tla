----------------------------- MODULE CapProofs -----------------------------
(***************************************************************************)
(* For a capability table of any size, any rights, objects and tasks: as    *)
(* long as the token counter has not wrapped (MaxLaps = 0), the invariants  *)
(* of Cap hold in every reachable state.                                    *)
(***************************************************************************)
EXTENDS Cap, TLAPS, FiniteSetTheorems, WellFoundedInduction

\* A non-empty set of naturals has a least element.
LEMMA LeastNatural ==
  ASSUME NEW T \in SUBSET Nat, T # {}
  PROVE  \E x \in T : \A y \in T : x <= y
<1> DEFINE R == OpToRel(<, Nat)
<1>1. IsWellFoundedOn(R, Nat)
  BY NatLessThanWellFounded
<1>2. \A y, z \in Nat : y < z => <<y, z>> \in R
  BY DEF OpToRel
<1> HIDE DEF R
<1>3. PICK x \in T : \A y \in T : ~ (<<y, x>> \in R)
  BY <1>1, WFMin
<1>4. \A y \in T : ~ (y < x)
  BY <1>2, <1>3, Zenon
<1>5. \A y \in T : x <= y
  BY <1>4
<1> QED BY <1>5

\* The slots are finite, and so is every set of them.
LEMMA SlotsFinite ==
  /\ IsFiniteSet(Slots)
  /\ \A S \in SUBSET Slots : IsFiniteSet(S) /\ Cardinality(S) \in Nat
<1>1. IsFiniteSet(Slots)
  BY CapConstants, FS_Interval DEF Slots
<1> QED BY <1>1, FS_Subset, FS_CardinalityType

\* What a valid slot holds is a capability.
LEMMA LiveType ==
  ASSUME TypeOK
  PROVE  /\ Live \subseteq Slots
         /\ \A s \in Live : cap_table[s] \in Cap
         /\ \A s \in Slots \ Live : cap_table[s] = NoCap
<1>1. \A c \in Cap : c.valid = TRUE
  BY DEF Cap
<1>2. NoCap.valid = FALSE
  BY DEF NoCap
<1>3. \A s \in Slots : cap_table[s] \in Cap \/ cap_table[s] = NoCap
  BY DEF TypeOK
<1> QED BY <1>1, <1>2, <1>3, Zenon DEF Live

\* Changing a reference count changes nothing else of a capability.
LEMMA RefUpdate ==
  ASSUME NEW c \in Cap, NEW n \in Nat
  PROVE  \A d : d = [c EXCEPT !.ref_count = n] =>
         /\ d \in Cap
         /\ d.ref_count = n
         /\ d.valid = c.valid
         /\ d.id = c.id
         /\ d.parent = c.parent
         /\ d.rights = c.rights
         /\ d.object = c.object
<1> SUFFICES ASSUME NEW d, d = [c EXCEPT !.ref_count = n]
             PROVE  /\ d \in Cap
                    /\ d.ref_count = n
                    /\ d.valid = c.valid
                    /\ d.id = c.id
                    /\ d.parent = c.parent
                    /\ d.rights = c.rights
                    /\ d.object = c.object
  OBVIOUS
<1>1. d \in Cap
  BY DEF Cap
<1>2. d.ref_count = n /\ d.valid = c.valid
  BY DEF Cap
<1>3. d.id = c.id /\ d.parent = c.parent /\ d.rights = c.rights /\ d.object = c.object
  BY DEF Cap
<1> QED BY <1>1, <1>2, <1>3, Zenon

\* cap_addref as an update of one capability.
Referenced(c) == [c EXCEPT !.ref_count = c.ref_count + 1]

LEMMA ReferencedFacts ==
  ASSUME NEW c \in Cap
  PROVE  /\ Referenced(c) \in Cap
         /\ Referenced(c).ref_count = c.ref_count + 1
         /\ Referenced(c).valid = c.valid
         /\ Referenced(c).id = c.id
         /\ Referenced(c).parent = c.parent
         /\ Referenced(c).rights = c.rights
         /\ Referenced(c).object = c.object
<1> DEFINE n == c.ref_count + 1
<1>1. n \in Nat
  BY DEF Cap
<1>2. Referenced(c) = [c EXCEPT !.ref_count = n]
  BY DEF Referenced
<1> HIDE DEF n
<1>3. Referenced(c).ref_count = n
  BY <1>1, <1>2, RefUpdate
<1> QED BY <1>1, <1>2, <1>3, RefUpdate DEF n

\* cap_release's recursion: the chain holds its first slot, is closed under the
\* recursive call, and every other slot of it was reached by such a call.
LEMMA ChainFacts ==
  ASSUME NEW s \in Slots
  PROVE  /\ s \in ReleaseChain(s)
         /\ ReleaseChain(s) \subseteq Slots
         /\ \A u \in ReleaseChain(s), p \in Slots :
               ReleaseStep(u, p) => p \in ReleaseChain(s)
         /\ \A t \in ReleaseChain(s) :
               t = s \/ \E u \in ReleaseChain(s) : ReleaseStep(u, t)
<1> DEFINE C == ReleaseChain(s)
           X == {t \in C : t = s \/ \E u \in C : ReleaseStep(u, t)}
<1>1. s \in C /\ C \subseteq Slots
  BY DEF ReleaseChain
<1>2. ASSUME NEW u \in C, NEW p \in Slots, ReleaseStep(u, p) PROVE p \in C
  BY <1>2 DEF ReleaseChain
<1>3. X \in SUBSET Slots /\ s \in X
  BY <1>1
<1>4. \A u \in X, p \in Slots : ReleaseStep(u, p) => p \in X
  BY <1>2
<1>5. C \subseteq X
  <2> HIDE DEF X
  <2> QED BY <1>3, <1>4 DEF ReleaseChain
<1> QED BY <1>1, <1>2, <1>5

\* cap_revoke's recursion, likewise.
LEMMA CascadeFacts ==
  ASSUME NEW s \in Slots
  PROVE  /\ s \in Cascade(s)
         /\ Cascade(s) \subseteq Slots
         /\ \A u \in Cascade(s), c \in Slots :
               RevokeStep(u, c) => c \in Cascade(s)
         /\ \A t \in Cascade(s) :
               t = s \/ \E u \in Cascade(s) : RevokeStep(u, t)
<1> DEFINE C == Cascade(s)
           X == {t \in C : t = s \/ \E u \in C : RevokeStep(u, t)}
<1>1. s \in C /\ C \subseteq Slots
  BY DEF Cascade
<1>2. ASSUME NEW u \in C, NEW c \in Slots, RevokeStep(u, c) PROVE c \in C
  BY <1>2 DEF Cascade
<1>3. X \in SUBSET Slots /\ s \in X
  BY <1>1
<1>4. \A u \in X, c \in Slots : RevokeStep(u, c) => c \in X
  BY <1>2
<1>5. C \subseteq X
  <2> HIDE DEF X
  <2> QED BY <1>3, <1>4 DEF Cascade
<1> QED BY <1>1, <1>2, <1>5

\* What Drop leaves: the survivors, each with its reference count reduced.
LEMMA DropFrame ==
  ASSUME TypeOK, NEW dead \in SUBSET Live, NEW freed, Drop(dead, freed)
  PROVE  /\ Live' = Live \ dead
         /\ \A s \in Live \ dead :
               /\ cap_table'[s].ref_count = cap_table[s].ref_count
                    - Cardinality(Children(cap_table[s].id) \cap freed)
               /\ cap_table'[s].ref_count \in Nat => cap_table'[s] \in Cap
         /\ \A s \in Live \ dead : held'[s] = held[s] /\ lineage'[s] = lineage[s]
         /\ \A s \in Slots \ Live' : cap_table'[s] = NoCap
         /\ \A s \in Live \ dead :
               /\ cap_table'[s].id = cap_table[s].id
               /\ cap_table'[s].parent = cap_table[s].parent
               /\ cap_table'[s].rights = cap_table[s].rights
               /\ cap_table'[s].object = cap_table[s].object
<1> DEFINE Less(s) == cap_table[s].ref_count
                        - Cardinality(Children(cap_table[s].id) \cap freed)
           New(s) == [cap_table[s] EXCEPT !.ref_count =
                        @ - Cardinality(Children(cap_table[s].id) \cap freed)]
<1>1. Live \subseteq Slots
  BY LiveType
<1>2. \A s \in Live \ dead : cap_table'[s] = New(s)
  BY <1>1 DEF Drop, Dropped
<1>3. \A s \in Slots : s \in dead \/ s \notin Live => cap_table'[s] = NoCap
  BY DEF Drop, Dropped
<1>4. \A s \in Live \ dead : held'[s] = held[s] /\ lineage'[s] = lineage[s]
  BY <1>1 DEF Drop
<1>5. \A s \in Live \ dead :
         /\ cap_table'[s].id = cap_table[s].id
         /\ cap_table'[s].parent = cap_table[s].parent
         /\ cap_table'[s].rights = cap_table[s].rights
         /\ cap_table'[s].object = cap_table[s].object
         /\ cap_table'[s].valid = cap_table[s].valid
  BY <1>2, LiveType DEF Cap
<1>6. NoCap.valid = FALSE
  BY DEF NoCap
<1>7. ASSUME NEW s \in Live \ dead
      PROVE  /\ cap_table'[s].ref_count = Less(s)
             /\ cap_table'[s].ref_count \in Nat => cap_table'[s] \in Cap
  <2>1. cap_table[s] \in Cap
    BY LiveType
  <2>2. cap_table'[s] = [cap_table[s] EXCEPT !.ref_count = Less(s)]
    BY <1>2
  <2> HIDE DEF Less
  <2>3. cap_table'[s].ref_count = Less(s)
    BY <2>1, <2>2 DEF Cap
  <2>4. Less(s) \in Nat => cap_table'[s] \in Cap
    BY <2>1, <2>2 DEF Cap
  <2> QED BY <2>3, <2>4
<1>8. Live' = Live \ dead
  BY <1>1, <1>3, <1>5, <1>6, Zenon DEF Live
<1> QED BY <1>1, <1>3, <1>4, <1>5, <1>7, <1>8

\* Freeing slots keeps the invariant when no survivor loses its parent and the
\* children a survivor loses are exactly the ones that released it.
LEMMA DropInv ==
  ASSUME IInv,
         NEW dead \in SUBSET Live, NEW freed \in SUBSET dead,
         \A p \in dead, c \in Live : cap_table[c].parent = cap_table[p].id => c \in dead,
         \A p \in Live \ dead : Children(cap_table[p].id) \cap dead \subseteq freed,
         Drop(dead, freed), UNCHANGED <<cap_next_id, laps>>,
         revoked' \subseteq Ids, \A i \in revoked' : i < cap_next_id,
         \A s \in Live \ dead : (lineage[s] \cup {cap_table[s].id}) \cap revoked' = {}
  PROVE  IInv'
<1> USE DEF IInv
<1>1. /\ Live \subseteq Slots
      /\ Live' = Live \ dead
      /\ \A s \in Live : cap_table[s] \in Cap
  BY DropFrame, LiveType
<1>2. \A s \in Live' :
         /\ cap_table'[s].id = cap_table[s].id
         /\ cap_table'[s].parent = cap_table[s].parent
         /\ cap_table'[s].rights = cap_table[s].rights
         /\ cap_table'[s].object = cap_table[s].object
         /\ held'[s] = held[s]
         /\ lineage'[s] = lineage[s]
  BY DropFrame, <1>1
<1>3. ASSUME NEW s \in Live'
      PROVE  /\ Children(cap_table[s].id)' = Children(cap_table[s].id) \ freed
             /\ cap_table'[s].ref_count = held[s] + Cardinality(Children(cap_table[s].id)')
             /\ cap_table'[s].ref_count \in Nat
  <2> DEFINE K == Children(cap_table[s].id)
  <2>1. Children(cap_table[s].id)' = K \ freed
    BY <1>1, <1>2, <1>3 DEF Children
  <2>2. K \in SUBSET Slots /\ K \cap freed \in SUBSET Slots /\ K \ freed \in SUBSET Slots
    BY <1>1 DEF Children
  <2>3. Cardinality(K \ freed) = Cardinality(K) - Cardinality(K \cap freed)
    BY <2>2, SlotsFinite, FS_Difference
  <2>4. Cardinality(K) \in Nat /\ Cardinality(K \cap freed) \in Nat /\ Cardinality(K \ freed) \in Nat
    BY <2>2, SlotsFinite
  <2>5. cap_table'[s].ref_count = cap_table[s].ref_count - Cardinality(K \cap freed)
    BY <1>1, <1>3, DropFrame
  <2>6. cap_table[s].ref_count = held[s] + Cardinality(K) /\ held[s] \in Nat
    BY <1>1, <1>3 DEF RefCountExact, TypeOK
  <2> QED BY <2>1, <2>3, <2>4, <2>5, <2>6
<1>4. CountExact' /\ cap_active_count' \in Nat
  <2>1. Cardinality(Live \ dead) = Cardinality(Live) - Cardinality(Live \cap dead)
    BY <1>1, SlotsFinite, FS_Difference
  <2>2. Live \cap dead = dead
    OBVIOUS
  <2>3. Cardinality(Live \ dead) \in Nat
    BY <1>1, SlotsFinite
  <2> QED BY <1>1, <2>1, <2>2, <2>3 DEF CountExact, Drop
<1>5. cap_table' \in [Slots -> Cap \cup {NoCap}]
  <2>1. \A s \in Live' : cap_table'[s] \in Cap
    BY <1>1, <1>3, DropFrame
  <2>2. \A s \in Slots \ Live' : cap_table'[s] = NoCap
    BY DropFrame
  <2>3. cap_table' = [s \in Slots |-> cap_table'[s]]
    BY DEF Drop, Dropped
  <2> QED BY <2>1, <2>2, <2>3
<1>6. TypeOK'
  BY <1>4, <1>5 DEF TypeOK, Drop
<1>7. UniqueTokens'
  BY <1>1, <1>2 DEF UniqueTokens
<1>8. ParentAlive'
  <2> SUFFICES ASSUME NEW s \in Live', cap_table'[s].parent # CAP_INVALID_ID
               PROVE  \E p \in Live' :
                        /\ cap_table'[p].id = cap_table'[s].parent
                        /\ cap_table'[s].rights \subseteq cap_table'[p].rights
                        /\ cap_table'[s].object = cap_table'[p].object
    BY DEF ParentAlive
  <2>1. PICK p \in Live :
           /\ cap_table[p].id = cap_table[s].parent
           /\ cap_table[s].rights \subseteq cap_table[p].rights
           /\ cap_table[s].object = cap_table[p].object
    BY <1>1, <1>2 DEF ParentAlive
  <2>2. p \in Live'
    BY <1>1, <2>1
  <2> QED BY <1>2, <2>1, <2>2
<1>9. RefCountExact'
  BY <1>2, <1>3 DEF RefCountExact
<1>10. NoAuthorityFromRevoked'
  BY <1>1, <1>2 DEF NoAuthorityFromRevoked
<1>11. TokensIssued'
  BY <1>1, <1>2 DEF TokensIssued
<1>12. LineageExact'
  BY <1>1, <1>2 DEF LineageExact
<1> QED BY <1>4, <1>6, <1>7, <1>8, <1>9, <1>10, <1>11, <1>12

\* cap_release frees a parent only when its one remaining reference was the
\* child just freed, so the chain takes no other capability's parent with it.
LEMMA ChainTakesLastChild ==
  ASSUME IInv, NEW s \in Live
  PROVE  /\ ReleaseChain(s) \subseteq Live
         /\ \A p \in ReleaseChain(s) :
               p = s \/ Children(cap_table[p].id) \subseteq ReleaseChain(s)
<1> DEFINE C == ReleaseChain(s)
<1>1. Live \subseteq Slots /\ \A t \in Live : cap_table[t] \in Cap
  BY LiveType DEF IInv
<1>2. C \subseteq Live
  BY <1>1, ChainFacts DEF ReleaseStep, cap_get
<1>3. ASSUME NEW p \in C, p # s PROVE Children(cap_table[p].id) \subseteq C
  <2> DEFINE K == Children(cap_table[p].id)
  <2>1. PICK u \in C : ReleaseStep(u, p)
    BY <1>1, <1>3, ChainFacts
  <2>2. u \in K /\ K \in SUBSET Slots
    BY <1>1, <1>2, <2>1 DEF ReleaseStep, cap_get, Children
  <2>3. IsFiniteSet(K) /\ Cardinality(K) \in Nat
    BY <2>2, SlotsFinite
  <2>4. cap_table[p].ref_count <= 1
    BY <2>1 DEF ReleaseStep
  <2>5. cap_table[p].ref_count = held[p] + Cardinality(K) /\ held[p] \in Nat
    BY <1>1, <1>2 DEF IInv, RefCountExact, TypeOK
  <2>6. Cardinality(K) # 0
    BY <2>2, <2>3, FS_EmptySet
  <2>7. Cardinality(K) = 1
    BY <2>3, <2>4, <2>5, <2>6
  <2>8. \E x : K = {x}
    BY <2>3, <2>7, FS_Singleton
  <2> QED BY <2>2, <2>8
<1> QED BY <1>2, <1>3

\* The cascade of cap_revoke reaches every capability derived from the revoked
\* one, through however many generations.
LEMMA CascadeReachesDescendants ==
  ASSUME IInv, NEW s \in Live, NEW t \in Live, cap_table[s].id \in lineage[t]
  PROVE  t \in Cascade(s)
<1> DEFINE Missed == {u \in Live : cap_table[s].id \in lineage[u] /\ u \notin Cascade(s)}
           T == {cap_table[u].id : u \in Missed}
<1>1. Live \subseteq Slots /\ \A u \in Live : cap_table[u] \in Cap
  BY LiveType DEF IInv
<1>2. \A u \in Live : cap_table[u].id \in Nat
  <2>1. \A c \in Cap : c.id \in Ids
    BY DEF Cap
  <2>2. Ids \subseteq Nat
    BY CapConstants DEF Ids
  <2> QED BY <1>1, <2>1, <2>2
<1>3. SUFFICES ASSUME t \notin Cascade(s) PROVE FALSE
  OBVIOUS
<1>4. T \in SUBSET Nat /\ T # {}
  BY <1>2, <1>3
<1>5. PICK x \in T : \A y \in T : x <= y
  <2> HIDE DEF T
  <2> QED BY <1>4, LeastNatural
<1>6. PICK u \in Missed : cap_table[u].id = x
  BY <1>5
<1>7. u \in Live /\ cap_table[s].id \in lineage[u] /\ u \notin Cascade(s)
  BY <1>6
<1>8. cap_table[u].parent # CAP_INVALID_ID
  BY <1>7 DEF IInv, LineageExact
<1>9. PICK p \in Live : cap_table[p].id = cap_table[u].parent
  BY <1>7, <1>8 DEF IInv, ParentAlive
<1>10. /\ cap_table[p].id < cap_table[u].id
       /\ lineage[u] = lineage[p] \cup {cap_table[p].id}
  BY <1>7, <1>9 DEF IInv, LineageExact
<1>11. RevokeStep(p, u)
  BY <1>7, <1>9 DEF RevokeStep, Children
<1>12. p \notin Cascade(s)
  BY <1>1, <1>7, <1>11, CascadeFacts
<1>13. CASE cap_table[s].id \in lineage[p]
  <2>1. p \in Missed
    BY <1>12, <1>13
  <2>2. cap_table[p].id \in T
    BY <2>1
  <2>3. x <= cap_table[p].id
    BY <1>5, <2>2
  <2> QED BY <1>2, <1>6, <1>7, <1>10, <2>3
<1>14. CASE cap_table[s].id = cap_table[p].id
  <2>1. p = s
    BY <1>14 DEF IInv, UniqueTokens
  <2> QED BY <1>1, <1>12, <2>1, CascadeFacts
<1> QED BY <1>7, <1>10, <1>13, <1>14

\* Both recursions stay inside the live slots, and a slot the cascade took but
\* the chain did not has its parent in the cascade.
LEMMA CascadeLive ==
  ASSUME IInv, NEW s \in Live
  PROVE  /\ Cascade(s) \subseteq Live
         /\ \A p \in Live, c \in Cascade(s) :
               cap_table[c].parent = cap_table[p].id => c = s \/ p \in Cascade(s)
<1>1. Live \subseteq Slots
  BY LiveType DEF IInv
<1>2. Cascade(s) \subseteq Live
  BY <1>1, CascadeFacts DEF RevokeStep, Children
<1>3. ASSUME NEW p \in Live, NEW c \in Cascade(s), c # s,
             cap_table[c].parent = cap_table[p].id
      PROVE  p \in Cascade(s)
  <2>1. PICK u \in Cascade(s) : RevokeStep(u, c)
    BY <1>1, <1>3, CascadeFacts
  <2>2. cap_table[u].id = cap_table[p].id
    BY <1>3, <2>1 DEF RevokeStep, Children
  <2>3. u = p
    BY <1>2, <2>2 DEF IInv, UniqueTokens
  <2> QED BY <2>3
<1> QED BY <1>2, <1>3

\* Moving the reference count of one live slot together with what its clients
\* hold of it keeps the invariant.
LEMMA RecountInv ==
  ASSUME IInv, NEW s \in Live, NEW n \in Nat,
         cap_table' = [cap_table EXCEPT ![s].ref_count = n],
         held' \in [Slots -> Nat],
         n - held'[s] = cap_table[s].ref_count - held[s],
         \A t \in Slots : t # s => held'[t] = held[t],
         UNCHANGED <<cap_active_count, cap_next_id, lineage, revoked, laps>>
  PROVE  IInv'
<1> USE DEF IInv
<1>1. Live \subseteq Slots /\ \A t \in Live : cap_table[t] \in Cap
  BY LiveType
<1>2. \A t \in Slots : t # s => cap_table'[t] = cap_table[t]
  BY DEF TypeOK
<1>3. cap_table'[s] = [cap_table[s] EXCEPT !.ref_count = n]
  BY <1>1 DEF TypeOK
<1>4. /\ cap_table'[s] \in Cap
      /\ cap_table'[s].ref_count = n
      /\ cap_table'[s].valid = cap_table[s].valid
      /\ cap_table'[s].id = cap_table[s].id
      /\ cap_table'[s].parent = cap_table[s].parent
      /\ cap_table'[s].rights = cap_table[s].rights
      /\ cap_table'[s].object = cap_table[s].object
  <2>1. cap_table[s] \in Cap
    BY <1>1
  <2> QED BY <1>3, <2>1, RefUpdate
<1>5. Live' = Live
  BY <1>1, <1>2, <1>4, Zenon DEF Live
<1>6. \A t \in Live :
         /\ cap_table'[t].id = cap_table[t].id
         /\ cap_table'[t].parent = cap_table[t].parent
         /\ cap_table'[t].rights = cap_table[t].rights
         /\ cap_table'[t].object = cap_table[t].object
  BY <1>1, <1>2, <1>4
<1>7. TypeOK'
  <2>1. cap_table' \in [Slots -> Cap \cup {NoCap}]
    BY <1>1, <1>2, <1>4 DEF TypeOK
  <2> QED BY <2>1 DEF TypeOK
<1>8. RefCountExact'
  <2> SUFFICES ASSUME NEW t \in Live
               PROVE  cap_table'[t].ref_count
                        = held'[t] + Cardinality(Children(cap_table[t].id)')
    BY <1>5 DEF RefCountExact
  <2>1. Children(cap_table[t].id)' = Children(cap_table[t].id)
    BY <1>5, <1>6 DEF Children
  <2>2. cap_table[t].ref_count = held[t] + Cardinality(Children(cap_table[t].id))
    BY DEF RefCountExact
  <2>3. Cardinality(Children(cap_table[t].id)) \in Nat
    BY <1>1, SlotsFinite DEF Children
  <2>4. held[t] \in Nat /\ held'[t] \in Nat
    BY <1>1 DEF TypeOK
  <2>5. CASE t = s
    BY <1>4, <2>1, <2>2, <2>3, <2>4, <2>5
  <2>6. CASE t # s
    BY <1>1, <1>2, <2>1, <2>2, <2>6
  <2> QED BY <2>5, <2>6
<1>9. CountExact' /\ UniqueTokens' /\ NoAuthorityFromRevoked' /\ TokensIssued'
  BY <1>5, <1>6 DEF CountExact, UniqueTokens, NoAuthorityFromRevoked, TokensIssued
<1>10. ParentAlive'
  BY <1>5, <1>6 DEF ParentAlive
<1>11. LineageExact'
  BY <1>5, <1>6 DEF LineageExact
<1> QED BY <1>7, <1>8, <1>9, <1>10, <1>11

\* cap_revoke keeps the invariant.
LEMMA RevokeInv ==
  ASSUME IInv, NEW i \in Ids, cap_revoke(i)
  PROVE  IInv'
<1>1. PICK s \in cap_get(i) :
         /\ Drop(Cascade(s) \cup ReleaseChain(s), ReleaseChain(s))
         /\ revoked' = revoked \cup {i}
         /\ UNCHANGED <<cap_next_id, laps>>
  BY DEF cap_revoke
<1> DEFINE C == ReleaseChain(s)
           D == Cascade(s) \cup C
<1>2. s \in Live /\ cap_table[s].id = i
  BY <1>1 DEF cap_get
<1>3. Live \subseteq Slots
  BY LiveType DEF IInv
<1>4. D \in SUBSET Live /\ C \in SUBSET D /\ s \in Cascade(s) /\ s \in C
  BY <1>2, <1>3, ChainTakesLastChild, CascadeLive, CascadeFacts, ChainFacts
<1>5. ASSUME NEW p \in D, NEW c \in Live, cap_table[c].parent = cap_table[p].id
      PROVE  c \in D
  <2>1. CASE p \in Cascade(s)
    BY <1>2, <1>3, <1>5, <2>1, CascadeFacts DEF RevokeStep, Children
  <2>2. CASE p \in C
    <3>1. c \in Children(cap_table[p].id)
      BY <1>5 DEF Children
    <3> QED BY <1>2, <1>4, <2>1, <2>2, <3>1, ChainTakesLastChild
  <2> QED BY <2>1, <2>2
<1>6. ASSUME NEW p \in Live \ D
      PROVE  Children(cap_table[p].id) \cap D \subseteq C
  BY <1>2, <1>4, CascadeLive DEF Children
<1>7. revoked' \subseteq Ids /\ \A j \in revoked' : j < cap_next_id
  BY <1>1, <1>2 DEF IInv, TypeOK, TokensIssued
<1>8. ASSUME NEW t \in Live \ D
      PROVE  (lineage[t] \cup {cap_table[t].id}) \cap revoked' = {}
  <2>1. i \notin lineage[t]
    BY <1>2, <1>8, CascadeReachesDescendants
  <2>2. cap_table[t].id # i
    BY <1>2, <1>4 DEF IInv, UniqueTokens
  <2> QED BY <1>1, <2>1, <2>2 DEF IInv, NoAuthorityFromRevoked
<1> HIDE DEF C, D
<1> QED BY <1>1, <1>4, <1>5, <1>6, <1>7, <1>8, DropInv DEF C, D

\* cap_release keeps the invariant.
LEMMA ReleaseInv ==
  ASSUME IInv, NEW i \in Ids, cap_release(i)
  PROVE  IInv'
<1>1. PICK s \in cap_get(i) :
         /\ held[s] > 0
         /\ \/ /\ cap_table[s].ref_count > 1
               /\ cap_table' = [cap_table EXCEPT ![s].ref_count = @ - 1]
               /\ held' = [held EXCEPT ![s] = @ - 1]
               /\ UNCHANGED <<cap_active_count, lineage>>
            \/ /\ cap_table[s].ref_count <= 1
               /\ Drop(ReleaseChain(s), ReleaseChain(s))
         /\ UNCHANGED <<cap_next_id, revoked, laps>>
  BY DEF cap_release
<1>2. s \in Live /\ Live \subseteq Slots /\ \A t \in Live : cap_table[t] \in Cap
  BY <1>1, LiveType DEF IInv, cap_get
<1>3. held[s] \in Nat /\ cap_table[s].ref_count = held[s] + Cardinality(Children(cap_table[s].id))
  BY <1>2 DEF IInv, TypeOK, RefCountExact
<1>4. Children(cap_table[s].id) \in SUBSET Slots
  BY <1>2 DEF Children
<1>5. CASE /\ cap_table[s].ref_count > 1
           /\ cap_table' = [cap_table EXCEPT ![s].ref_count = @ - 1]
           /\ held' = [held EXCEPT ![s] = @ - 1]
           /\ UNCHANGED <<cap_active_count, lineage>>
  <2>1. held \in [Slots -> Nat]
    BY DEF IInv, TypeOK
  <2>2. /\ held'[s] = held[s] - 1
        /\ held' \in [Slots -> Nat]
        /\ \A t \in Slots : t # s => held'[t] = held[t]
    BY <1>1, <1>2, <1>5, <2>1
  <2>3. cap_table[s].ref_count \in Nat
    BY <1>3, <1>4, SlotsFinite
  <2> DEFINE n == cap_table[s].ref_count - 1
  <2>4. n \in Nat /\ n - held'[s] = cap_table[s].ref_count - held[s]
    BY <1>3, <1>5, <2>2, <2>3
  <2>5. cap_table' = [cap_table EXCEPT ![s].ref_count = n]
    BY <1>5
  <2> HIDE DEF n
  <2> QED BY <1>1, <1>2, <1>5, <2>2, <2>4, <2>5, RecountInv
<1>6. CASE cap_table[s].ref_count <= 1 /\ Drop(ReleaseChain(s), ReleaseChain(s))
  <2> DEFINE C == ReleaseChain(s)
  <2>1. Cardinality(Children(cap_table[s].id)) = 0
    BY <1>1, <1>3, <1>4, <1>6, SlotsFinite
  <2>2. Children(cap_table[s].id) = {}
    BY <1>4, <2>1, SlotsFinite, FS_EmptySet
  <2>3. C \in SUBSET Live
    BY <1>2, ChainTakesLastChild
  <2>4. ASSUME NEW p \in C, NEW c \in Live, cap_table[c].parent = cap_table[p].id
        PROVE  c \in C
    <3>1. c \in Children(cap_table[p].id)
      BY <2>4 DEF Children
    <3> QED BY <1>2, <2>2, <3>1, ChainTakesLastChild
  <2>5. \A p \in Live \ C : Children(cap_table[p].id) \cap C \subseteq C
    OBVIOUS
  <2>6. /\ revoked' \subseteq Ids /\ \A j \in revoked' : j < cap_next_id
        /\ \A t \in Live \ C : (lineage[t] \cup {cap_table[t].id}) \cap revoked' = {}
    BY <1>1 DEF IInv, TypeOK, TokensIssued, NoAuthorityFromRevoked
  <2> HIDE DEF C
  <2> QED BY <1>1, <1>6, <2>3, <2>4, <2>5, <2>6, DropInv DEF C
<1> QED BY <1>1, <1>5, <1>6

\* A free slot s is filled with a capability c under a fresh token.  P holds the
\* slot of its parent, whose reference count goes up, or nothing for a root.
Added(s, c, P) ==
  /\ next_id
  /\ c.id = cap_next_id /\ c.ref_count = 1
  /\ \A t \in Live : c.parent = cap_table[t].id <=> t \in P
  /\ P = {} => c.parent = CAP_INVALID_ID /\ lineage'[s] = {}
  /\ \A p \in P : /\ c.rights \subseteq cap_table[p].rights
                 /\ c.object = cap_table[p].object
                 /\ lineage'[s] = lineage[p] \cup {cap_table[p].id}
  /\ cap_table' = [t \in Slots |-> cap_table'[t]]
  /\ cap_table'[s] = c
  /\ \A t \in P : cap_table'[t] = Referenced(cap_table[t])
  /\ \A t \in Slots \ (P \cup {s}) : cap_table'[t] = cap_table[t]
  /\ cap_active_count' = cap_active_count + 1
  /\ held' = [held EXCEPT ![s] = 1]
  /\ lineage' \in [Slots -> SUBSET Ids]
  /\ \A t \in Slots : t # s => lineage'[t] = lineage[t]
  /\ UNCHANGED revoked

\* Such a step keeps the invariant.
LEMMA AddInv ==
  ASSUME MaxLaps = 0, IInv,
         NEW s \in alloc_slot, NEW c \in Cap, NEW P \in SUBSET Live, Added(s, c, P)
  PROVE  IInv'
<1> USE DEF IInv, Added
<1>1. /\ Live \subseteq Slots /\ s \in Slots /\ s \notin Live /\ s \notin P
      /\ \A t \in Live : cap_table[t] \in Cap
  BY LiveType DEF alloc_slot
<1>2. /\ cap_next_id \in Ids /\ Ids \subseteq Nat /\ CAP_INVALID_ID \notin Ids
      /\ cap_next_id' = cap_next_id + 1 /\ cap_next_id' \in Ids
      /\ laps' = 0
  BY CapConstants DEF TypeOK, TokensIssued, next_id, Ids, CAP_INVALID_ID
<1>3. /\ \A t \in Live : cap_table[t].ref_count \in Nat /\ cap_table[t].id \in Ids
      /\ c.valid = TRUE /\ c.parent \in Ids \cup {CAP_INVALID_ID}
  BY <1>1 DEF Cap
<1>4. cap_table'[s] = c /\ \A t \in Slots \ (P \cup {s}) : cap_table'[t] = cap_table[t]
  OBVIOUS
<1>5. \A t \in P :
         /\ cap_table'[t] \in Cap
         /\ cap_table'[t].ref_count = cap_table[t].ref_count + 1
         /\ cap_table'[t].valid = cap_table[t].valid
         /\ cap_table'[t].id = cap_table[t].id
         /\ cap_table'[t].parent = cap_table[t].parent
         /\ cap_table'[t].rights = cap_table[t].rights
         /\ cap_table'[t].object = cap_table[t].object
  BY <1>1, ReferencedFacts
<1>6. Live' = Live \cup {s}
  <2>1. \A t \in Slots : t # s => cap_table'[t].valid = cap_table[t].valid
    <3>1. \A t \in P : cap_table'[t].valid = cap_table[t].valid
      BY <1>5, Zenon
    <3>2. \A t \in Slots \ (P \cup {s}) : cap_table'[t].valid = cap_table[t].valid
      BY <1>4, Zenon
    <3> QED BY <3>1, <3>2, Zenon
  <2>2. cap_table'[s].valid
    BY <1>3, <1>4, Zenon
  <2> QED BY <1>1, <2>1, <2>2, Zenon DEF Live
<1>7. \A t \in Live :
         /\ cap_table'[t].id = cap_table[t].id
         /\ cap_table'[t].parent = cap_table[t].parent
         /\ cap_table'[t].rights = cap_table[t].rights
         /\ cap_table'[t].object = cap_table[t].object
         /\ lineage'[t] = lineage[t]
         /\ t # s
  BY <1>1, <1>4, <1>5
<1>8. \A t \in Live : cap_table[t].id < cap_next_id /\ cap_table[t].parent # cap_next_id
  <2>1. \A t \in Live : cap_table[t].id < cap_next_id
    BY DEF TokensIssued
  <2>2. \A t \in Live : cap_table[t].parent # CAP_INVALID_ID =>
           \E p \in Live : cap_table[p].id = cap_table[t].parent
    BY DEF ParentAlive
  <2>3. \A t \in Live : cap_table[t].id # cap_next_id
    BY <1>2, <1>3, <2>1
  <2> QED BY <1>2, <2>1, <2>2, <2>3
<1>9. TypeOK'
  <2>1. cap_table' \in [Slots -> Cap \cup {NoCap}]
    BY <1>1, <1>4, <1>5 DEF TypeOK
  <2>2. held' \in [Slots -> Nat]
    BY <1>1 DEF TypeOK
  <2>3. cap_active_count' \in Nat /\ revoked' \subseteq Ids
    BY DEF TypeOK
  <2>4. cap_next_id' \in Ids /\ laps' \in Nat
    BY <1>2
  <2> QED BY <2>1, <2>2, <2>3, <2>4 DEF TypeOK
<1>10. CountExact'
  <2>1. IsFiniteSet(Live)
    BY <1>1, SlotsFinite
  <2>2. Cardinality(Live \cup {s}) = Cardinality(Live) + 1
    BY <1>1, <2>1, FS_AddElement
  <2> QED BY <1>6, <2>2 DEF CountExact
<1>11. UniqueTokens'
  <2>1. \A t \in Live : cap_table'[t].id # cap_table'[s].id
    BY <1>2, <1>3, <1>4, <1>7, <1>8
  <2> QED BY <1>6, <1>7, <2>1 DEF UniqueTokens
<1>12. ParentAlive'
  <2>1. ASSUME NEW t \in Live, cap_table'[t].parent # CAP_INVALID_ID
        PROVE  \E p \in Live' :
                  /\ cap_table'[p].id = cap_table'[t].parent
                  /\ cap_table'[t].rights \subseteq cap_table'[p].rights
                  /\ cap_table'[t].object = cap_table'[p].object
    BY <1>6, <1>7, <2>1 DEF ParentAlive
  <2>2. ASSUME cap_table'[s].parent # CAP_INVALID_ID
        PROVE  \E p \in Live' :
                  /\ cap_table'[p].id = cap_table'[s].parent
                  /\ cap_table'[s].rights \subseteq cap_table'[p].rights
                  /\ cap_table'[s].object = cap_table'[p].object
    BY <1>4, <1>6, <1>7, <2>2
  <2> QED BY <1>6, <2>1, <2>2 DEF ParentAlive
<1>13. RefCountExact'
  <2>1. ASSUME NEW t \in Live
        PROVE  cap_table'[t].ref_count = held'[t] + Cardinality(Children(cap_table[t].id)')
    <3> DEFINE K == Children(cap_table[t].id)
    <3>1. K \in SUBSET Slots /\ s \notin K
      BY <1>1 DEF Children
    <3>2. IsFiniteSet(K) /\ Cardinality(K) \in Nat
      BY <3>1, SlotsFinite
    <3>3. cap_table[t].ref_count = held[t] + Cardinality(K) /\ held[t] \in Nat
      BY <1>1 DEF RefCountExact, TypeOK
    <3>4. held'[t] = held[t]
      BY <1>1, <1>7 DEF TypeOK
    <3>5. CASE t \in P
      <4>1. Children(cap_table[t].id)' = K \cup {s}
        BY <1>4, <1>6, <1>7, <3>5 DEF Children
      <4>2. Cardinality(K \cup {s}) = Cardinality(K) + 1
        BY <3>1, <3>2, FS_AddElement
      <4> QED BY <1>5, <3>2, <3>3, <3>4, <3>5, <4>1, <4>2
    <3>6. CASE t \notin P
      <4>1. Children(cap_table[t].id)' = K
        BY <1>4, <1>6, <1>7, <3>6 DEF Children
      <4> QED BY <1>1, <1>4, <1>7, <3>3, <3>4, <3>6, <4>1
    <3> QED BY <3>5, <3>6
  <2>2. cap_table'[s].ref_count = held'[s] + Cardinality(Children(cap_table[s].id)')
    <3>1. c.parent # cap_next_id
      BY <1>2, <1>3, <1>8
    <3>2. Children(cap_table[s].id)' = {}
      BY <1>4, <1>6, <1>7, <1>8, <3>1 DEF Children
    <3>3. held'[s] = 1
      BY <1>1 DEF TypeOK
    <3>4. cap_table'[s].ref_count = 1
      BY <1>4
    <3>5. Cardinality(Children(cap_table[s].id)') = 0
      BY <3>2, FS_EmptySet, Zenon
    <3> QED BY <3>3, <3>4, <3>5
  <2> QED BY <1>6, <2>1, <2>2 DEF RefCountExact
<1>14. NoAuthorityFromRevoked'
  <2>1. \A t \in Live : (lineage'[t] \cup {cap_table'[t].id}) \cap revoked = {}
    BY <1>7 DEF NoAuthorityFromRevoked
  <2>2. cap_next_id \notin revoked
    BY <1>2 DEF TokensIssued, TypeOK
  <2>3. lineage'[s] \cap revoked = {}
    BY DEF NoAuthorityFromRevoked
  <2>4. (lineage'[s] \cup {cap_table'[s].id}) \cap revoked = {}
    BY <1>4, <2>2, <2>3
  <2> QED BY <1>6, <2>1, <2>4 DEF NoAuthorityFromRevoked
<1>15. TokensIssued'
  <2>1. \A t \in Live' : cap_table'[t].id < cap_next_id'
    BY <1>2, <1>3, <1>4, <1>6, <1>7, <1>8
  <2>2. \A i \in revoked : i < cap_next_id'
    BY <1>2 DEF TokensIssued, TypeOK
  <2> QED BY <1>2, <2>1, <2>2 DEF TokensIssued
<1>16. LineageExact'
  <2>1. ASSUME NEW t \in Live, NEW p \in Live', cap_table'[p].id = cap_table'[t].parent
        PROVE  /\ cap_table'[p].id < cap_table'[t].id
               /\ lineage'[t] = lineage'[p] \cup {cap_table'[p].id}
    <3>1. p \in Live
      BY <1>4, <1>6, <1>7, <1>8, <2>1
    <3> QED BY <1>7, <2>1, <3>1 DEF LineageExact
  <2>2. \A t \in Live : cap_table'[t].parent = CAP_INVALID_ID => lineage'[t] = {}
    BY <1>7 DEF LineageExact
  <2>3. ASSUME NEW p \in Live', cap_table'[p].id = cap_table'[s].parent
        PROVE  /\ cap_table'[p].id < cap_table'[s].id
               /\ lineage'[s] = lineage'[p] \cup {cap_table'[p].id}
    <3>1. p \in P
      BY <1>2, <1>3, <1>4, <1>6, <1>7, <1>8, <2>3
    <3> QED BY <1>4, <1>7, <1>8, <3>1
  <2>4. cap_table'[s].parent = CAP_INVALID_ID => lineage'[s] = {}
    BY <1>2, <1>3, <1>4
  <2> QED BY <1>6, <2>1, <2>2, <2>3, <2>4 DEF LineageExact
<1> QED BY <1>9, <1>10, <1>11, <1>12, <1>13, <1>14, <1>15, <1>16

\* cap_create keeps the invariant.
LEMMA CreateInv ==
  ASSUME MaxLaps = 0, IInv,
         NEW r \in SUBSET Rights, NEW o \in Objects, NEW t \in Tasks,
         cap_create(r, o, t)
  PROVE  IInv'
<1> DEFINE c == [id |-> cap_next_id, rights |-> r, object |-> o,
                 parent |-> CAP_INVALID_ID, ref_count |-> 1,
                 owner_tid |-> t, valid |-> TRUE]
<1>1. PICK s \in alloc_slot :
         /\ next_id
         /\ cap_table' = [cap_table EXCEPT ![s] = c]
         /\ cap_active_count' = cap_active_count + 1
         /\ held' = [held EXCEPT ![s] = 1]
         /\ lineage' = [lineage EXCEPT ![s] = {}]
         /\ UNCHANGED revoked
  BY DEF cap_create
<1>2. s \in Slots /\ cap_next_id \in Ids
  BY <1>1 DEF alloc_slot, IInv, TypeOK
<1>3. c \in Cap /\ c.id = cap_next_id /\ c.ref_count = 1 /\ c.parent = CAP_INVALID_ID
  BY <1>2 DEF Cap
<1>4. \A u \in Live : CAP_INVALID_ID # cap_table[u].id
  <2>1. \A u \in Live : cap_table[u] \in Cap
    BY LiveType DEF IInv
  <2>2. \A k \in Cap : k.id # CAP_INVALID_ID
    BY CapConstants DEF Cap, Ids, CAP_INVALID_ID
  <2> QED BY <2>1, <2>2
<1> HIDE DEF c
<1>5. /\ cap_table' = [u \in Slots |-> cap_table'[u]]
      /\ cap_table'[s] = c
      /\ \A u \in Slots \ ({} \cup {s}) : cap_table'[u] = cap_table[u]
  BY <1>1, <1>2 DEF IInv, TypeOK
<1>6. /\ lineage' \in [Slots -> SUBSET Ids]
      /\ lineage'[s] = {}
      /\ \A u \in Slots : u # s => lineage'[u] = lineage[u]
  BY <1>1, <1>2 DEF IInv, TypeOK
<1>7. Added(s, c, {})
  BY <1>1, <1>3, <1>4, <1>5, <1>6 DEF Added
<1> QED BY <1>1, <1>3, <1>7, AddInv

\* cap_derive keeps the invariant.
LEMMA DeriveInv ==
  ASSUME MaxLaps = 0, IInv, NEW i \in Ids, NEW r \in SUBSET Rights, cap_derive(i, r)
  PROVE  IInv'
<1>1. PICK p \in cap_get(i), s \in alloc_slot :
        /\ r \subseteq cap_table[p].rights
        /\ next_id
        /\ cap_table' = [cap_table EXCEPT
             ![s] = [id |-> cap_next_id, rights |-> r,
                     object |-> cap_table[p].object, parent |-> i,
                     ref_count |-> 1, owner_tid |-> cap_table[p].owner_tid,
                     valid |-> TRUE],
             ![p].ref_count = @ + 1]
        /\ cap_active_count' = cap_active_count + 1
        /\ held' = [held EXCEPT ![s] = 1]
        /\ lineage' = [lineage EXCEPT ![s] = lineage[p] \cup {i}]
        /\ UNCHANGED revoked
  BY DEF cap_derive
<1> DEFINE c == [id |-> cap_next_id, rights |-> r,
                 object |-> cap_table[p].object, parent |-> i,
                 ref_count |-> 1, owner_tid |-> cap_table[p].owner_tid,
                 valid |-> TRUE]
<1>2. /\ p \in Live /\ cap_table[p].id = i /\ cap_table[p] \in Cap
      /\ s \in Slots /\ p \in Slots /\ s # p /\ cap_next_id \in Ids
  BY <1>1, LiveType DEF cap_get, alloc_slot, IInv, TypeOK
<1>3. c \in Cap /\ c.id = cap_next_id /\ c.ref_count = 1 /\ c.parent = i
      /\ c.rights = r /\ c.object = cap_table[p].object
  BY <1>2 DEF Cap
<1>4. /\ cap_table' = [u \in Slots |-> cap_table'[u]]
      /\ cap_table'[s] = c
      /\ cap_table'[p] = Referenced(cap_table[p])
      /\ \A u \in Slots \ ({p} \cup {s}) : cap_table'[u] = cap_table[u]
  BY <1>1, <1>2 DEF IInv, TypeOK, Referenced
<1> HIDE DEF c
<1>5. /\ lineage' \in [Slots -> SUBSET Ids]
      /\ lineage'[s] = lineage[p] \cup {i}
      /\ \A u \in Slots : u # s => lineage'[u] = lineage[u]
  BY <1>1, <1>2 DEF IInv, TypeOK
<1>6. \A u \in Live : i = cap_table[u].id <=> u \in {p}
  BY <1>2 DEF IInv, UniqueTokens
<1>7. Added(s, c, {p})
  BY <1>1, <1>2, <1>3, <1>4, <1>5, <1>6 DEF Added
<1> QED BY <1>1, <1>2, <1>3, <1>7, AddInv

\* cap_addref keeps the invariant.
LEMMA AddrefInv ==
  ASSUME IInv, NEW i \in Ids, cap_addref(i)
  PROVE  IInv'
<1>1. PICK s \in cap_get(i) :
         /\ cap_table' = [cap_table EXCEPT ![s].ref_count = @ + 1]
         /\ held' = [held EXCEPT ![s] = @ + 1]
         /\ UNCHANGED <<cap_next_id, cap_active_count, lineage, revoked, laps>>
  BY DEF cap_addref
<1>2. s \in Live /\ s \in Slots /\ cap_table[s] \in Cap
  BY <1>1, LiveType DEF IInv, cap_get
<1> DEFINE n == cap_table[s].ref_count + 1
<1>3. held[s] \in Nat /\ cap_table[s].ref_count \in Nat /\ n \in Nat
  BY <1>2 DEF IInv, TypeOK, Cap
<1>4. held' \in [Slots -> Nat] /\ held'[s] = held[s] + 1
      /\ \A t \in Slots : t # s => held'[t] = held[t]
  BY <1>1, <1>2 DEF IInv, TypeOK
<1>5. n - held'[s] = cap_table[s].ref_count - held[s]
  BY <1>3, <1>4
<1>6. cap_table' = [cap_table EXCEPT ![s].ref_count = n]
  BY <1>1
<1> HIDE DEF n
<1> QED BY <1>1, <1>2, <1>3, <1>4, <1>5, <1>6, RecountInv

\* cap_transfer changes an owner and nothing the invariant reads.
LEMMA TransferInv ==
  ASSUME IInv, NEW i \in Ids, NEW o \in Tasks, cap_transfer(i, o)
  PROVE  IInv'
<1> USE DEF IInv
<1>1. PICK s \in cap_get(i) :
         /\ cap_table' = [cap_table EXCEPT ![s].owner_tid = o]
         /\ UNCHANGED <<cap_next_id, cap_active_count, held, lineage, revoked, laps>>
  BY DEF cap_transfer, ghosts
<1>2. s \in Live /\ Live \subseteq Slots /\ cap_table[s] \in Cap
  BY <1>1, LiveType DEF cap_get
<1>3. cap_table'[s] = [cap_table[s] EXCEPT !.owner_tid = o]
      /\ \A t \in Slots : t # s => cap_table'[t] = cap_table[t]
  BY <1>1, <1>2 DEF TypeOK
<1>4. /\ cap_table'[s].valid = cap_table[s].valid
      /\ cap_table'[s].ref_count = cap_table[s].ref_count
  BY <1>2, <1>3 DEF Cap
<1>5. /\ cap_table'[s].id = cap_table[s].id
      /\ cap_table'[s].parent = cap_table[s].parent
      /\ cap_table'[s].rights = cap_table[s].rights
      /\ cap_table'[s].object = cap_table[s].object
  BY <1>2, <1>3 DEF Cap
<1>6. cap_table'[s] \in Cap
  BY <1>2, <1>3 DEF Cap
<1>7. Live' = Live
  BY <1>2, <1>3, <1>4, Zenon DEF Live
<1>8. \A t \in Live :
         /\ cap_table'[t].id = cap_table[t].id
         /\ cap_table'[t].parent = cap_table[t].parent
         /\ cap_table'[t].rights = cap_table[t].rights
         /\ cap_table'[t].object = cap_table[t].object
         /\ cap_table'[t].ref_count = cap_table[t].ref_count
  BY <1>2, <1>3, <1>4, <1>5
<1>9. TypeOK'
  <2>1. cap_table' \in [Slots -> Cap \cup {NoCap}]
    BY <1>1, <1>2, <1>3, <1>6 DEF TypeOK
  <2> QED BY <1>1, <2>1 DEF TypeOK
<1>10. RefCountExact'
  <2>1. \A t \in Live : Children(cap_table[t].id)' = Children(cap_table[t].id)
    BY <1>7, <1>8 DEF Children
  <2> QED BY <1>1, <1>7, <1>8, <2>1 DEF RefCountExact
<1>11. CountExact' /\ UniqueTokens' /\ NoAuthorityFromRevoked' /\ TokensIssued'
  BY <1>1, <1>7, <1>8 DEF CountExact, UniqueTokens, NoAuthorityFromRevoked, TokensIssued
<1>12. ParentAlive'
  BY <1>7, <1>8 DEF ParentAlive
<1>13. LineageExact'
  BY <1>1, <1>7, <1>8 DEF LineageExact
<1> QED BY <1>9, <1>10, <1>11, <1>12, <1>13

\* The empty table satisfies the invariant.
LEMMA InitInv == Init => IInv
<1> SUFFICES ASSUME Init PROVE IInv
  OBVIOUS
<1>1. NoCap.valid = FALSE
  BY DEF NoCap
<1>2. Live = {}
  BY <1>1 DEF Init, Live
<1>3. TypeOK
  BY CapConstants DEF Init, TypeOK, Ids
<1>4. CountExact
  BY <1>2, FS_EmptySet DEF Init, CountExact
<1> QED BY <1>2, <1>3, <1>4 DEF Init, IInv, UniqueTokens, ParentAlive,
           RefCountExact, NoAuthorityFromRevoked, TokensIssued, LineageExact

\* Every operation of the table keeps the invariant.
LEMMA NextInv ==
  ASSUME MaxLaps = 0, IInv, [Next]_vars
  PROVE  IInv'
<1>1. CASE UNCHANGED vars
  BY <1>1 DEF vars, IInv, TypeOK, CountExact, UniqueTokens, ParentAlive, RefCountExact,
     NoAuthorityFromRevoked, TokensIssued, LineageExact, Live, Children
<1>2. ASSUME NEW r \in SUBSET Rights, NEW o \in Objects, NEW t \in Tasks, cap_create(r, o, t)
      PROVE  IInv'
  BY <1>2, CreateInv
<1>3. ASSUME NEW i \in Ids, NEW r \in SUBSET Rights, cap_derive(i, r) PROVE IInv'
  BY <1>3, DeriveInv
<1>4. ASSUME NEW i \in Ids, cap_revoke(i) PROVE IInv'
  BY <1>4, RevokeInv
<1>5. ASSUME NEW i \in Ids, cap_addref(i) PROVE IInv'
  BY <1>5, AddrefInv
<1>6. ASSUME NEW i \in Ids, cap_release(i) PROVE IInv'
  BY <1>6, ReleaseInv
<1>7. ASSUME NEW i \in Ids, NEW t \in Tasks, cap_transfer(i, t) PROVE IInv'
  BY <1>7, TransferInv
<1> QED BY <1>1, <1>2, <1>3, <1>4, <1>5, <1>6, <1>7 DEF Next

\* While the token counter of cap.c has not wrapped, the capability table keeps
\* every invariant of Cap: exact counters, unique tokens, live parents with at
\* least the rights derived from them, and nothing left of what was revoked.
THEOREM CapSafety ==
  ASSUME MaxLaps = 0
  PROVE  Spec => [](/\ TypeOK /\ CountExact /\ UniqueTokens /\ ParentAlive
                    /\ RefCountExact /\ NoAuthorityFromRevoked)
<1>1. Init => IInv
  BY InitInv
<1>2. IInv /\ [Next]_vars => IInv'
  BY NextInv
<1>3. IInv => /\ TypeOK /\ CountExact /\ UniqueTokens /\ ParentAlive
              /\ RefCountExact /\ NoAuthorityFromRevoked
  BY DEF IInv
<1> QED BY <1>1, <1>2, <1>3, PTL DEF Spec

\* The only token a step can bring to life is the one cap_next_id holds.
LEMMA OnlyNextIdAppears ==
  ASSUME IInv, [Next]_vars
  PROVE  \A t \in Live' : \/ cap_table'[t].id = cap_next_id
                          \/ (t \in Live /\ cap_table'[t].id = cap_table[t].id)
<1> DEFINE Goal == \A t \in Live' :
                \/ cap_table'[t].id = cap_next_id
                \/ (t \in Live /\ cap_table'[t].id = cap_table[t].id)
<1>1. /\ Live \subseteq Slots /\ Live' \subseteq Slots
      /\ \A s \in Live : cap_table[s] \in Cap
      /\ cap_table \in [Slots -> Cap \cup {NoCap}]
  BY LiveType DEF IInv, TypeOK, Live
<1>2. CASE UNCHANGED vars
  BY <1>2 DEF vars, Live
<1>3. ASSUME NEW dead \in SUBSET Live, NEW freed, Drop(dead, freed) PROVE Goal
  BY <1>3, DropFrame DEF IInv
<1>4. ASSUME NEW s \in Live, cap_table'[s].id = cap_table[s].id,
             \A t \in Slots : t # s => cap_table'[t] = cap_table[t]
      PROVE  Goal
  BY <1>1, <1>4 DEF Live
<1>5. ASSUME NEW r \in SUBSET Rights, NEW o \in Objects, NEW k \in Tasks, cap_create(r, o, k)
      PROVE  Goal
  <2>1. PICK s \in alloc_slot : cap_table' = [cap_table EXCEPT ![s] =
             [id |-> cap_next_id, rights |-> r, object |-> o,
              parent |-> CAP_INVALID_ID, ref_count |-> 1,
              owner_tid |-> k, valid |-> TRUE]]
    BY <1>5 DEF cap_create
  <2>2. s \in Slots
    BY DEF alloc_slot
  <2>3. cap_table'[s].id = cap_next_id
    BY <1>1, <2>1, <2>2
  <2>4. \A t \in Slots : t # s => cap_table'[t] = cap_table[t]
    BY <1>1, <2>1
  <2>5. \A t \in Live' : t # s => t \in Live
    BY <1>1, <2>4, Zenon DEF Live
  <2>6. ASSUME NEW t \in Live'
        PROVE  cap_table'[t].id = cap_next_id \/ (t \in Live /\ cap_table'[t].id = cap_table[t].id)
    <3>1. CASE t = s
      BY <2>3, <3>1
    <3>2. CASE t # s
      <4>1. t \in Slots /\ t \in Live
        BY <1>1, <2>5, <3>2
      <4> QED BY <2>4, <3>2, <4>1
    <3> QED BY <3>1, <3>2
  <2> QED BY <2>6
<1>6. ASSUME NEW i \in Ids, NEW r \in SUBSET Rights, cap_derive(i, r) PROVE Goal
  <2>1. PICK p \in cap_get(i), s \in alloc_slot : cap_table' = [cap_table EXCEPT
             ![s] = [id |-> cap_next_id, rights |-> r,
                     object |-> cap_table[p].object, parent |-> i,
                     ref_count |-> 1, owner_tid |-> cap_table[p].owner_tid,
                     valid |-> TRUE],
             ![p].ref_count = @ + 1]
    BY <1>6 DEF cap_derive
  <2>2. s \in Slots /\ p \in Live /\ p \in Slots /\ s # p
    BY <1>1 DEF alloc_slot, cap_get
  <2>3. cap_table'[s].id = cap_next_id
    BY <1>1, <2>1, <2>2
  <2>4. cap_table'[p] = Referenced(cap_table[p])
    BY <1>1, <2>1, <2>2 DEF Referenced
  <2>5. cap_table'[p].id = cap_table[p].id
    BY <1>1, <2>2, <2>4, ReferencedFacts
  <2>6. \A t \in Slots : t # s /\ t # p => cap_table'[t] = cap_table[t]
    BY <1>1, <2>1
  <2>7. \A t \in Live' : t # s => t \in Live
    BY <1>1, <2>2, <2>6, Zenon DEF Live
  <2>8. ASSUME NEW t \in Live'
        PROVE  cap_table'[t].id = cap_next_id \/ (t \in Live /\ cap_table'[t].id = cap_table[t].id)
    <3>1. CASE t = s
      BY <2>3, <3>1
    <3>2. CASE t # s
      <4>1. t \in Slots /\ t \in Live
        BY <1>1, <2>7, <3>2
      <4>2. CASE t = p
        BY <2>5, <4>1, <4>2
      <4>3. CASE t # p
        BY <2>6, <3>2, <4>1, <4>3
      <4> QED BY <4>2, <4>3
    <3> QED BY <3>1, <3>2
  <2> QED BY <2>8
<1>7. ASSUME NEW i \in Ids, cap_revoke(i) PROVE Goal
  BY <1>3, <1>7, ChainTakesLastChild, CascadeLive DEF cap_revoke, cap_get
<1>8. ASSUME NEW s \in Live, NEW n, cap_table' = [cap_table EXCEPT ![s].ref_count = n]
      PROVE  Goal
  <2>1. cap_table'[s] = [cap_table[s] EXCEPT !.ref_count = n]
        /\ \A t \in Slots : t # s => cap_table'[t] = cap_table[t]
    BY <1>1, <1>8
  <2>2. cap_table'[s].id = cap_table[s].id
    BY <1>1, <2>1 DEF Cap
  <2> QED BY <1>4, <2>1, <2>2
<1>9. ASSUME NEW i \in Ids, cap_addref(i) PROVE Goal
  BY <1>8, <1>9 DEF cap_addref, cap_get
<1>10. ASSUME NEW i \in Ids, cap_release(i) PROVE Goal
  BY <1>3, <1>8, <1>10, ChainTakesLastChild DEF cap_release, cap_get
<1>11. ASSUME NEW i \in Ids, NEW k \in Tasks, cap_transfer(i, k) PROVE Goal
  <2>1. PICK s \in cap_get(i) : cap_table' = [cap_table EXCEPT ![s].owner_tid = k]
    BY <1>11 DEF cap_transfer
  <2>2. s \in Live
    BY DEF cap_get
  <2>3. cap_table'[s] = [cap_table[s] EXCEPT !.owner_tid = k]
        /\ \A t \in Slots : t # s => cap_table'[t] = cap_table[t]
    BY <1>1, <2>1, <2>2
  <2>4. cap_table'[s].id = cap_table[s].id
    BY <1>1, <2>2, <2>3 DEF Cap
  <2> QED BY <1>4, <2>2, <2>3, <2>4
<1> QED BY <1>2, <1>5, <1>6, <1>7, <1>9, <1>10, <1>11 DEF Next

\* While the counter has not wrapped, a token that was released or revoked is
\* never issued to another capability: a client's stale id is refused for good.
THEOREM StaleTokens ==
  ASSUME MaxLaps = 0
  PROVE  Spec => StaleTokensStayDead
<1> DEFINE Step == \A i \in Ids : (i < cap_next_id /\ i \notin LiveIds) => i \notin LiveIds'
<1>1. Init => IInv
  BY InitInv
<1>2. IInv /\ [Next]_vars => IInv'
  BY NextInv
<1>3. IInv /\ [Next]_vars => [Step]_vars
  <2> SUFFICES ASSUME IInv, [Next]_vars,
                      NEW i \in Ids, i < cap_next_id, i \notin LiveIds
               PROVE  i \notin LiveIds'
    OBVIOUS
  <2>1. i # cap_next_id
    BY CapConstants DEF IInv, TypeOK, Ids
  <2>2. \A t \in Live' : cap_table'[t].id # i
    BY <2>1, OnlyNextIdAppears DEF LiveIds
  <2> QED BY <2>2 DEF LiveIds
<1> QED BY <1>1, <1>2, <1>3, PTL DEF Spec, StaleTokensStayDead
=============================================================================
