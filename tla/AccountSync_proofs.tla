------------------------ MODULE AccountSync_proofs ------------------------
(***************************************************************************)
(* Proofs about AccountSync, for every set of tokens, pools, statuses and  *)
(* callers and every value of the bounds.                                  *)
(***************************************************************************)
EXTENDS AccountSync, FiniteSetTheorems, TLAPS

-----------------------------------------------------------------------------
(* The store *)

\* A soft-deleted row is a row with the new revision.
LEMMA SoftDeletedRow ==
    ASSUME NEW r \in Row, NEW n \in Nat
    PROVE  /\ SoftDeleted(r, n) \in Row
           /\ SoftDeleted(r, n).rev = n
           /\ SoftDeleted(r, n).state = "deleted"
  BY DEF SoftDeleted, Row

\* A patched row is a row with the new revision, deleted or not as before.
LEMMA PatchedRow ==
    ASSUME NEW r \in Row, NEW n \in Nat,
           NEW p \in Pools \cup {"keep"}, NEW s \in Statuses \cup {"keep"}
    PROVE  /\ Patched(r, p, s, n) \in Row
           /\ Patched(r, p, s, n).rev = n
           /\ Patched(r, p, s, n).state = r.state
  <1> DEFINE pool == IF p = "keep" THEN r.pool ELSE p
             status == IF s = "keep" THEN r.status ELSE s
  <1>1. pool \in Pools /\ status \in Statuses
    BY DEF Row
  <1>2. Patched(r, p, s, n) = [r EXCEPT !.pool = pool, !.status = status, !.rev = n]
    BY DEF Patched
  <1> HIDE DEF pool, status
  <1> QED BY <1>1, <1>2 DEF Row

\* A committed write only moves forward: the rows it changes are stored rows
\* stamped with revisions that did not exist before.
LEMMA WriteEffect ==
    ASSUME RepoTypeOK, RevisionedWrite
    PROVE  /\ RepoTypeOK'
           /\ revision <= revision'
           /\ \A t \in Tokens : \/ rows'[t] = rows[t]
                                \/ /\ Stored(rows'[t])
                                   /\ revision < rows'[t].rev
                                   /\ rows'[t].rev <= revision'
  <1> USE RepositoryAssumption
  <1>1. CASE \E S \in SUBSET Tokens, p \in Pools : UpsertAccounts(S, p)
    BY <1>1 DEF UpsertAccounts, NextRevision, Upserted, RepoTypeOK, Row, Stored
  <1>2. CASE \E S \in SUBSET Tokens, p \in Pools \cup {"keep"}, s \in Statuses \cup {"keep"} :
                PatchAccounts(S, p, s)
    <2> PICK S \in SUBSET Tokens, p \in Pools \cup {"keep"}, s \in Statuses \cup {"keep"} :
                PatchAccounts(S, p, s)
      BY <1>2
    <2>1. /\ revision' = revision + 1
          /\ revision < MaxRevision
          /\ rows' = [t \in Tokens |-> IF t \in S /\ Stored(rows[t])
                                       THEN Patched(rows[t], p, s, revision + 1)
                                       ELSE rows[t]]
      BY DEF PatchAccounts, NextRevision
    <2>2. rows \in [Tokens -> Row] /\ revision + 1 \in 1..MaxRevision
      BY <2>1 DEF RepoTypeOK
    <2> QED BY <2>1, <2>2, PatchedRow DEF RepoTypeOK, Stored
  <1>3. CASE \E S \in SUBSET Tokens : DeleteAccounts(S)
    <2> PICK S \in SUBSET Tokens : DeleteAccounts(S)
      BY <1>3
    <2>1. /\ revision' = revision + 1
          /\ revision < MaxRevision
          /\ rows' = [t \in Tokens |-> IF t \in S /\ rows[t].state = "live"
                                       THEN SoftDeleted(rows[t], revision + 1)
                                       ELSE rows[t]]
      BY DEF DeleteAccounts, NextRevision
    <2>2. rows \in [Tokens -> Row] /\ revision + 1 \in 1..MaxRevision
      BY <2>1 DEF RepoTypeOK
    <2> QED BY <2>1, <2>2, SoftDeletedRow DEF RepoTypeOK, Stored
  <1>4. CASE \E S \in SUBSET Tokens, p \in Pools : ReplacePool(p, S)
    <2> PICK S \in SUBSET Tokens, p \in Pools : ReplacePool(p, S)
      BY <1>4
    <2> DEFINE gone == {t \in Tokens : rows[t].state = "live" /\ rows[t].pool = p}
    <2>1. /\ revision' = revision + 2
          /\ revision + 1 < MaxRevision
          /\ rows' = [t \in Tokens |-> IF t \in S THEN Upserted(p, revision + 2)
                                       ELSE IF t \in gone THEN SoftDeleted(rows[t], revision + 1)
                                       ELSE rows[t]]
      BY DEF ReplacePool
    <2>2. /\ rows \in [Tokens -> Row]
          /\ revision \in Nat /\ revision + 1 \in 1..MaxRevision /\ revision + 2 \in 1..MaxRevision
      BY <2>1 DEF RepoTypeOK
    <2>3. Upserted(p, revision + 2) \in Row
      BY <2>2 DEF Upserted, Row
    <2> HIDE DEF gone
    <2> QED BY <2>1, <2>2, <2>3, SoftDeletedRow DEF RepoTypeOK, Stored, Upserted
  <1>5. CASE \E S \in SUBSET Tokens : ResetExpiredConsoleWindows(S)
    BY <1>5 DEF ResetExpiredConsoleWindows, NextRevision, RepoTypeOK, Row, Stored
  <1> QED BY <1>1, <1>2, <1>3, <1>4, <1>5 DEF RevisionedWrite

-----------------------------------------------------------------------------
(* Types *)

LEMMA FiniteCount ==
    ASSUME NEW S \in SUBSET Tokens
    PROVE  IsFiniteSet(S) /\ Cardinality(S) \in Nat
  BY RepositoryAssumption, FS_Subset, FS_CardinalityType

LEMMA SlotOfType ==
    ASSUME NEW r \in Row, NEW over \in BOOLEAN
    PROVE  SlotOf(r, over) \in Slot
  BY RepositoryAssumption DEF SlotOf, DeriveStatus, Slot, Row

LEMMA AppliedType ==
    ASSUME NEW r \in Row, NEW old \in Slot, NEW over \in BOOLEAN
    PROVE  Applied(r, old, over) \in Slot
  BY SlotOfType DEF Applied, Slot

LEMMA ChangeSetType ==
    ASSUME NEW cs, IsChangeSet(cs)
    PROVE  /\ DOMAIN cs.recs \in SUBSET Tokens
           /\ \A t \in DOMAIN cs.recs : cs.recs[t] \in Row
           /\ cs.next \in Nat
           /\ cs.more \in BOOLEAN
  BY DEF IsChangeSet

LEMMA NoChangesType == IsChangeSet(NoChanges)
  <1>1. [t \in {} |-> {}] \in [{} -> Row]
    OBVIOUS
  <1> QED BY <1>1 DEF NoChanges, IsChangeSet

LEMMA AbsentType == AbsentSlots \in [Tokens -> Slot]
  BY RepositoryAssumption DEF AbsentSlots, Slot

LEMMA InitType == Init => TypeOK
  <1> SUFFICES ASSUME Init PROVE TypeOK
    OBVIOUS
  <1>1. RepoTypeOK
    BY RepositoryAssumption DEF Init, RepoInit, RepoTypeOK, Row
  <1> QED BY <1>1, SyncAssumption, NoChangesType, AbsentType DEF Init, TypeOK

\* Every step keeps the types.
LEMMA StepType == TypeOK /\ [Next]_vars => TypeOK'
  <1> SUFFICES ASSUME TypeOK, [Next]_vars PROVE TypeOK'
    OBVIOUS
  <1> USE SyncAssumption
  <1>1. CASE Write
    <2>1. RepoTypeOK'
      BY <1>1, WriteEffect DEF Write, TypeOK
    <2> QED BY <1>1, <2>1 DEF Write, TypeOK, tableVars, callVars
  <1>2. ASSUME NEW S \in SUBSET Tokens, Purge(S) PROVE TypeOK'
    <2>1. RepoTypeOK'
      BY <1>2 DEF Purge, PurgeDeletedAccounts, TypeOK, RepoTypeOK, Row
    <2> QED BY <1>2, <2>1 DEF Purge, TypeOK, tableVars, callVars
  <1>3. CASE BootRevision
    BY <1>3 DEF BootRevision, TypeOK, RepoTypeOK, repoVars, callVars
  <1>4. CASE BootRows
    <2>1. slot' \in [Tokens -> Slot]
      <3>1. PICK over \in SUBSET Tokens :
               slot' = [t \in Tokens |-> IF rows[t].state = "live"
                                         THEN SlotOf(rows[t], t \in over)
                                         ELSE AbsentSlots[t]]
        BY <1>4 DEF BootRows
      <3>2. ASSUME NEW t \in Tokens
            PROVE  SlotOf(rows[t], t \in over) \in Slot
        <4>1. rows[t] \in Row /\ (t \in over) \in BOOLEAN
          BY DEF TypeOK, RepoTypeOK
        <4> QED BY <4>1, SlotOfType
      <3> QED BY <3>1, <3>2, AbsentType
    <2>2. bucket' \in [Pools -> SUBSET Tokens]
      BY <1>4 DEF BootRows
    <2>3. size' \in Nat
      BY <1>4, FiniteCount DEF BootRows
    <2>4. seenRev' \in [Tokens -> Nat]
      BY <1>4 DEF BootRows, TypeOK, RepoTypeOK, Row
    <2> QED BY <1>4, <2>1, <2>2, <2>3, <2>4 DEF BootRows, TypeOK, RepoTypeOK, repoVars, callVars
  <1>5. CASE Crash
    BY <1>5, AbsentType, NoChangesType DEF Crash, TypeOK, RepoTypeOK, repoVars
  <1>6. ASSUME NEW c \in Callers, SyncBegin(c) PROVE TypeOK'
    BY <1>6 DEF SyncBegin, TypeOK, RepoTypeOK, repoVars, tableVars
  <1>7. ASSUME NEW c \in Callers, ScanRevision(c) PROVE TypeOK'
    BY <1>7 DEF ScanRevision, TypeOK, RepoTypeOK, repoVars, tableVars
  <1>8. ASSUME NEW c \in Callers, ScanRows(c) PROVE TypeOK'
    <2>1. PICK B \in SUBSET Tokens, m \in 0..MaxRevision :
             changes' = [changes EXCEPT ![c] =
                           [recs |-> [t \in B |-> rows[t]],
                            next |-> NextTableRev(Cardinality(B) = BatchLimit, m, scanRev[c]),
                            more |-> (Cardinality(B) = BatchLimit)]]
      BY <1>8 DEF ScanRows
    <2>2. [t \in B |-> rows[t]] \in [B -> Row]
      BY DEF TypeOK, RepoTypeOK
    <2>3. NextTableRev(Cardinality(B) = BatchLimit, m, scanRev[c]) \in Nat
      BY RepositoryAssumption DEF NextTableRev, TypeOK
    <2>4. DOMAIN changes' = Callers /\ \A d \in Callers : IsChangeSet(changes'[d])
      BY <2>1, <2>2, <2>3 DEF TypeOK, IsChangeSet
    <2> QED BY <1>8, <2>4 DEF ScanRows, TypeOK, RepoTypeOK, repoVars, tableVars
  <1>9. ASSUME NEW c \in Callers, ApplyChanges(c) PROVE TypeOK'
    <2> DEFINE recs == changes[c].recs
    <2>1. /\ DOMAIN recs \in SUBSET Tokens
          /\ \A t \in DOMAIN recs : recs[t] \in Row
          /\ changes[c].next \in Nat
      BY ChangeSetType DEF TypeOK
    <2>2. slot' \in [Tokens -> Slot]
      <3>1. PICK over \in SUBSET Tokens :
               slot' = [t \in Tokens |-> IF t \in DOMAIN recs
                                         THEN Applied(recs[t], slot[t], t \in over)
                                         ELSE slot[t]]
        BY <1>9, <2>1 DEF ApplyChanges
      <3>2. ASSUME NEW t \in DOMAIN recs
            PROVE  Applied(recs[t], slot[t], t \in over) \in Slot
        <4>1. recs[t] \in Row /\ slot[t] \in Slot /\ (t \in over) \in BOOLEAN
          BY <2>1 DEF TypeOK
        <4> QED BY <4>1, AppliedType
      <3> QED BY <3>1, <3>2 DEF TypeOK
    <2>3. bucket' \in [Pools -> SUBSET Tokens]
      BY <1>9, <2>1 DEF ApplyChanges, Reindexed, TypeOK
    <2>4. size' \in Nat
      <3>1. /\ {t \in Gone(recs) : Present(t)} \in SUBSET Tokens
            /\ {t \in Kept(recs) : ~Present(t)} \in SUBSET Tokens
        BY <2>1 DEF Gone, Kept
      <3>2. /\ Cardinality({t \in Gone(recs) : Present(t)}) \in Nat
            /\ Cardinality({t \in Kept(recs) : ~Present(t)}) \in Nat
        BY <3>1, FiniteCount
      <3> QED BY <1>9, <3>2 DEF ApplyChanges, Resized, TypeOK
    <2>5. seenRev' \in [Tokens -> Nat]
      BY <1>9, <2>1 DEF ApplyChanges, TypeOK, Row
    <2>6. tableRev' \in Nat
      BY <1>9, <2>1 DEF ApplyChanges, TypeOK
    <2>7. /\ DOMAIN changes' = Callers
          /\ \A d \in Callers : IsChangeSet(changes'[d])
          /\ scanRev' \in [Callers -> Nat]
          /\ pc' \in [Callers -> {"idle", "revision", "rows", "apply"}]
          /\ syncLock' \in Callers \cup {NoCaller}
      BY <1>9, NoChangesType DEF ApplyChanges, TypeOK
    <2> QED BY <1>9, <2>2, <2>3, <2>4, <2>5, <2>6, <2>7
            DEF ApplyChanges, TypeOK, RepoTypeOK, repoVars
  <1>10. ASSUME NEW c \in Callers, ScanFails(c) PROVE TypeOK'
    BY <1>10 DEF ScanFails, TypeOK, RepoTypeOK, repoVars, tableVars
  <1>11. CASE UNCHANGED vars
    BY <1>11 DEF vars, repoVars, tableVars, callVars, TypeOK, RepoTypeOK
  <1> QED BY <1>1, <1>2, <1>3, <1>4, <1>5, <1>6, <1>7, <1>8, <1>9, <1>10, <1>11
          DEF Next, SyncStep

\* The table, the change sets and the store keep their shape, and the size of
\* the table never goes below zero, in every reachable state.
THEOREM TypeCorrect == Spec => []TypeOK
  <1>1. Init => TypeOK
    BY InitType
  <1>2. TypeOK /\ [Next]_vars => TypeOK'
    BY StepType
  <1> QED BY <1>1, <1>2, PTL DEF Spec

-----------------------------------------------------------------------------
(* The selector's buckets *)

LEMMA StepIndex == TypeOK /\ IndexExact /\ [Next]_vars => IndexExact'
  <1> SUFFICES ASSUME TypeOK, IndexExact, [Next]_vars PROVE IndexExact'
    OBVIOUS
  <1>1. CASE BootRows
    BY <1>1 DEF BootRows, IndexExact
  <1>2. CASE Crash
    BY <1>2 DEF Crash, IndexExact, AbsentSlots
  <1>3. ASSUME NEW c \in Callers, ApplyChanges(c) PROVE IndexExact'
    <2> DEFINE recs == changes[c].recs
    <2>1. DOMAIN recs \in SUBSET Tokens
      BY ChangeSetType DEF TypeOK
    <2>2. /\ bucket' = Reindexed(DOMAIN recs, slot')
          /\ \A t \in Tokens \ DOMAIN recs : slot'[t] = slot[t]
      BY <1>3 DEF ApplyChanges
    <2> HIDE DEF recs
    <2> QED BY <2>1, <2>2 DEF Reindexed, IndexExact
  <1>4. CASE UNCHANGED <<slot, bucket>>
    BY <1>4 DEF IndexExact
  <1>5. CASE Write \/ \E S \in SUBSET Tokens : Purge(S)
    BY <1>4, <1>5 DEF Write, Purge, tableVars
  <1>6. CASE BootRevision
    BY <1>4, <1>6 DEF BootRevision
  <1>7. ASSUME NEW c \in Callers, SyncBegin(c) \/ ScanRevision(c) \/ ScanRows(c) \/ ScanFails(c)
        PROVE  IndexExact'
    BY <1>4, <1>7 DEF SyncBegin, ScanRevision, ScanRows, ScanFails, tableVars
  <1>8. CASE UNCHANGED vars
    BY <1>4, <1>8 DEF vars, tableVars
  <1> QED BY <1>1, <1>2, <1>3, <1>5, <1>6, <1>7, <1>8 DEF Next, SyncStep

\* Whatever pools accounts move between and however often they are deleted and
\* imported again, the selector is offered exactly the ACTIVE slots of a pool.
THEOREM IndexAlwaysExact == Spec => []IndexExact
  <1>1. Init => IndexExact
    BY DEF Init, IndexExact, AbsentSlots
  <1>2. TypeOK /\ IndexExact /\ [Next]_vars => IndexExact'
    BY StepIndex
  <1> QED BY <1>1, <1>2, TypeCorrect, PTL DEF Spec

-----------------------------------------------------------------------------
(* No change is lost *)

\* A row applied to a slot is shown by the slot.
LEMMA AppliedReflects ==
    ASSUME NEW t \in Tokens, NEW over \in BOOLEAN, Stored(rows[t]),
           slot[t] \in Slot, slot'[t] = Applied(rows[t], slot[t], over), rows' = rows
    PROVE  Reflects(t)'
  BY DEF Reflects, Applied, Stored, Slot

\* With at most one row per write, all the elements of a bulk are the same.
LEMMA BulkOfOne ==
    ASSUME NEW S \in SUBSET Tokens, Bulk(S), MaxBulk = 1, NEW t \in S, NEW u \in S
    PROVE  t = u
  <1>1. IsFiniteSet(S) /\ Cardinality(S) \in Nat
    BY FiniteCount
  <1>2. Cardinality(S) = 1
    <2>1. Cardinality(S) # 0
      BY <1>1, FS_EmptySet
    <2> QED BY <1>1, <2>1 DEF Bulk
  <1> QED BY <1>1, <1>2, FS_Singleton

\* Single-row writes keep the revisions of stored rows distinct.
LEMMA WriteDistinct ==
    ASSUME RepoTypeOK, RevisionedWrite, RevisionsDistinct,
           \A t \in Tokens : rows[t].rev <= revision
    PROVE  RevisionsDistinct'
  <1> SUFFICES ASSUME MaxBulk = 1, NEW t \in Tokens, NEW u \in Tokens,
                      Stored(rows'[t]), Stored(rows'[u]), rows'[t].rev = rows'[u].rev
               PROVE  t = u
    BY DEF RevisionsDistinct
  <1>1. /\ rows \in [Tokens -> Row] /\ revision \in Nat
        /\ rows[t].rev \in Nat /\ rows[u].rev \in Nat
        /\ rows[t].rev <= revision /\ rows[u].rev <= revision
    BY RepositoryAssumption DEF RepoTypeOK, Row
  <1>2. Stored(rows[t]) /\ Stored(rows[u]) /\ rows[t].rev = rows[u].rev => t = u
    BY DEF RevisionsDistinct
  <1>3. CASE \E S \in SUBSET Tokens, p \in Pools : UpsertAccounts(S, p)
    BY <1>1, <1>2, <1>3, BulkOfOne DEF UpsertAccounts, Upserted
  <1>4. CASE \E S \in SUBSET Tokens, p \in Pools \cup {"keep"}, s \in Statuses \cup {"keep"} :
                PatchAccounts(S, p, s)
    <2> PICK S \in SUBSET Tokens, p \in Pools \cup {"keep"}, s \in Statuses \cup {"keep"} :
                PatchAccounts(S, p, s)
      BY <1>4
    <2>1. /\ Bulk(S)
          /\ rows' = [x \in Tokens |-> IF x \in S /\ Stored(rows[x])
                                       THEN Patched(rows[x], p, s, revision + 1)
                                       ELSE rows[x]]
      BY DEF PatchAccounts
    <2>2. \A x \in Tokens : Patched(rows[x], p, s, revision + 1).rev = revision + 1
      BY <1>1, PatchedRow
    <2> QED BY <1>1, <1>2, <2>1, <2>2, BulkOfOne
  <1>5. CASE \E S \in SUBSET Tokens : DeleteAccounts(S)
    <2> PICK S \in SUBSET Tokens : DeleteAccounts(S)
      BY <1>5
    <2>1. /\ Bulk(S)
          /\ rows' = [x \in Tokens |-> IF x \in S /\ rows[x].state = "live"
                                       THEN SoftDeleted(rows[x], revision + 1)
                                       ELSE rows[x]]
      BY DEF DeleteAccounts
    <2>2. \A x \in Tokens : SoftDeleted(rows[x], revision + 1).rev = revision + 1
      <3>1. revision + 1 \in Nat /\ \A x \in Tokens : rows[x] \in Row
        BY <1>1
      <3> QED BY <3>1, SoftDeletedRow
    <2> QED BY <1>1, <1>2, <2>1, <2>2, BulkOfOne
  <1>6. CASE \E S \in SUBSET Tokens, p \in Pools : ReplacePool(p, S)
    <2> PICK S \in SUBSET Tokens, p \in Pools : ReplacePool(p, S)
      BY <1>6
    <2> DEFINE gone == {x \in Tokens : rows[x].state = "live" /\ rows[x].pool = p}
    <2>1. /\ Bulk(S) /\ Bulk(gone)
          /\ rows' = [x \in Tokens |-> IF x \in S THEN Upserted(p, revision + 2)
                                       ELSE IF x \in gone THEN SoftDeleted(rows[x], revision + 1)
                                       ELSE rows[x]]
      BY DEF ReplacePool
    <2>2. \A x \in Tokens : SoftDeleted(rows[x], revision + 1).rev = revision + 1
      <3>1. revision + 1 \in Nat /\ \A x \in Tokens : rows[x] \in Row
        BY <1>1
      <3> QED BY <3>1, SoftDeletedRow
    <2>3. \A n \in Nat : Upserted(p, n).rev = n
      BY DEF Upserted
    <2>4. gone \in SUBSET Tokens
      OBVIOUS
    <2>5. /\ t \in S /\ u \in S => t = u
          /\ t \in gone /\ u \in gone => t = u
      <3> HIDE DEF gone
      <3> QED BY <2>1, <2>4, BulkOfOne
    <2> HIDE DEF gone
    <2> QED BY <1>1, <1>2, <2>1, <2>2, <2>3, <2>5
  <1>7. CASE \E S \in SUBSET Tokens : ResetExpiredConsoleWindows(S)
    BY <1>1, <1>2, <1>7, BulkOfOne DEF ResetExpiredConsoleWindows, Row, Stored
  <1> QED BY <1>3, <1>4, <1>5, <1>6, <1>7 DEF RevisionedWrite

\* Only the holder of the lock moves, and it lets go when it becomes idle.
LEMMA StepLock == TypeOK /\ LockOK /\ [Next]_vars => LockOK'
  <1> SUFFICES ASSUME TypeOK, LockOK, [Next]_vars PROVE LockOK'
    OBVIOUS
  <1> USE SyncAssumption DEF LockOK, TypeOK
  <1>1. CASE UNCHANGED <<phase, pc, syncLock>>
    BY <1>1
  <1>2. CASE Write \/ (\E S \in SUBSET Tokens : Purge(S)) \/ UNCHANGED vars
    BY <1>1, <1>2 DEF Write, Purge, callVars, vars
  <1>3. CASE BootRevision \/ BootRows
    BY <1>3 DEF BootRevision, BootRows, callVars
  <1>4. CASE Crash
    BY <1>4 DEF Crash
  <1>5. ASSUME NEW c \in Callers, SyncBegin(c) PROVE LockOK'
    BY <1>5 DEF SyncBegin
  <1>6. ASSUME NEW c \in Callers, ScanRevision(c) \/ ScanRows(c) PROVE LockOK'
    BY <1>6 DEF ScanRevision, ScanRows
  <1>7. ASSUME NEW c \in Callers, ApplyChanges(c) PROVE LockOK'
    BY <1>7 DEF ApplyChanges
  <1>8. ASSUME NEW c \in Callers, ScanFails(c) PROVE LockOK'
    BY <1>8 DEF ScanFails
  <1> QED BY <1>2, <1>3, <1>4, <1>5, <1>6, <1>7, <1>8 DEF Next, SyncStep

\* A write only adds revisions beyond everything the worker has seen or scanned.
LEMMA WriteSafe == SyncInv /\ Write => SyncInv'
  <1> SUFFICES ASSUME SyncInv, Write PROVE SyncInv'
    OBVIOUS
  <1>1. /\ RepoTypeOK /\ RepoTypeOK'
        /\ revision <= revision'
        /\ \A t \in Tokens : \/ rows'[t] = rows[t]
                             \/ /\ Stored(rows'[t])
                                /\ revision < rows'[t].rev
                                /\ rows'[t].rev <= revision'
    BY WriteEffect DEF SyncInv, TypeOK, Write
  <1>2. /\ revision \in Nat /\ revision' \in Nat /\ tableRev \in Nat
        /\ \A t \in Tokens : rows[t].rev \in Nat /\ rows'[t].rev \in Nat
        /\ \A c \in Callers : scanRev[c] \in Nat /\ changes[c].next \in Nat
    BY <1>1, ChangeSetType, RepositoryAssumption DEF SyncInv, TypeOK, RepoTypeOK, Row
  <1>3. UNCHANGED <<phase, tableRev, slot, pc, syncLock, scanRev, changes>>
    BY DEF Write, tableVars, callVars
  <1>4. TypeOK' /\ LockOK'
    BY StepType, StepLock DEF SyncInv, Next
  <1>5. RevisionsOK'
    BY <1>1, <1>2, <1>3 DEF SyncInv, RevisionsOK, Stored
  <1>6. RevisionsDistinct'
    BY <1>1, WriteDistinct DEF Write, SyncInv, RevisionsOK
  <1>7. ASSUME NEW t \in Tokens, rows'[t] = rows[t], Reflects(t) PROVE Reflects(t)'
    BY <1>3, <1>7 DEF Reflects
  <1>8. ChangeSetOK'
    <2> SUFFICES ASSUME NEW c \in Callers, pc[c] = "apply"
                 PROVE  /\ changes[c].next <= revision'
                        /\ \A t \in DOMAIN changes[c].recs :
                              /\ Stored(rows'[t]) /\ Stored(changes[c].recs[t])
                              /\ rows'[t].rev > tableRev
                              /\ rows'[t] = changes[c].recs[t] \/ rows'[t].rev > changes[c].next
                        /\ \A t \in Tokens \ DOMAIN changes[c].recs :
                              \/ rows'[t].rev <= tableRev
                              \/ rows'[t].rev > changes[c].next
                              \/ rows'[t].state = "purged"
      BY <1>3 DEF ChangeSetOK, Stored
    <2>1. DOMAIN changes[c].recs \in SUBSET Tokens
      BY ChangeSetType DEF SyncInv, TypeOK
    <2> QED BY <1>1, <1>2, <2>1 DEF SyncInv, ChangeSetOK, RevisionsOK
  <1>9. PurgedSeen'
    BY <1>1, <1>3, <1>7 DEF SyncInv, PurgedSeen, Stored
  <1>10. NoLostChange'
    BY <1>1, <1>2, <1>3, <1>7 DEF SyncInv, NoLostChange, RevisionsOK
  <1> QED BY <1>4, <1>5, <1>6, <1>8, <1>9, <1>10 DEF SyncInv

\* Rows disappear only after the running worker has seen them deleted, so a
\* change set under way never holds one.
LEMMA PurgeSafe ==
    ASSUME RetentionCovers, SyncInv, NEW S \in SUBSET Tokens, Purge(S)
    PROVE  SyncInv'
  <1>1. UNCHANGED <<revision, phase, tableRev, slot, pc, syncLock, scanRev, changes>>
    BY DEF Purge, PurgeDeletedAccounts, tableVars, callVars
  <1>2. /\ \A t \in S : rows[t].state = "deleted" /\ (phase = "up" => rows[t].rev <= tableRev)
        /\ \A t \in Tokens : /\ rows'[t].rev = rows[t].rev
                             /\ t \in S => rows'[t].state = "purged"
                             /\ t \notin S => rows'[t] = rows[t]
    BY DEF Purge, PurgeDeletedAccounts, SyncInv, TypeOK, RepoTypeOK, Row
  <1>3. /\ tableRev \in Nat
        /\ \A t \in Tokens : rows[t].rev \in Nat
    BY DEF SyncInv, TypeOK, RepoTypeOK, Row
  <1>4. TypeOK' /\ LockOK'
    BY StepType, StepLock DEF SyncInv, Next
  <1>5. RevisionsOK'
    BY <1>1, <1>2 DEF SyncInv, RevisionsOK
  <1>6. RevisionsDistinct'
    BY <1>1, <1>2 DEF SyncInv, RevisionsDistinct, Stored
  <1>7. ASSUME NEW t \in Tokens, phase = "up", rows[t].rev <= tableRev PROVE Reflects(t)'
    <2>1. Reflects(t)
      BY <1>7 DEF SyncInv, NoLostChange
    <2> QED BY <1>1, <1>2, <2>1 DEF Reflects
  <1>8. ChangeSetOK'
    <2> SUFFICES ASSUME NEW c \in Callers, pc[c] = "apply"
                 PROVE  /\ changes[c].next <= revision
                        /\ \A t \in DOMAIN changes[c].recs :
                              /\ Stored(rows'[t]) /\ Stored(changes[c].recs[t])
                              /\ rows'[t].rev > tableRev
                              /\ rows'[t] = changes[c].recs[t] \/ rows'[t].rev > changes[c].next
                        /\ \A t \in Tokens \ DOMAIN changes[c].recs :
                              \/ rows'[t].rev <= tableRev
                              \/ rows'[t].rev > changes[c].next
                              \/ rows'[t].state = "purged"
      BY <1>1 DEF ChangeSetOK, Stored
    <2>1. DOMAIN changes[c].recs \in SUBSET Tokens /\ phase = "up"
      BY ChangeSetType DEF SyncInv, TypeOK, LockOK
    <2>2. \A t \in DOMAIN changes[c].recs : t \notin S
      BY <1>2, <1>3, <2>1 DEF SyncInv, ChangeSetOK
    <2> QED BY <1>2, <1>3, <2>1, <2>2 DEF SyncInv, ChangeSetOK
  <1>9. PurgedSeen'
    <2> SUFFICES ASSUME phase = "up", NEW t \in Tokens, rows'[t].state = "purged"
                 PROVE  Reflects(t)'
      BY <1>1 DEF PurgedSeen
    <2>1. CASE t \in S
      BY <1>2, <1>7, <2>1
    <2>2. CASE t \notin S
      BY <1>1, <1>2, <2>2 DEF SyncInv, PurgedSeen, Reflects
    <2> QED BY <2>1, <2>2
  <1>10. NoLostChange'
    BY <1>1, <1>2, <1>7 DEF NoLostChange
  <1> QED BY <1>4, <1>5, <1>6, <1>8, <1>9, <1>10 DEF SyncInv

\* A table built by bootstrap shows every row, whatever was written since the
\* revision was read.
LEMMA BootSafe == SyncInv /\ (BootRevision \/ BootRows \/ Crash) => SyncInv'
  <1> SUFFICES ASSUME SyncInv, BootRevision \/ BootRows \/ Crash PROVE SyncInv'
    OBVIOUS
  <1>1. TypeOK' /\ LockOK'
    BY StepType, StepLock DEF SyncInv, Next
  <1>2. rows' = rows /\ revision' = revision
    BY DEF BootRevision, BootRows, Crash, repoVars
  <1>3. RevisionsDistinct'
    BY <1>2 DEF SyncInv, RevisionsDistinct
  <1>4. RevisionsOK'
    BY <1>2, RepositoryAssumption
       DEF SyncInv, RevisionsOK, TypeOK, RepoTypeOK, BootRevision, BootRows, Crash, callVars
  <1>5. \A c \in Callers : pc'[c] = "idle"
    <2>1. CASE BootRevision \/ BootRows
      BY <2>1 DEF SyncInv, LockOK, TypeOK, BootRevision, BootRows, callVars
    <2>2. CASE Crash
      BY <2>2 DEF Crash
    <2> QED BY <2>1, <2>2
  <1>6. ChangeSetOK'
    BY <1>5 DEF ChangeSetOK
  <1>7. phase' = "up" => \A t \in Tokens : Reflects(t)'
    <2>1. CASE BootRows
      <3>1. PICK over \in SUBSET Tokens :
               slot' = [t \in Tokens |-> IF rows[t].state = "live" THEN SlotOf(rows[t], t \in over)
                                                                  ELSE AbsentSlots[t]]
        BY <2>1 DEF BootRows
      <3> SUFFICES ASSUME NEW t \in Tokens PROVE Reflects(t)'
        OBVIOUS
      <3>2. (t \in over) \in BOOLEAN
        OBVIOUS
      <3>3. CASE rows[t].state = "live"
        BY <1>2, <3>1, <3>2, <3>3 DEF Reflects
      <3>4. CASE rows[t].state # "live"
        BY <1>2, <3>1, <3>4 DEF Reflects, AbsentSlots
      <3> QED BY <3>3, <3>4
    <2>2. CASE BootRevision \/ Crash
      BY <2>2 DEF BootRevision, Crash
    <2> QED BY <2>1, <2>2
  <1> QED BY <1>1, <1>3, <1>4, <1>6, <1>7 DEF SyncInv, PurgedSeen, NoLostChange

\* Taking the lock, reading the global revision and failing change no row and
\* no slot.
LEMMA QuietSafe ==
    ASSUME SyncInv, NEW c \in Callers, SyncBegin(c) \/ ScanRevision(c) \/ ScanFails(c)
    PROVE  SyncInv'
  <1>1. TypeOK' /\ LockOK'
    BY StepType, StepLock DEF SyncInv, Next, SyncStep
  <1>2. UNCHANGED <<rows, revision, phase, tableRev, slot, changes>>
    BY DEF SyncBegin, ScanRevision, ScanFails, repoVars, tableVars
  <1>3. RevisionsDistinct'
    BY <1>2 DEF SyncInv, RevisionsDistinct
  <1>4. RevisionsOK'
    BY <1>2, RepositoryAssumption
       DEF SyncInv, RevisionsOK, TypeOK, RepoTypeOK, SyncBegin, ScanRevision, ScanFails
  <1>5. \A d \in Callers : pc'[d] = "apply" => pc[d] = "apply"
    BY DEF SyncInv, TypeOK, SyncBegin, ScanRevision, ScanFails
  <1>6. ChangeSetOK'
    BY <1>2, <1>5 DEF SyncInv, ChangeSetOK
  <1>7. \A t \in Tokens : Reflects(t)' <=> Reflects(t)
    BY <1>2 DEF Reflects
  <1> QED BY <1>1, <1>2, <1>3, <1>4, <1>6, <1>7 DEF SyncInv, PurgedSeen, NoLostChange

\* What a scan leaves out is not between the table's revision and the one the
\* change set moves it to.
LEMMA BatchComplete ==
    ASSUME SafeBatching, SyncInv,
           NEW B \in SUBSET Tokens, NEW m \in 0..MaxRevision, NEW g \in Nat,
           IsBatch(B, tableRev, BatchLimit), IsBatchMax(m, B),
           NEW t \in Tokens \ B
    PROVE  \/ rows[t].rev <= tableRev
           \/ rows[t].rev > NextTableRev(Cardinality(B) = BatchLimit, m, g)
           \/ rows[t].state = "purged"
  <1> SUFFICES ASSUME rows[t].rev > tableRev, rows[t].state # "purged"
               PROVE  rows[t].rev > NextTableRev(Cardinality(B) = BatchLimit, m, g)
    BY DEF SyncInv, TypeOK, RepoTypeOK, Row
  <1>1. /\ rows[t] \in Row /\ tableRev \in Nat /\ rows[t].rev \in Nat
        /\ \A u \in Tokens : rows[u].rev \in Nat
        /\ rows[t].state = "none" => rows[t].rev = 0
    BY DEF SyncInv, TypeOK, RepoTypeOK, Row, RevisionsOK
  <1>2. t \in ChangedSince(tableRev) \ B
    BY <1>1 DEF ChangedSince, Stored, Row
  <1>3. Cardinality(B) = BatchLimit
    BY <1>2 DEF IsBatch
  <1>4. MaxBulk = 1
    <2>1. Cardinality(B) <= Cardinality(Tokens) /\ Cardinality(Tokens) \in Nat
      BY RepositoryAssumption, FS_Subset, FS_CardinalityType
    <2>2. ~ (Cardinality(Tokens) < BatchLimit)
      BY <1>3, <2>1, SyncAssumption
    <2> QED BY <2>2 DEF SafeBatching
  <1>5. B # {}
    BY <1>3, SyncAssumption, FS_EmptySet
  <1>6. PICK b \in B : rows[b].rev = m
    BY <1>5 DEF IsBatchMax
  <1>7. rows[b].rev <= rows[t].rev /\ b \in ChangedSince(tableRev)
    BY <1>2, <1>6 DEF IsBatch
  <1>8. rows[b].rev # rows[t].rev
    BY <1>2, <1>4, <1>7 DEF SyncInv, RevisionsDistinct, ChangedSince
  <1> QED BY <1>1, <1>3, <1>6, <1>7, <1>8 DEF NextTableRev

\* A scan's change set is current when it is made.
LEMMA ScanSafe ==
    ASSUME SafeBatching, SyncInv, NEW c \in Callers, ScanRows(c)
    PROVE  SyncInv'
  <1>1. TypeOK' /\ LockOK'
    BY StepType, StepLock DEF SyncInv, Next, SyncStep
  <1>2. UNCHANGED <<rows, revision, phase, tableRev, slot, scanRev>>
    BY DEF ScanRows, repoVars, tableVars
  <1>3. RevisionsDistinct' /\ RevisionsOK'
    BY <1>2 DEF SyncInv, RevisionsDistinct, RevisionsOK
  <1>4. \A t \in Tokens : Reflects(t)' <=> Reflects(t)
    BY <1>2 DEF Reflects
  <1>5. PICK B \in SUBSET Tokens, m \in 0..MaxRevision :
           /\ IsBatch(B, tableRev, BatchLimit)
           /\ IsBatchMax(m, B)
           /\ changes' = [changes EXCEPT ![c] =
                           [recs |-> [t \in B |-> rows[t]],
                            next |-> NextTableRev(Cardinality(B) = BatchLimit, m, scanRev[c]),
                            more |-> (Cardinality(B) = BatchLimit)]]
    BY DEF ScanRows
  <1> DEFINE next == NextTableRev(Cardinality(B) = BatchLimit, m, scanRev[c])
  <1>6. /\ changes'[c].recs = [t \in B |-> rows[t]]
        /\ changes'[c].next = next
        /\ \A d \in Callers \ {c} : changes'[d] = changes[d]
    BY <1>5 DEF SyncInv, TypeOK
  <1>7. \A d \in Callers \ {c} : pc'[d] = pc[d]
    BY DEF ScanRows, SyncInv, TypeOK
  <1>8. next <= revision
    <2>1. scanRev[c] <= revision /\ \A t \in Tokens : rows[t].rev <= revision
      BY DEF SyncInv, RevisionsOK
    <2>2. m <= revision
      BY <1>5, <2>1, RepositoryAssumption DEF IsBatchMax, SyncInv, TypeOK, RepoTypeOK
    <2> QED BY <2>1, <2>2 DEF NextTableRev
  <1>9. \A t \in B : Stored(rows[t]) /\ rows[t].rev > tableRev
    BY <1>5 DEF IsBatch, ChangedSince
  <1>10. \A t \in Tokens \ B : \/ rows[t].rev <= tableRev
                               \/ rows[t].rev > next
                               \/ rows[t].state = "purged"
    <2>1. scanRev[c] \in Nat
      BY DEF SyncInv, TypeOK
    <2> QED BY <1>5, <2>1, BatchComplete
  <1>11. ChangeSetOK'
    <2> HIDE DEF next
    <2> SUFFICES ASSUME NEW d \in Callers, pc'[d] = "apply"
                 PROVE  /\ changes'[d].next <= revision
                        /\ \A t \in DOMAIN changes'[d].recs :
                              /\ Stored(rows[t]) /\ Stored(changes'[d].recs[t])
                              /\ rows[t].rev > tableRev
                              /\ rows[t] = changes'[d].recs[t] \/ rows[t].rev > changes'[d].next
                        /\ \A t \in Tokens \ DOMAIN changes'[d].recs :
                              \/ rows[t].rev <= tableRev
                              \/ rows[t].rev > changes'[d].next
                              \/ rows[t].state = "purged"
      BY <1>2 DEF ChangeSetOK, Stored
    <2>1. CASE d = c
      BY <1>6, <1>8, <1>9, <1>10, <2>1
    <2>2. CASE d # c
      BY <1>6, <1>7, <2>2 DEF SyncInv, ChangeSetOK
    <2> QED BY <2>1, <2>2
  <1> QED BY <1>1, <1>2, <1>3, <1>4, <1>11 DEF SyncInv, PurgedSeen, NoLostChange

\* Applying a change set brings into the table whatever lies up to the revision
\* it moves to.
LEMMA ApplySafe ==
    ASSUME SyncInv, NEW c \in Callers, ApplyChanges(c)
    PROVE  SyncInv'
  <1>1. TypeOK' /\ LockOK'
    BY StepType, StepLock DEF SyncInv, Next, SyncStep
  <1>2. UNCHANGED <<rows, revision, phase>>
    BY DEF ApplyChanges, repoVars
  <1>3. RevisionsDistinct'
    BY <1>2 DEF SyncInv, RevisionsDistinct
  <1> DEFINE recs == changes[c].recs
             next == changes[c].next
  <1>4. /\ DOMAIN recs \in SUBSET Tokens
        /\ next \in Nat /\ tableRev \in Nat /\ revision \in Nat
        /\ \A t \in Tokens : rows[t] \in Row /\ rows[t].rev \in Nat /\ slot[t] \in Slot
    BY ChangeSetType, RepositoryAssumption DEF SyncInv, TypeOK, RepoTypeOK, Row
  <1>5. /\ pc[c] = "apply"
        /\ phase = "up"
        /\ tableRev' = IF next > tableRev THEN next ELSE tableRev
    BY DEF ApplyChanges, SyncInv, LockOK
  <1>6. /\ next <= revision
        /\ \A t \in DOMAIN recs : /\ Stored(rows[t])
                                  /\ rows[t].rev > tableRev
                                  /\ rows[t] = recs[t] \/ rows[t].rev > next
        /\ \A t \in Tokens \ DOMAIN recs : \/ rows[t].rev <= tableRev
                                           \/ rows[t].rev > next
                                           \/ rows[t].state = "purged"
    BY <1>5 DEF SyncInv, ChangeSetOK
  <1>7. \A d \in Callers : pc'[d] # "apply"
    BY <1>5 DEF ApplyChanges, SyncInv, TypeOK, LockOK
  <1>8. PICK over \in SUBSET Tokens :
           slot' = [t \in Tokens |-> IF t \in DOMAIN recs
                                     THEN Applied(recs[t], slot[t], t \in over)
                                     ELSE slot[t]]
    BY <1>4 DEF ApplyChanges
  <1>9. RevisionsOK'
    BY <1>2, <1>4, <1>5, <1>6 DEF ApplyChanges, SyncInv, RevisionsOK, TypeOK
  <1> HIDE DEF recs, next
  <1>10. ASSUME NEW t \in DOMAIN recs, rows[t] = recs[t] PROVE Reflects(t)'
    <2>1. /\ t \in Tokens
          /\ (t \in over) \in BOOLEAN
          /\ slot'[t] = Applied(rows[t], slot[t], t \in over)
          /\ Stored(rows[t])
      BY <1>4, <1>6, <1>8, <1>10
    <2> QED BY <1>2, <1>4, <2>1, AppliedReflects
  <1>11. ASSUME NEW t \in Tokens \ DOMAIN recs, Reflects(t) PROVE Reflects(t)'
    BY <1>2, <1>8, <1>11 DEF Reflects
  <1>12. PurgedSeen'
    BY <1>2, <1>5, <1>6, <1>11 DEF SyncInv, PurgedSeen, Stored
  <1>13. NoLostChange'
    <2> SUFFICES ASSUME NEW t \in Tokens, rows[t].rev <= tableRev'
                 PROVE  Reflects(t)'
      BY <1>2 DEF NoLostChange
    <2>1. CASE t \in DOMAIN recs
      BY <1>4, <1>5, <1>6, <1>10, <2>1
    <2>2. CASE t \notin DOMAIN recs
      <3>1. rows[t].rev <= tableRev \/ rows[t].state = "purged"
        BY <1>4, <1>5, <1>6, <2>2
      <3> QED BY <1>5, <1>11, <2>2, <3>1 DEF SyncInv, NoLostChange, PurgedSeen
    <2> QED BY <2>1, <2>2
  <1>14. ChangeSetOK'
    BY <1>7 DEF ChangeSetOK
  <1> QED BY <1>1, <1>3, <1>9, <1>12, <1>13, <1>14 DEF SyncInv

LEMMA InitSafe == Init => SyncInv
  <1> SUFFICES ASSUME Init PROVE SyncInv
    OBVIOUS
  <1> QED BY InitType, SyncAssumption
          DEF Init, RepoInit, SyncInv, LockOK, RevisionsOK, RevisionsDistinct, ChangeSetOK,
              PurgedSeen, NoLostChange, Stored

LEMMA StepSafe ==
    ASSUME RetentionCovers, SafeBatching, SyncInv, [Next]_vars
    PROVE  SyncInv'
  <1>1. CASE UNCHANGED vars
    BY <1>1 DEF vars, repoVars, tableVars, callVars, SyncInv, TypeOK, RepoTypeOK, LockOK,
                RevisionsOK, RevisionsDistinct, ChangeSetOK, PurgedSeen, NoLostChange, Reflects
  <1>2. CASE Write
    BY <1>2, WriteSafe
  <1>3. ASSUME NEW S \in SUBSET Tokens, Purge(S) PROVE SyncInv'
    BY <1>3, PurgeSafe
  <1>4. CASE BootRevision \/ BootRows \/ Crash
    BY <1>4, BootSafe
  <1>5. ASSUME NEW c \in Callers, SyncBegin(c) \/ SyncStep(c) \/ ScanFails(c) PROVE SyncInv'
    BY <1>5, QuietSafe, ScanSafe, ApplySafe DEF SyncStep
  <1> QED BY <1>1, <1>2, <1>3, <1>4, <1>5 DEF Next

\* The whole inductive invariant, under the two conditions the code relies on:
\* deleted rows outlive the worker's next sync, and no batch ends inside a bulk.
THEOREM SyncInvariant ==
    ASSUME RetentionCovers, SafeBatching
    PROVE  Spec => []SyncInv
  <1>1. Init => SyncInv
    BY InitSafe
  <1>2. SyncInv /\ [Next]_vars => SyncInv'
    BY StepSafe
  <1> QED BY <1>1, <1>2, PTL DEF Spec

\* Under those conditions apply_changes never loses a change: an up worker's
\* table shows everything the store committed up to the table's revision.
THEOREM SyncSafety ==
    ASSUME RetentionCovers, SafeBatching
    PROVE  Spec => []NoLostChange
  <1>1. SyncInv => NoLostChange
    BY DEF SyncInv
  <1> QED BY <1>1, SyncInvariant, PTL

-----------------------------------------------------------------------------
(* The worker implements the abstract replica *)

\* What a step does to the store's versions and to the worker's view: the store
\* moves forward, or the view does, up to the store, or neither.
LEMMA StepView ==
    ASSUME TypeOK, LockOK, ViewOK, [Next]_vars
    PROVE  /\ ViewOK'
           /\ \/ /\ \A t \in Tokens : rows[t].rev <= rows'[t].rev
                 /\ UNCHANGED seenRev
              \/ /\ \A t \in Tokens : /\ seenRev[t] <= seenRev'[t]
                                      /\ seenRev'[t] <= rows[t].rev
                                      /\ rows'[t].rev = rows[t].rev
  <1> DEFINE Goal == /\ ViewOK'
                     /\ \/ /\ \A t \in Tokens : rows[t].rev <= rows'[t].rev
                           /\ UNCHANGED seenRev
                        \/ /\ \A t \in Tokens : /\ seenRev[t] <= seenRev'[t]
                                                /\ seenRev'[t] <= rows[t].rev
                                                /\ rows'[t].rev = rows[t].rev
  <1> USE DEF ViewOK
  <1>1. /\ revision \in Nat
        /\ rows \in [Tokens -> Row]
        /\ \A t \in Tokens : rows[t].rev \in Nat /\ seenRev[t] \in Nat
        /\ \A c \in Callers : /\ DOMAIN changes[c].recs \in SUBSET Tokens
                              /\ \A t \in DOMAIN changes[c].recs : changes[c].recs[t].rev \in Nat
    BY ChangeSetType, RepositoryAssumption DEF TypeOK, RepoTypeOK, Row
  <1>2. CASE Write
    <2>1. /\ revision <= revision' /\ revision' \in Nat
          /\ \A t \in Tokens : \/ rows'[t] = rows[t]
                               \/ revision < rows'[t].rev /\ rows'[t].rev <= revision'
          /\ rows' \in [Tokens -> Row]
      BY <1>2, WriteEffect, RepositoryAssumption DEF Write, TypeOK, RepoTypeOK
    <2>2. UNCHANGED <<seenRev, pc, changes>>
      BY <1>2 DEF Write, tableVars, callVars
    <2>3. \A t \in Tokens : rows[t].rev <= rows'[t].rev /\ rows'[t].rev <= revision' /\ rows'[t].rev \in Nat
      BY <1>1, <2>1 DEF Row
    <2> QED BY <1>1, <2>1, <2>2, <2>3
  <1>3. ASSUME NEW S \in SUBSET Tokens, Purge(S) PROVE Goal
    <2>1. UNCHANGED <<revision, seenRev, pc, changes>>
      BY <1>3 DEF Purge, PurgeDeletedAccounts, tableVars, callVars
    <2>2. \A t \in Tokens : rows'[t].rev = rows[t].rev
      BY <1>1, <1>3 DEF Purge, PurgeDeletedAccounts, Row
    <2> QED BY <1>1, <2>1, <2>2
  <1>4. CASE BootRevision \/ BootRows \/ Crash
    <2>1. \A c \in Callers : pc'[c] # "apply"
      BY <1>4 DEF LockOK, TypeOK, BootRevision, BootRows, Crash, callVars
    <2>2. UNCHANGED <<rows, revision>>
      BY <1>4 DEF BootRevision, BootRows, Crash, repoVars
    <2>3. UNCHANGED seenRev \/ \A t \in Tokens : seenRev'[t] = rows[t].rev
      BY <1>4 DEF BootRevision, BootRows, Crash
    <2> QED BY <1>1, <2>1, <2>2, <2>3
  <1>5. ASSUME NEW c \in Callers, SyncBegin(c) \/ ScanRevision(c) \/ ScanFails(c) PROVE Goal
    <2>1. UNCHANGED <<rows, revision, seenRev, changes>>
      BY <1>5 DEF SyncBegin, ScanRevision, ScanFails, repoVars, tableVars
    <2>2. \A d \in Callers : pc'[d] = "apply" => pc[d] = "apply"
      BY <1>5 DEF SyncBegin, ScanRevision, ScanFails, TypeOK
    <2> QED BY <1>1, <2>1, <2>2
  <1>6. ASSUME NEW c \in Callers, ScanRows(c) PROVE Goal
    <2>1. UNCHANGED <<rows, revision, seenRev>>
      BY <1>6 DEF ScanRows, repoVars, tableVars
    <2>2. PICK B \in SUBSET Tokens : changes'[c].recs = [t \in B |-> rows[t]]
      BY <1>6 DEF ScanRows, TypeOK
    <2>3. \A d \in Callers \ {c} : changes'[d] = changes[d] /\ pc'[d] = pc[d]
      BY <1>6 DEF ScanRows, TypeOK
    <2> QED BY <1>1, <2>1, <2>2, <2>3
  <1>7. ASSUME NEW c \in Callers, ApplyChanges(c) PROVE Goal
    <2>1. UNCHANGED <<rows, revision>> /\ pc[c] = "apply"
      BY <1>7 DEF ApplyChanges, repoVars
    <2>2. \A d \in Callers : pc'[d] # "apply"
      BY <1>7 DEF ApplyChanges, TypeOK, LockOK
    <2>3. \A t \in Tokens : seenRev'[t] = IF t \in DOMAIN changes[c].recs
                                          THEN changes[c].recs[t].rev ELSE seenRev[t]
      BY <1>7 DEF ApplyChanges
    <2> QED BY <1>1, <2>1, <2>2, <2>3
  <1>8. CASE UNCHANGED vars
    BY <1>1, <1>8 DEF vars, repoVars, tableVars, callVars
  <1> QED BY <1>2, <1>3, <1>4, <1>5, <1>6, <1>7, <1>8 DEF Next, SyncStep

\* Every step of the worker or the store is a step of the abstract replica.
LEMMA StepReplica == TypeOK /\ LockOK /\ ViewOK /\ ViewOK' /\ TypeOK' /\ [Next]_vars => [Replica!Next]_(Replica!vars)
  <1> SUFFICES ASSUME TypeOK, LockOK, ViewOK, ViewOK', TypeOK', [Next]_vars
               PROVE  [Replica!Next]_(Replica!vars)
    OBVIOUS
  <1> DEFINE version == [t \in Tokens |-> rows[t].rev]
  <1>1. /\ version \in [Tokens -> 0..MaxRevision] /\ version' \in [Tokens -> 0..MaxRevision]
        /\ seenRev \in [Tokens -> Nat] /\ seenRev' \in [Tokens -> Nat]
    <2>1. \A t \in Tokens : rows[t].rev \in 0..MaxRevision /\ rows'[t].rev \in 0..MaxRevision
      BY RepositoryAssumption DEF TypeOK, RepoTypeOK, Row, ViewOK
    <2> QED BY <2>1 DEF TypeOK
  <1>2. CASE (\A t \in Tokens : rows[t].rev <= rows'[t].rev) /\ UNCHANGED seenRev
    BY <1>1, <1>2 DEF Replica!Next, Replica!Write
  <1>3. CASE \A t \in Tokens : /\ seenRev[t] <= seenRev'[t]
                               /\ seenRev'[t] <= rows[t].rev
                               /\ rows'[t].rev = rows[t].rev
    <2>1. seenRev' \in [Tokens -> 0..MaxRevision]
      <3>1. \A t \in Tokens : seenRev'[t] \in Nat /\ rows[t].rev \in 0..MaxRevision
        BY <1>1
      <3>2. \A t \in Tokens : seenRev'[t] \in 0..MaxRevision
        BY <1>3, <3>1, RepositoryAssumption
      <3> QED BY <1>1, <3>2
    <2>2. version' = version
      BY <1>3
    <2> QED BY <1>3, <2>1, <2>2 DEF Replica!Next, Replica!Learn
  <1> QED BY <1>2, <1>3, StepView

\* The worker implements the abstract replica: its view of a token is always a
\* version the store has had and never goes back to an older one, whatever the
\* batches, restarts, failed scans and competing callers.
THEOREM Refinement == Spec => Replica!Spec
  <1>1. Init => TypeOK /\ LockOK /\ ViewOK
    BY InitType, SyncAssumption DEF Init, RepoInit, LockOK, ViewOK
  <1>2. TypeOK /\ LockOK /\ ViewOK /\ [Next]_vars => (TypeOK /\ LockOK /\ ViewOK)'
    BY StepType, StepLock, StepView
  <1>3. Init => Replica!Init
    BY DEF Init, RepoInit, Replica!Init
  <1> QED BY <1>1, <1>2, <1>3, StepReplica, PTL DEF Spec, Replica!Spec

\* The view never runs ahead of the store and no pending change set would move
\* it back.
THEOREM ViewSafe == Spec => []ViewOK
  <1>1. Init => TypeOK /\ LockOK /\ ViewOK
    BY InitType, SyncAssumption DEF Init, RepoInit, LockOK, ViewOK
  <1>2. TypeOK /\ LockOK /\ ViewOK /\ [Next]_vars => (TypeOK /\ LockOK /\ ViewOK)'
    BY StepType, StepLock, StepView
  <1> QED BY <1>1, <1>2, PTL DEF Spec
=============================================================================
