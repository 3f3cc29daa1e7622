---------------------------- MODULE AccountSync ----------------------------
(***************************************************************************)
(* One worker process following the account store: AccountDirectory keeps  *)
(* an in-memory AccountRuntimeTable (app/dataplane/account/table.py),      *)
(* loaded by bootstrap and brought up to date by apply_changes             *)
(* (app/dataplane/account/sync.py), which pulls the rows whose revision is *)
(* above the table's own.  Other processes write the store at any moment,  *)
(* also between the two reads of one scan: the read of the global revision *)
(* and the read of the rows are separate statements.  Several callers of   *)
(* the worker ask for a sync (the sync loop, the admin endpoint, an        *)
(* import); _sync_lock lets one through at a time.                         *)
(*                                                                         *)
(* A batch is applied without an await, hence in one step.                 *)
(***************************************************************************)
EXTENDS AccountRepository

CONSTANTS
    Callers,         \* who calls sync_if_changed in this worker
    SyncLoop,        \* the caller that never stops: _sync_loop of the lifespan
    NoCaller,        \* nobody holds _sync_lock
    BatchLimit,      \* batch_limit of apply_changes (5000)
    MaxFaults,       \* bound on crashes and failed scans
    RetentionCovers  \* rows stay soft-deleted until the running worker has seen it

ASSUME SyncAssumption ==
    /\ NoCaller \notin Callers
    /\ SyncLoop \in Callers
    /\ BatchLimit \in Nat \ {0}
    /\ MaxFaults \in Nat
    /\ RetentionCovers \in BOOLEAN

VARIABLES
    phase,     \* "down", "booting" (revision read, rows not yet) or "up"
    tableRev,  \* AccountRuntimeTable.revision
    slot,      \* the token's columns; status "absent": no slot for the token
    bucket,    \* mode_available, by pool: slots offered to the selector
    size,      \* AccountRuntimeTable.size
    syncLock,  \* holder of AccountDirectory._sync_lock
    pc,        \* where each caller is in apply_changes
    scanRev,   \* the global revision its scan read (also that of a bootstrap)
    changes,   \* the change set its scan returned
    seenRev,   \* history: revision of the row each slot was last built from
    faults

tableVars == <<tableRev, slot, bucket, size, seenRev>>
callVars  == <<syncLock, pc, scanRev, changes>>
vars      == <<repoVars, phase, tableVars, callVars, faults>>

Slot == [pool : Pools, status : Statuses \cup {"absent", "deleted"}]

\* AccountChangeSet: snapshots of the changed rows, and what follows from them.
IsChangeSet(cs) ==
    /\ \E B \in SUBSET Tokens : cs.recs \in [B -> Row]
    /\ cs.next \in Nat
    /\ cs.more \in BOOLEAN

NoChanges == [recs |-> [t \in {} |-> {}], next |-> 0, more |-> FALSE]

TypeOK ==
    /\ RepoTypeOK
    /\ phase \in {"down", "booting", "up"}
    /\ tableRev \in Nat
    /\ slot \in [Tokens -> Slot]
    /\ bucket \in [Pools -> SUBSET Tokens]
    /\ size \in Nat
    /\ syncLock \in Callers \cup {NoCaller}
    /\ pc \in [Callers -> {"idle", "revision", "rows", "apply"}]
    /\ scanRev \in [Callers -> Nat]
    /\ seenRev \in [Tokens -> Nat]
    /\ faults \in 0..MaxFaults
    /\ DOMAIN changes = Callers
    /\ \A c \in Callers : IsChangeSet(changes[c])

AbsentSlots == [t \in Tokens |-> [pool |-> "basic", status |-> "absent"]]

Init ==
    /\ RepoInit
    /\ phase = "down"
    /\ tableRev = 0
    /\ slot = AbsentSlots
    /\ bucket = [p \in Pools |-> {}]
    /\ size = 0
    /\ syncLock = NoCaller
    /\ pc = [c \in Callers |-> "idle"]
    /\ scanRev = [c \in Callers |-> 0]
    /\ changes = [c \in Callers |-> NoChanges]
    /\ seenRev = [t \in Tokens |-> 0]
    /\ faults = 0

-----------------------------------------------------------------------------
(* The table *)

\* derive_status: a COOLING record counts as ACTIVE once its cooldown is over.
DeriveStatus(r, over) == IF r.status = "cooling" /\ over THEN "active" ELSE r.status

\* _record_to_slot_args for the pool and status columns.
SlotOf(r, over) == [pool |-> r.pool, status |-> DeriveStatus(r, over)]

Present(t) == slot[t].status # "absent"

\* _remove_from_indexes takes a slot out of the buckets of the pool it is in,
\* _add_to_indexes puts it into those of its new pool if it is ACTIVE.
Reindexed(touched, new) ==
    [p \in Pools |->
        (bucket[p] \ {t \in touched : slot[t].pool = p})
          \cup {t \in touched : new[t].pool = p /\ new[t].status = "active"}]

\* Mutant: deletions of a change set are not applied.
AppliedLiveOnly(r, old, over) == IF r.state = "live" THEN SlotOf(r, over) ELSE old

\* What one record or deletion of a change set does to the token's slot.
Applied(r, old, over) ==
    IF r.state = "live" THEN SlotOf(r, over)
    ELSE IF old.status = "absent" THEN old
    ELSE [old EXCEPT !.status = "deleted"]

\* The deleted and the live tokens of a change set.
Gone(recs) == {t \in DOMAIN recs : recs[t].state = "deleted"}
Kept(recs) == {t \in DOMAIN recs : recs[t].state = "live"}

\* table.size after dropping n live slots one by one and appending m.
Resized(n, m) == (IF size > n THEN size - n ELSE 0) + m

-----------------------------------------------------------------------------
(* Bootstrap, crash *)

\* runtime_snapshot reads the revision first ...
BootRevision ==
    /\ phase = "down"
    /\ phase' = "booting"
    /\ tableRev' = revision
    /\ UNCHANGED <<repoVars, slot, bucket, size, seenRev, callVars, faults>>

\* ... then the live rows; bootstrap builds a fresh table from them.
BootRows ==
    /\ phase = "booting"
    /\ phase' = "up"
    /\ \E over \in SUBSET {t \in Tokens : rows[t].status = "cooling"} :
          slot' = [t \in Tokens |-> IF rows[t].state = "live" THEN SlotOf(rows[t], t \in over)
                                                             ELSE AbsentSlots[t]]
    /\ bucket' = [p \in Pools |-> {t \in Tokens : slot'[t].pool = p /\ slot'[t].status = "active"}]
    /\ size' = Cardinality({t \in Tokens : rows[t].state = "live"})
    /\ seenRev' = [t \in Tokens |-> rows[t].rev]
    /\ UNCHANGED <<repoVars, tableRev, callVars, faults>>

\* The process dies: the table and every sync under way are lost.
Crash ==
    /\ phase # "down"
    /\ faults < MaxFaults
    /\ faults' = faults + 1
    /\ phase' = "down"
    /\ tableRev' = 0
    /\ slot' = AbsentSlots
    /\ bucket' = [p \in Pools |-> {}]
    /\ size' = 0
    /\ syncLock' = NoCaller
    /\ pc' = [c \in Callers |-> "idle"]
    /\ scanRev' = [c \in Callers |-> 0]
    /\ changes' = [c \in Callers |-> NoChanges]
    /\ UNCHANGED <<repoVars, seenRev>>

-----------------------------------------------------------------------------
(* Incremental sync *)

\* sync_if_changed: nothing without a table; wait for _sync_lock.
SyncBegin(c) ==
    /\ phase = "up"
    /\ pc[c] = "idle"
    /\ syncLock = NoCaller
    /\ syncLock' = c
    /\ pc' = [pc EXCEPT ![c] = "revision"]
    /\ UNCHANGED <<repoVars, phase, tableVars, scanRev, changes, faults>>

\* scan_changes reads the global revision ...
ScanRevision(c) ==
    /\ pc[c] = "revision"
    /\ scanRev' = [scanRev EXCEPT ![c] = revision]
    /\ pc' = [pc EXCEPT ![c] = "rows"]
    /\ UNCHANGED <<repoVars, phase, tableVars, syncLock, changes, faults>>

\* Mutant: every batch moves the table to the global revision.
NextTableRevGlobal(more, batchMax, global) == global

\* Where apply_changes moves the table's revision: after an intermediate batch
\* to the highest revision in it, after the last one to the global revision.
NextTableRev(more, batchMax, global) == IF more THEN batchMax ELSE global

\* ... and then a batch of rows; a full batch is taken to mean there is more.
ScanRows(c) ==
    /\ pc[c] = "rows"
    /\ \E B \in SUBSET Tokens, m \in 0..MaxRevision :
          /\ IsBatch(B, tableRev, BatchLimit)
          /\ IsBatchMax(m, B)
          /\ LET more == Cardinality(B) = BatchLimit
             IN  changes' = [changes EXCEPT ![c] =
                               [recs |-> [t \in B |-> rows[t]],
                                next |-> NextTableRev(more, m, scanRev[c]),
                                more |-> more]]
    /\ pc' = [pc EXCEPT ![c] = "apply"]
    /\ UNCHANGED <<repoVars, phase, tableVars, syncLock, scanRev, faults>>

\* apply_changes for one batch: deletions mark the slot, records update their
\* slot or get a new one; another scan follows if there is more, else the
\* lock is released.
ApplyChanges(c) ==
    /\ pc[c] = "apply"
    /\ LET recs == changes[c].recs
       IN  /\ \E over \in SUBSET {t \in DOMAIN recs : recs[t].status = "cooling"} :
                 slot' = [t \in Tokens |-> IF t \in DOMAIN recs
                                           THEN Applied(recs[t], slot[t], t \in over)
                                           ELSE slot[t]]
           /\ bucket' = Reindexed(DOMAIN recs, slot')
           /\ size' = Resized(Cardinality({t \in Gone(recs) : Present(t)}),
                              Cardinality({t \in Kept(recs) : ~Present(t)}))
           /\ seenRev' = [t \in Tokens |-> IF t \in DOMAIN recs THEN recs[t].rev
                                                                ELSE seenRev[t]]
    /\ tableRev' = IF changes[c].next > tableRev THEN changes[c].next ELSE tableRev
    /\ IF changes[c].more
       THEN /\ pc' = [pc EXCEPT ![c] = "revision"]
            /\ UNCHANGED syncLock
       ELSE /\ pc' = [pc EXCEPT ![c] = "idle"]
            /\ syncLock' = NoCaller
    /\ scanRev' = [scanRev EXCEPT ![c] = 0]
    /\ changes' = [changes EXCEPT ![c] = NoChanges]
    /\ UNCHANGED <<repoVars, phase, faults>>

\* The store raises during a scan: the caller gives up and the lock is released.
\* Batches applied before stay applied.
ScanFails(c) ==
    /\ pc[c] \in {"revision", "rows"}
    /\ faults < MaxFaults
    /\ faults' = faults + 1
    /\ pc' = [pc EXCEPT ![c] = "idle"]
    /\ syncLock' = NoCaller
    /\ scanRev' = [scanRev EXCEPT ![c] = 0]
    /\ UNCHANGED <<repoVars, phase, tableVars, changes>>

-----------------------------------------------------------------------------
(* The store, written by this and other processes *)

Write ==
    /\ RevisionedWrite
    /\ UNCHANGED <<phase, tableVars, callVars, faults>>

\* run_daily_deleted_account_cleanup.  With RetentionCovers the retention
\* period is long enough for the running worker to have synced the deletion.
Purge(S) ==
    /\ PurgeDeletedAccounts(S)
    /\ RetentionCovers /\ phase = "up" => \A t \in S : rows[t].rev <= tableRev
    /\ UNCHANGED <<phase, tableVars, callVars, faults>>

SyncStep(c) == ScanRevision(c) \/ ScanRows(c) \/ ApplyChanges(c)

Next ==
    \/ Write
    \/ \E S \in SUBSET Tokens : Purge(S)
    \/ BootRevision \/ BootRows \/ Crash
    \/ \E c \in Callers : SyncBegin(c) \/ SyncStep(c) \/ ScanFails(c)

Spec == Init /\ [][Next]_vars

\* The process is restarted when it is down and finishes its bootstrap; whoever
\* holds the lock goes on with the scan; the sync loop keeps calling.
Fairness ==
    /\ WF_vars(BootRevision)
    /\ WF_vars(BootRows)
    /\ WF_vars(SyncBegin(SyncLoop))
    /\ \A c \in Callers : WF_vars(SyncStep(c))

FairSpec == Spec /\ Fairness

-----------------------------------------------------------------------------
(* Properties *)

\* A slot shows what the store has for the token: its pool and its status, or,
\* for a token the store does not have (any more), no selectable slot.
Reflects(t) ==
    IF rows[t].state = "live"
    THEN \E over \in BOOLEAN : slot[t] = SlotOf(rows[t], over)
    ELSE slot[t].status \in {"absent", "deleted"}

\* No change is lost: whatever the store committed up to the table's revision
\* is in the table.  A scan only asks for higher revisions, so a change that is
\* missing here is never seen by this worker again (sync.py, apply_changes).
NoLostChange ==
    phase = "up" => \A t \in Tokens : rows[t].rev <= tableRev => Reflects(t)

\* The selector's buckets hold exactly the ACTIVE slots of each pool, through
\* pool moves, deletions and re-imports (table.py, _update_slot).
IndexExact ==
    \A p \in Pools : bucket[p] = {t \in Tokens : slot[t].pool = p /\ slot[t].status = "active"}

\* The sync loop's promise (main.py:158-159): the table is eventually consistent
\* with the store.  Here for removals: an account the store no longer has is
\* eventually no longer offered to requests, unless it is imported again.
RemovalReachesTable ==
    \A t \in Tokens :
        rows[t].state # "live" ~> (rows[t].state = "live" \/ \A p \in Pools : t \notin bucket[p])

-----------------------------------------------------------------------------
(* The inductive invariant behind NoLostChange *)

\* Only the holder of _sync_lock is inside apply_changes, and only with a table.
LockOK ==
    \A c \in Callers : /\ pc[c] # "idle" <=> syncLock = c
                       /\ pc[c] # "idle" => phase = "up"

\* Revisions only ever come from the global counter.
RevisionsOK ==
    /\ tableRev <= revision
    /\ phase = "down" => tableRev = 0
    /\ \A t \in Tokens : /\ rows[t].rev <= revision
                         /\ rows[t].state = "none" => rows[t].rev = 0
    /\ \A c \in Callers : scanRev[c] <= revision

\* With one row per write no two stored rows share a revision.
RevisionsDistinct ==
    MaxBulk = 1 =>
        \A t, u \in Tokens : Stored(rows[t]) /\ Stored(rows[u]) /\ rows[t].rev = rows[u].rev
                               => t = u

\* A change set about to be applied: what it holds is current or has been
\* overtaken by a revision beyond the one the table will move to, and so is
\* everything it does not hold and the table has not seen.
ChangeSetOK ==
    \A c \in Callers : pc[c] = "apply" =>
        /\ changes[c].next <= revision
        /\ \A t \in DOMAIN changes[c].recs :
              /\ Stored(rows[t]) /\ Stored(changes[c].recs[t])
              /\ rows[t].rev > tableRev
              /\ rows[t] = changes[c].recs[t] \/ rows[t].rev > changes[c].next
        /\ \A t \in Tokens \ DOMAIN changes[c].recs :
              \/ rows[t].rev <= tableRev
              \/ rows[t].rev > changes[c].next
              \/ rows[t].state = "purged"

\* A purged row was seen as deleted before it disappeared.
PurgedSeen == phase = "up" => \A t \in Tokens : rows[t].state = "purged" => Reflects(t)

SyncInv ==
    /\ TypeOK
    /\ LockOK
    /\ RevisionsOK
    /\ RevisionsDistinct
    /\ ChangeSetOK
    /\ PurgedSeen
    /\ NoLostChange

\* The batches that cannot split a revision: one row per write, or one batch
\* for the whole table.
SafeBatching == MaxBulk = 1 \/ Cardinality(Tokens) < BatchLimit

\* A slot is never built from a row older than the one it was built from before:
\* no change set holds a row older than the table has, or newer than the store.
ViewOK ==
    /\ \A t \in Tokens : seenRev[t] <= rows[t].rev /\ rows[t].rev <= revision
    /\ \A c \in Callers : pc[c] = "apply" =>
          \A t \in DOMAIN changes[c].recs : /\ seenRev[t] <= changes[c].recs[t].rev
                                            /\ changes[c].recs[t].rev <= rows[t].rev

-----------------------------------------------------------------------------
\* What the worker promises, as an abstract replica of the store.
Replica == INSTANCE AccountReplica
             WITH version <- [t \in Tokens |-> rows[t].rev], view <- seenRev
ReplicaSpec == Replica!FairSpec
=============================================================================
