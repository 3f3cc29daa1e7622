------------------------- MODULE AccountRepository -------------------------
(***************************************************************************)
(* The account store of the Grok control plane, as the SQLite backend      *)
(* (app/control/account/backends/local.py) implements it: one row per      *)
(* token, a global revision counter, and write operations that run in one  *)
(* transaction each.  Every operation stamps all the rows it changes with  *)
(* the revision it obtained from _bump_revision, so the rows of one bulk   *)
(* operation share a revision.                                             *)
(*                                                                         *)
(* A row keeps what the runtime table copies and selection depends on: the *)
(* pool, the stored status and whether it is soft-deleted.  "purged" is a  *)
(* row removed physically; its rev field is then only the memory of the    *)
(* last revision the token had.                                            *)
(***************************************************************************)
EXTENDS Integers, FiniteSets

CONSTANTS
    Tokens,       \* account tokens
    Pools,        \* pool names ("basic", "super", "heavy")
    Statuses,     \* AccountStatus values in use
    MaxRevision,  \* bound on the global revision
    MaxBulk       \* bound on the rows one transaction stamps with one revision

ASSUME RepositoryAssumption ==
    /\ IsFiniteSet(Tokens)
    /\ "basic" \in Pools
    /\ "active" \in Statuses
    /\ {"absent", "deleted", "keep"} \cap Statuses = {}
    /\ "keep" \notin Pools
    /\ MaxRevision \in Nat
    /\ MaxBulk \in Nat

VARIABLES
    rows,         \* the accounts table
    revision      \* the 'revision' entry of the meta table

repoVars == <<rows, revision>>

Row == [state  : {"none", "live", "deleted", "purged"},
        pool   : Pools,
        status : Statuses,
        rev    : Nat]

RepoTypeOK ==
    /\ rows \in [Tokens -> Row]
    /\ revision \in 0..MaxRevision

RepoInit ==
    /\ rows = [t \in Tokens |-> [state |-> "none", pool |-> "basic",
                                 status |-> "active", rev |-> 0]]
    /\ revision = 0

-----------------------------------------------------------------------------
(* Reads *)

\* Rows the table still holds, soft-deleted ones included.
Stored(r) == r.state \in {"live", "deleted"}

\* Mutant: a scan with "deleted_at IS NULL", blind to deletions.
ChangedSinceLive(since) == {t \in Tokens : rows[t].state = "live" /\ rows[t].rev > since}

\* scan_changes: WHERE revision > ?
ChangedSince(since) == {t \in Tokens : Stored(rows[t]) /\ rows[t].rev > since}

\* scan_changes: ORDER BY revision LIMIT ?  Ties come in any order.
IsBatch(B, since, limit) ==
    /\ B \subseteq ChangedSince(since)
    /\ Cardinality(B) <= limit
    /\ B # ChangedSince(since) => Cardinality(B) = limit
    /\ \A b \in B, c \in ChangedSince(since) \ B : rows[b].rev <= rows[c].rev

\* scan_changes: batch_max_rev, 0 for an empty batch.
IsBatchMax(m, B) ==
    IF B = {} THEN m = 0
    ELSE /\ \E b \in B : rows[b].rev = m
         /\ \A b \in B : rows[b].rev <= m

-----------------------------------------------------------------------------
(* Writes: each is one committed transaction *)

Bulk(S) == Cardinality(S) <= MaxBulk

\* _bump_revision
NextRevision ==
    /\ revision < MaxRevision
    /\ revision' = revision + 1

\* _upsert_sync: INSERT, or on conflict reset pool, status and deleted_at.
Upserted(pool, n) == [state |-> "live", pool |-> pool, status |-> "active", rev |-> n]

\* _patch_sync: fields the patch leaves None are kept; deleted_at is never looked at.
Patched(r, pool, status, n) ==
    [r EXCEPT !.pool   = IF pool = "keep" THEN @ ELSE pool,
              !.status = IF status = "keep" THEN @ ELSE status,
              !.rev    = n]

SoftDeleted(r, n) == [r EXCEPT !.state = "deleted", !.rev = n]

UpsertAccounts(S, pool) ==
    /\ S # {} /\ Bulk(S)
    /\ NextRevision
    /\ rows' = [t \in Tokens |-> IF t \in S THEN Upserted(pool, revision + 1)
                                            ELSE rows[t]]

PatchAccounts(S, pool, status) ==
    /\ S # {} /\ Bulk(S)
    /\ NextRevision
    /\ rows' = [t \in Tokens |-> IF t \in S /\ Stored(rows[t])
                                 THEN Patched(rows[t], pool, status, revision + 1)
                                 ELSE rows[t]]

DeleteAccounts(S) ==
    /\ S # {} /\ Bulk(S)
    /\ NextRevision
    /\ rows' = [t \in Tokens |-> IF t \in S /\ rows[t].state = "live"
                                 THEN SoftDeleted(rows[t], revision + 1)
                                 ELSE rows[t]]

\* replace_pool: the deletions and the upserts take a revision each, in one transaction.
ReplacePool(pool, S) ==
    LET gone == {t \in Tokens : rows[t].state = "live" /\ rows[t].pool = pool}
    IN  /\ Bulk(S) /\ Bulk(gone)
        /\ revision + 1 < MaxRevision
        /\ revision' = revision + 2
        /\ rows' = [t \in Tokens |-> IF t \in S THEN Upserted(pool, revision + 2)
                                     ELSE IF t \in gone THEN SoftDeleted(rows[t], revision + 1)
                                     ELSE rows[t]]

\* reset_expired_console_windows: only quota_console changes, on live active
\* rows whose window ran out (S); nothing is written when there is none.
ResetExpiredConsoleWindows(S) ==
    /\ S # {} /\ Bulk(S)
    /\ \A t \in S : rows[t].state = "live" /\ rows[t].status = "active"
    /\ NextRevision
    /\ rows' = [t \in Tokens |-> IF t \in S THEN [rows[t] EXCEPT !.rev = revision + 1]
                                            ELSE rows[t]]

\* purge_deleted_accounts: physical removal, no revision, no trace for a scan.
PurgeDeletedAccounts(S) ==
    /\ S # {}
    /\ \A t \in S : rows[t].state = "deleted"
    /\ rows' = [t \in Tokens |-> IF t \in S THEN [rows[t] EXCEPT !.state = "purged"]
                                            ELSE rows[t]]
    /\ UNCHANGED revision

\* A write that stamps a revision, by any process sharing the store.
RevisionedWrite ==
    \/ \E S \in SUBSET Tokens, p \in Pools : UpsertAccounts(S, p)
    \/ \E S \in SUBSET Tokens, p \in Pools \cup {"keep"}, s \in Statuses \cup {"keep"} :
            PatchAccounts(S, p, s)
    \/ \E S \in SUBSET Tokens : DeleteAccounts(S)
    \/ \E S \in SUBSET Tokens, p \in Pools : ReplacePool(p, S)
    \/ \E S \in SUBSET Tokens : ResetExpiredConsoleWindows(S)
=============================================================================
