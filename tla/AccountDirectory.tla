-------------------------- MODULE AccountDirectory --------------------------
(***************************************************************************)
(* The hot path of one worker: requests reserve an account from the        *)
(* runtime table, call upstream with it, release it and report the outcome *)
(* (app/dataplane/account/__init__.py, selector.py, feedback.py), while    *)
(* incremental syncs rewrite the same table.                               *)
(*                                                                         *)
(* No critical section of the directory awaits anything, so reserve,       *)
(* release followed by feedback, and a sync of a row are one step each.    *)
(* What a sync writes is any row the store can hold: AccountSync says      *)
(* which row it is.  Scores (health, recency) only order the eligible      *)
(* accounts; the choice among them is nondeterministic here.  Timestamps   *)
(* are reduced to whether they have passed.                                *)
(***************************************************************************)
EXTENDS Integers, FiniteSets, Sequences

CONSTANTS
    Tokens, Pools, Modes,
    Supports,      \* modes with a quota window, by pool
    ConsoleMode,   \* mode 5: its 429 is not taken as exhaustion
    Candidates,    \* <<[pool, mode], ...>> in the order reserve_account tries them
    StoreRows,     \* what a sync may write into a slot
    Total,         \* quota of a full window
    Strategies,    \* of "quota" and "random": a change of the configuration
                   \* is applied to a running worker
    Cap,           \* concurrent requests of an account, by strategy (12 and 8)
    MaxFails,      \* _RANDOM_MAX_FAILS; fail counts are only kept up to it
    Requests,      \* request tasks
    Products,      \* which products send requests
    MaxRetries,    \* selection_max_retries
    NoLease,
    MaxAbandoned   \* bound on clients that leave before their stream starts

VARIABLES
    slot,       \* the columns a sync rewrites
    inflight, cooling,  \* the columns it leaves alone
    bucket,     \* mode_available
    pc, product, excluded, attempt,  \* the requests
    lease,      \* the AccountLease each one holds
    strategy,
    abandoned   \* history: leases whose request is over and was never released

tableVars   == <<slot, inflight, cooling, bucket>>
requestVars == <<pc, product, excluded, attempt, lease>>
vars        == <<tableVars, requestVars, strategy, abandoned>>

Statuses == {"absent", "active", "cooling", "expired", "disabled", "deleted"}
Resets   == {"none", "later", "due"}    \* reset_at: unknown, in the future, passed

Slot == [status : Statuses, pool : Pools, quota : [Modes -> 0..Total],
         reset : [Modes -> Resets], fails : 0..MaxFails]

ASSUME DirectoryAssumption ==
    /\ IsFiniteSet(Requests)
    /\ Supports \in [Pools -> SUBSET Modes]
    /\ Candidates \in Seq([pool : Pools, mode : Modes])
    /\ StoreRows \subseteq Slot
    /\ \A row \in StoreRows : row.status \notin {"absent", "deleted"}
    /\ Total \in Nat \ {0}
    /\ Strategies \subseteq {"quota", "random"}
    /\ Cap \in [{"quota", "random"} -> Nat]
    /\ MaxFails \in Nat /\ MaxRetries \in Nat /\ MaxAbandoned \in Nat
    /\ Products \subseteq {"chat", "image", "edit", "voice"}
    /\ NoLease \notin Tokens

\* chat.py and its siblings reserve inside the stream and retry; images.py
\* reserves before the stream it returns is started: "image" whatever the
\* quota, "edit" by mode; voice.py reports nothing.
Retries(p)   == IF p = "chat" THEN MaxRetries ELSE 0
AnyQuota(p)  == p = "image"
StartsLate(p) == p \in {"image", "edit"}
Reported(p, kind) ==
    CASE p = "voice" -> "none"
      [] p = "image" /\ kind \notin {"unauthorized", "forbidden"} -> "none"
      [] OTHER -> kind

Nothing == [token |-> NoLease, mode |-> NoLease]

Kinds == {"success", "rate_limited", "unauthorized", "forbidden", "server_error"}

EmptySlot(p) == [status |-> "absent", pool |-> p, quota |-> [m \in Modes |-> 0],
                 reset |-> [m \in Modes |-> "none"], fails |-> 0]

TypeOK ==
    /\ slot \in [Tokens -> Slot]
    /\ inflight \in [Tokens -> Nat]
    /\ cooling \in [Tokens -> BOOLEAN]
    /\ bucket \in [Pools \X Modes -> SUBSET Tokens]
    /\ pc \in [Requests -> {"idle", "reserve", "refresh", "again", "opening", "running"}]
    /\ product \in [Requests -> {"none", "chat", "image", "edit", "voice"}]
    /\ lease \in [Requests -> [token : Tokens, mode : Modes] \cup {Nothing}]
    /\ excluded \in [Requests -> SUBSET Tokens]
    /\ attempt \in [Requests -> 0..MaxRetries]
    /\ strategy \in Strategies
    /\ abandoned \in [Tokens -> Nat]

Init ==
    /\ \E p \in Pools : slot = [t \in Tokens |-> EmptySlot(p)]
    /\ inflight = [t \in Tokens |-> 0]
    /\ cooling = [t \in Tokens |-> FALSE]
    /\ bucket = [pm \in Pools \X Modes |-> {}]
    /\ pc = [r \in Requests |-> "idle"]
    /\ product = [r \in Requests |-> "none"]
    /\ lease = [r \in Requests |-> Nothing]
    /\ excluded = [r \in Requests |-> {}]
    /\ attempt = [r \in Requests |-> 0]
    /\ strategy \in Strategies
    /\ abandoned = [t \in Tokens |-> 0]

-----------------------------------------------------------------------------
(* Sync of one row, and time *)

\* _remove_from_indexes, under the pool the slot has now.
Removed(b, t) ==
    [pm \in Pools \X Modes |-> IF pm[1] = slot[t].pool THEN b[pm] \ {t} ELSE b[pm]]

\* Mutant: indexed whatever the status.
AddedAnyStatus(b, t, row) ==
    [pm \in Pools \X Modes |->
        IF pm[1] = row.pool /\ pm[2] \in Supports[row.pool] THEN b[pm] \cup {t} ELSE b[pm]]

\* _add_to_indexes: an ACTIVE slot, under the modes its pool has a window for.
Added(b, t, row) ==
    [pm \in Pools \X Modes |->
        IF row.status = "active" /\ pm[1] = row.pool /\ pm[2] \in Supports[row.pool]
        THEN b[pm] \cup {t} ELSE b[pm]]

\* Mutant: _update_slot clears the inflight column as _append_slot does.
SyncRowClearing(t, row) ==
    /\ slot' = [slot EXCEPT ![t] = row]
    /\ bucket' = Added(Removed(bucket, t), t, row)
    /\ inflight' = [inflight EXCEPT ![t] = 0]
    /\ cooling' = [cooling EXCEPT ![t] = FALSE]
    /\ UNCHANGED <<requestVars, strategy, abandoned>>

\* _append_slot for a new token, _update_slot for one that has a slot.
SyncRow(t, row) ==
    /\ slot' = [slot EXCEPT ![t] = row]
    /\ bucket' = Added(Removed(bucket, t), t, row)
    /\ IF slot[t].status = "absent"
       THEN /\ inflight' = [inflight EXCEPT ![t] = 0]
            /\ cooling' = [cooling EXCEPT ![t] = FALSE]
       ELSE UNCHANGED <<inflight, cooling>>
    /\ UNCHANGED <<requestVars, strategy, abandoned>>

\* Mutant: a deletion frees the slot while requests still hold it.
SyncDeletionFreeing(t) ==
    /\ slot[t].status # "absent"
    /\ slot' = [slot EXCEPT ![t].status = "absent"]
    /\ bucket' = Removed(bucket, t)
    /\ UNCHANGED <<inflight, cooling, requestVars, strategy, abandoned>>

\* apply_changes for a deleted token: unindexed and marked, never freed.
SyncDeletion(t) ==
    /\ slot[t].status # "absent"
    /\ slot' = [slot EXCEPT ![t].status = "deleted"]
    /\ bucket' = Removed(bucket, t)
    /\ UNCHANGED <<inflight, cooling, requestVars, strategy, abandoned>>

WindowEnds(t, m) ==
    /\ slot[t].reset[m] = "later"
    /\ slot' = [slot EXCEPT ![t].reset[m] = "due"]
    /\ UNCHANGED <<inflight, cooling, bucket, requestVars, strategy, abandoned>>

CoolingEnds(t) ==
    /\ cooling[t]
    /\ cooling' = [cooling EXCEPT ![t] = FALSE]
    /\ UNCHANGED <<slot, inflight, bucket, requestVars, strategy, abandoned>>

-----------------------------------------------------------------------------
(* Selection *)

PoolUnion(p) == UNION {bucket[<<p, m>>] : m \in Modes}

\* _maybe_reset_windows has filled a window that has ended before quotas are read.
Usable(t, m) == slot[t].quota[m] > 0 \/ slot[t].reset[m] = "due"

\* Mutant: the random strategy without its inflight filter.
OfferedUncapped(c, r) ==
    CASE strategy = "random" ->
           {t \in PoolUnion(c.pool) \ excluded[r] : ~cooling[t] /\ slot[t].fails < MaxFails}
      [] strategy = "quota" /\ AnyQuota(product[r]) ->
           PoolUnion(c.pool) \ excluded[r]
      [] OTHER ->
           {t \in bucket[<<c.pool, c.mode>>] \ excluded[r] :
               Usable(t, c.mode) /\ inflight[t] < Cap[strategy]}

\* The accounts a candidate of the order has to offer to request r.
Offered(c, r) ==
    CASE strategy = "random" ->
           {t \in PoolUnion(c.pool) \ excluded[r] :
               ~cooling[t] /\ inflight[t] < Cap[strategy] /\ slot[t].fails < MaxFails}
      [] strategy = "quota" /\ AnyQuota(product[r]) ->
           PoolUnion(c.pool) \ excluded[r]
      [] OTHER ->
           {t \in bucket[<<c.pool, c.mode>>] \ excluded[r] :
               Usable(t, c.mode) /\ inflight[t] < Cap[strategy]}

\* The windows _maybe_reset_windows fills while the first n candidates are tried.
Refills(t, m, n, r) ==
    /\ strategy = "quota" /\ ~AnyQuota(product[r])
    /\ slot[t].reset[m] = "due"
    /\ \E i \in 1..n : Candidates[i].mode = m /\ t \in bucket[<<Candidates[i].pool, m>>]

Refilled(n, r) ==
    [t \in Tokens |->
        [slot[t] EXCEPT
            !.quota = [m \in Modes |-> IF Refills(t, m, n, r) THEN Total ELSE slot[t].quota[m]],
            !.reset = [m \in Modes |-> IF Refills(t, m, n, r) THEN "later" ELSE slot[t].reset[m]]]]

-----------------------------------------------------------------------------
(* Requests *)

Begin(r, p) ==
    /\ pc[r] = "idle"
    /\ pc' = [pc EXCEPT ![r] = "reserve"]
    /\ product' = [product EXCEPT ![r] = p]
    /\ UNCHANGED <<tableVars, lease, excluded, attempt, strategy, abandoned>>

\* AccountDirectory.reserve and reserve_any: the first candidate with an
\* eligible account wins.
Reserve(r) ==
    /\ pc[r] \in {"reserve", "again"}
    /\ \E i \in DOMAIN Candidates : \E t \in Offered(Candidates[i], r) :
          /\ \A j \in 1..(i - 1) : Offered(Candidates[j], r) = {}
          /\ slot' = Refilled(i, r)
          /\ inflight' = [inflight EXCEPT ![t] = @ + 1]
          /\ lease' = [lease EXCEPT ![r] = [token |-> t, mode |-> Candidates[i].mode]]
    /\ pc' = [pc EXCEPT ![r] = IF StartsLate(product[r]) THEN "opening" ELSE "running"]
    /\ UNCHANGED <<cooling, bucket, product, excluded, attempt, strategy, abandoned>>

\* Back to idle: a request leaves nothing behind.
Over(r) ==
    /\ pc' = [pc EXCEPT ![r] = "idle"]
    /\ product' = [product EXCEPT ![r] = "none"]
    /\ excluded' = [excluded EXCEPT ![r] = {}]
    /\ attempt' = [attempt EXCEPT ![r] = 0]

\* reserve_account: under the quota strategy one more try after an on-demand
\* refresh of the store, else RateLimitError.
NoAccount(r) ==
    /\ pc[r] \in {"reserve", "again"}
    /\ \A i \in DOMAIN Candidates : Offered(Candidates[i], r) = {}
    /\ slot' = Refilled(Len(Candidates), r)
    /\ IF pc[r] = "reserve" /\ strategy = "quota" /\ product[r] = "chat"
       THEN /\ pc' = [pc EXCEPT ![r] = "refresh"]
            /\ UNCHANGED <<product, excluded, attempt>>
       ELSE Over(r)
    /\ UNCHANGED <<inflight, cooling, bucket, lease, strategy, abandoned>>

\* refresh_on_demand writes to the store only; the table learns of it by a sync.
RefreshOnDemand(r) ==
    /\ pc[r] = "refresh"
    /\ pc' = [pc EXCEPT ![r] = "again"]
    /\ UNCHANGED <<tableVars, product, lease, excluded, attempt, strategy, abandoned>>

StreamStarts(r) ==
    /\ pc[r] = "opening"
    /\ pc' = [pc EXCEPT ![r] = "running"]
    /\ UNCHANGED <<tableVars, product, lease, excluded, attempt, strategy, abandoned>>

\* edit: an upload or the create-post call raises; released without feedback.
SetupFails(r) ==
    /\ pc[r] = "opening" /\ product[r] = "edit"
    /\ inflight' = [inflight EXCEPT ![lease[r].token] = IF @ > 0 THEN @ - 1 ELSE 0]
    /\ lease' = [lease EXCEPT ![r] = Nothing]
    /\ Over(r)
    /\ UNCHANGED <<slot, cooling, bucket, strategy, abandoned>>

\* The client leaves, or the handler is cancelled, while the account is held
\* but the generator whose finally clause releases it has not been entered.
Abandon(r) ==
    /\ pc[r] = "opening"
    /\ abandoned[lease[r].token] < MaxAbandoned
    /\ abandoned' = [abandoned EXCEPT ![lease[r].token] = @ + 1]
    /\ lease' = [lease EXCEPT ![r] = Nothing]
    /\ Over(r)
    /\ UNCHANGED <<tableVars, strategy>>

\* feedback: what an outcome does to the slot.  update_last_fail counts every
\* failure; a 401 expires the account, deleted or not.
Scored(s, m, kind) ==
    CASE kind = "none" -> s
      [] kind = "success" ->
           IF strategy = "quota" /\ s.quota[m] > 0 THEN [s EXCEPT !.quota[m] = @ - 1] ELSE s
      [] OTHER ->
           [s EXCEPT
              !.fails = IF @ < MaxFails THEN @ + 1 ELSE @,
              !.status = IF kind = "unauthorized" THEN "expired" ELSE @,
              !.quota[m] = IF kind = "rate_limited" /\ strategy = "quota" /\ m # ConsoleMode
                           THEN 0 ELSE @]

\* The finally clause: release, then feedback; then either the next attempt,
\* with this account excluded, or the end.
Finish(r, kind, retry) ==
    LET t == lease[r].token
        m == lease[r].mode
        k == Reported(product[r], kind)
    IN  /\ pc[r] = "running"
        /\ inflight' = [inflight EXCEPT ![t] = IF @ > 0 THEN @ - 1 ELSE 0]
        /\ slot' = [slot EXCEPT ![t] = Scored(@, m, k)]
        /\ bucket' = IF k = "unauthorized" THEN Removed(bucket, t) ELSE bucket
        /\ cooling' = IF k = "rate_limited" /\ strategy = "random"
                      THEN [cooling EXCEPT ![t] = TRUE] ELSE cooling
        /\ lease' = [lease EXCEPT ![r] = Nothing]
        /\ IF retry
           THEN /\ kind # "success" /\ attempt[r] < Retries(product[r])
                /\ pc' = [pc EXCEPT ![r] = "reserve"]
                /\ excluded' = [excluded EXCEPT ![r] = @ \cup {t}]
                /\ attempt' = [attempt EXCEPT ![r] = @ + 1]
                /\ UNCHANGED product
           ELSE Over(r)
        /\ UNCHANGED <<strategy, abandoned>>

\* reconcile_refresh_runtime, whatever is under way.
SetStrategy(s) ==
    /\ strategy' = s
    /\ UNCHANGED <<tableVars, requestVars, abandoned>>

RequestStep(r) ==
    \/ Reserve(r) \/ NoAccount(r) \/ RefreshOnDemand(r) \/ StreamStarts(r) \/ SetupFails(r)
    \/ \E kind \in Kinds, retry \in BOOLEAN : Finish(r, kind, retry)

Next ==
    \/ \E t \in Tokens, row \in StoreRows : SyncRow(t, row)
    \/ \E t \in Tokens : SyncDeletion(t) \/ CoolingEnds(t)
    \/ \E t \in Tokens, m \in Modes : WindowEnds(t, m)
    \/ \E r \in Requests : (\E p \in Products : Begin(r, p)) \/ RequestStep(r) \/ Abandon(r)
    \/ \E s \in Strategies : SetStrategy(s)

Spec == Init /\ [][Next]_vars

-----------------------------------------------------------------------------
(* Properties *)

Holders(t) == {r \in Requests : lease[r].token = t}

\* The inflight column counts exactly the requests that hold the account, plus
\* those that left without releasing it, through deletions, re-imports and pool
\* moves under way: no release is lost, none is applied twice or to another
\* account (AccountDirectory.reserve and release; _update_slot keeps the column).
InflightCounts ==
    \A t \in Tokens : inflight[t] = Cardinality(Holders(t)) + abandoned[t]

\* mode_available holds exactly the ACTIVE slots under their pool and the modes
\* it supports, whatever the order of 401s, syncs, pool moves and deletions
\* (feedback.apply_status_change, table._update_slot, apply_changes).
ModeIndexExact ==
    \A p \in Pools, m \in Modes :
        bucket[<<p, m>>] = {t \in Tokens : /\ slot[t].status = "active"
                                           /\ slot[t].pool = p
                                           /\ m \in Supports[p]}

\* Requests for images take any account under the quota strategy, however many
\* it serves.  The others never run beyond the cap on one account, whatever
\* images run there and however the strategy changes under them (selector.py
\* filters on the inflight column, which counts the images too).
Capped(r) == product[r] # "image" \/ "quota" \notin Strategies

CappedHolders(t) == {r \in Holders(t) : Capped(r)}

UnderCap(n) == \E s \in Strategies : n <= Cap[s]

ConcurrencyCap == \A t \in Tokens : UnderCap(Cardinality(CappedHolders(t)))

-----------------------------------------------------------------------------
(* The inductive invariant *)

\* A request holds an account exactly while it is opening or running.
LeaseOK ==
    \A r \in Requests : /\ lease[r] # Nothing <=> pc[r] \in {"opening", "running"}
                        /\ pc[r] # "idle" => product[r] \in Products

\* Nothing is in flight on a token that has never had a slot.
AbsentIdle == \A t \in Tokens : slot[t].status = "absent" => inflight[t] = 0

DirectoryInv ==
    /\ TypeOK
    /\ LeaseOK
    /\ AbsentIdle
    /\ ModeIndexExact
    /\ InflightCounts
    /\ ConcurrencyCap
=============================================================================
