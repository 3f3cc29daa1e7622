---------------------------- MODULE AccountUsage ----------------------------
(***************************************************************************)
(* The stored record of one "basic" account and everybody who rewrites it: *)
(* the tasks a finished request leaves behind (app/control/account/        *)
(* refresh.py), the leader's maintenance loops and the operator, who       *)
(* disables, restores and uploads tokens (products/web/admin/tokens.py).   *)
(* Deletion, and an edit that gives the account another token, end the     *)
(* record and are left out.                                                *)
(*                                                                         *)
(* A patch is one transaction, but most writers read the record first,     *)
(* await something and then patch absolute values computed from the copy.  *)
(* The console window (mode 5) has no upstream to ask: the record is all   *)
(* that is known of it.                                                    *)
(*                                                                         *)
(* Times are kept as the ticks left until they pass, in the record and in  *)
(* every copy judged when it is written: 0 has passed, None was never set. *)
(***************************************************************************)
EXTENDS Integers

CONSTANTS
    Tasks,        \* fire-and-forget tasks of finished console calls
    Loops,        \* who runs recover_console_expired_accounts: two leader loops
    ConsoleLimit, \* BASIC_CONSOLE_LIMIT
    Threshold,    \* at or below it the recovery timer starts (12 of 20)
    Window,       \* ticks of a console window
    None,
    Legacy,       \* whether the store may hold records of the retired 429 policy
    MaxCrashes    \* bound on restarts of the process

ASSUME UsageAssumption ==
    /\ ConsoleLimit \in Nat /\ Threshold \in Nat /\ Threshold + 1 < ConsoleLimit
    /\ Window \in Nat \ {0}
    /\ None \notin Int
    /\ Legacy \in BOOLEAN
    /\ MaxCrashes \in Nat

VARIABLES
    status, reason,  \* of the record
    console,         \* its console window: what is left and when it resets
    usePc, useCopy,  \* the call tasks, and the window each one read
    fetchPc, fetchCopy,  \* the scheduled refresh
    loopPc, loopLimited, \* the maintenance loops, and whether the window seen had a reset ahead
    barred,          \* history: disabled by the operator, and since then neither
                     \* restored nor uploaded again
    marked,          \* history: the record came with the marker of the retired policy
    crashes

record    == <<status, reason, console, barred, marked>>
use       == <<usePc, useCopy>>
fetch     == <<fetchPc, fetchCopy>>
loops     == <<loopPc, loopLimited>>
usageVars == <<record, use, fetch, loops, crashes>>

Quota == [left : 0..ConsoleLimit, reset : {None} \cup 0..Window]

Full == [left |-> ConsoleLimit, reset |-> None]

UsageTypeOK ==
    /\ status \in {"active", "cooling", "expired", "disabled"}
    /\ reason \in {"none", "legacy", "invalid", "operator"}
    /\ console \in Quota
    /\ usePc \in [Tasks -> {"idle", "write"}] /\ useCopy \in [Tasks -> Quota]
    /\ fetchPc \in {"idle", "write"} /\ fetchCopy \in Quota
    /\ loopPc \in [Loops -> {"idle", "clear", "follow"}] /\ loopLimited \in [Loops -> BOOLEAN]
    /\ barred \in BOOLEAN /\ marked \in BOOLEAN
    /\ crashes \in 0..MaxCrashes

UsageInit ==
    /\ \/ status = "active" /\ reason = "none" /\ console = Full /\ marked = FALSE
       \/ /\ Legacy /\ marked = TRUE
          /\ status \in {"expired", "cooling"} /\ reason = "legacy"
          /\ console \in {[left |-> 0, reset |-> k] : k \in 0..Window}
    /\ usePc = [t \in Tasks |-> "idle"] /\ useCopy = [t \in Tasks |-> Full]
    /\ fetchPc = "idle" /\ fetchCopy = Full
    /\ loopPc = [l \in Loops |-> "idle"] /\ loopLimited = [l \in Loops |-> FALSE]
    /\ barred = FALSE
    /\ crashes = 0

-----------------------------------------------------------------------------
(* The console window *)

\* QuotaWindow.is_window_expired
Expired(q) == q.reset = 0

LeftAfter(n) == IF n > 0 THEN n - 1 ELSE 0

\* Mutant: the timer starts only once nothing is left to deduct.
DeductedLate(q) ==
    IF Expired(q) THEN [left |-> LeftAfter(ConsoleLimit), reset |-> None]
    ELSE [left  |-> LeftAfter(q.left),
          reset |-> IF q.reset = None /\ q.left = 0 THEN Window ELSE q.reset]

\* _apply_single_mode without a fetched window: one call less, in a fresh
\* window if the old one has ended; the timer starts at the threshold.
Deducted(q) ==
    IF Expired(q) THEN [left |-> LeftAfter(ConsoleLimit), reset |-> None]
    ELSE [left  |-> LeftAfter(q.left),
          reset |-> IF q.reset = None /\ LeftAfter(q.left) <= Threshold
                    THEN Window ELSE q.reset]

\* A tick brings a time one nearer.
Sooner(q) == [q EXCEPT !.reset = IF @ = None \/ @ = 0 THEN @ ELSE @ - 1]

Tick ==
    /\ console' = Sooner(console)
    /\ useCopy' = [t \in Tasks |-> Sooner(useCopy[t])]
    /\ fetchCopy' = Sooner(fetchCopy)
    /\ UNCHANGED <<status, reason, barred, marked, usePc, fetchPc, loops, crashes>>

-----------------------------------------------------------------------------
(* After a request *)

\* refresh_call_async: get_accounts ...
UseRead(t) ==
    /\ usePc[t] = "idle"
    /\ usePc' = [usePc EXCEPT ![t] = "write"]
    /\ useCopy' = [useCopy EXCEPT ![t] = console]
    /\ UNCHANGED <<record, fetch, loops, crashes>>

\* ... then patch_accounts with the window computed from the copy.
UseWrite(t) ==
    /\ usePc[t] = "write"
    /\ console' = Deducted(useCopy[t])
    /\ usePc' = [usePc EXCEPT ![t] = "idle"]
    /\ useCopy' = [useCopy EXCEPT ![t] = Full]
    /\ UNCHANGED <<status, reason, barred, marked, fetch, loops, crashes>>

\* record_failure_async with confirmed invalid credentials, whatever the
\* record's status is by then.
MarkInvalidCredentials ==
    /\ status' = "expired" /\ reason' = "invalid"
    /\ UNCHANGED <<console, barred, marked, use, fetch, loops, crashes>>

-----------------------------------------------------------------------------
(* The leader's maintenance *)

\* refresh_scheduled takes a snapshot of the manageable records ...
FetchRead ==
    /\ fetchPc = "idle"
    /\ status \in {"active", "cooling"}
    /\ fetchPc' = "write"
    /\ fetchCopy' = console
    /\ UNCHANGED <<record, use, loops, crashes>>

\* ... and, the upstream asked, _refresh_one refills a console window whose
\* copy has ended.
FetchWrite ==
    /\ fetchPc = "write"
    /\ console' = IF Expired(fetchCopy) THEN Full ELSE console
    /\ fetchPc' = "idle"
    /\ fetchCopy' = Full
    /\ UNCHANGED <<status, reason, barred, marked, use, loops, crashes>>

\* Mutant: the sweep misses what is exhausted with its timer elapsed.
ResetExpiredConsoleWindowsNoTimer ==
    /\ status = "active"
    /\ console.left = 0 /\ console.reset = None
    /\ console' = Full
    /\ UNCHANGED <<status, reason, barred, marked, use, fetch, loops, crashes>>

\* reset_expired_console_windows, one transaction.
ResetExpiredConsoleWindows ==
    /\ status = "active"
    /\ Expired(console) \/ (console.left = 0 /\ console.reset = None)
    /\ console' = Full
    /\ UNCHANGED <<status, reason, barred, marked, use, fetch, loops, crashes>>

\* Mutant: any expired record is taken for one of the retired policy.
RecoverReadAnyReason(l) ==
    /\ loopPc[l] = "idle"
    /\ status \in {"expired", "cooling"}
    /\ loopPc' = [loopPc EXCEPT ![l] = "clear"]
    /\ loopLimited' = [loopLimited EXCEPT ![l] = console.reset \notin {None, 0}]
    /\ UNCHANGED <<record, use, fetch, crashes>>

\* recover_console_expired_accounts: a snapshot picks the record ...
RecoverRead(l) ==
    /\ loopPc[l] = "idle"
    /\ status \in {"expired", "cooling"} /\ reason = "legacy"
    /\ loopPc' = [loopPc EXCEPT ![l] = "clear"]
    /\ loopLimited' = [loopLimited EXCEPT ![l] = console.reset \notin {None, 0}]
    /\ UNCHANGED <<record, use, fetch, crashes>>

\* ... a first patch clears its failures, which makes it ACTIVE ...
RecoverClear(l) ==
    /\ loopPc[l] = "clear"
    /\ status' = "active" /\ reason' = "none"
    /\ loopPc' = [loopPc EXCEPT ![l] = "follow"]
    /\ UNCHANGED <<console, barred, marked, loopLimited, use, fetch, crashes>>

\* ... a second one cools it until the window it had ends, or refills it.
RecoverFollow(l) ==
    /\ loopPc[l] = "follow"
    /\ IF loopLimited[l]
       THEN /\ status' = "cooling" /\ reason' = "legacy"
            /\ UNCHANGED console
       ELSE /\ console' = Full
            /\ UNCHANGED <<status, reason>>
    /\ loopPc' = [loopPc EXCEPT ![l] = "idle"]
    /\ loopLimited' = [loopLimited EXCEPT ![l] = FALSE]
    /\ UNCHANGED <<barred, marked, use, fetch, crashes>>

-----------------------------------------------------------------------------
(* The operator, and the process *)

\* toggle_token_disabled
Disable ==
    /\ status' = "disabled" /\ reason' = "operator"
    /\ barred' = TRUE
    /\ UNCHANGED <<console, marked, use, fetch, loops, crashes>>

Restore ==
    /\ status' = "active" /\ reason' = "none"
    /\ barred' = FALSE
    /\ UNCHANGED <<console, marked, use, fetch, loops, crashes>>

\* upsert_accounts on a token the store has: the operator edits its pool
\* (edit_token), saves the table of tokens (save_tokens) or replaces the pool
\* (replace_pool).  Whatever it was, the account is ACTIVE with a fresh console
\* window; the reason it had before stays.
Upsert ==
    /\ status' = "active"
    /\ console' = Full
    /\ barred' = FALSE
    /\ UNCHANGED <<reason, marked, use, fetch, loops, crashes>>

\* Whatever was read and not yet written is lost.
Crash ==
    /\ crashes < MaxCrashes
    /\ crashes' = crashes + 1
    /\ usePc' = [t \in Tasks |-> "idle"] /\ useCopy' = [t \in Tasks |-> Full]
    /\ fetchPc' = "idle" /\ fetchCopy' = Full
    /\ loopPc' = [l \in Loops |-> "idle"] /\ loopLimited' = [l \in Loops |-> FALSE]
    /\ UNCHANGED record

RecoverStep(l) == RecoverRead(l) \/ RecoverClear(l) \/ RecoverFollow(l)

UsageNext ==
    \/ Tick
    \/ \E t \in Tasks : UseRead(t) \/ UseWrite(t)
    \/ MarkInvalidCredentials
    \/ FetchRead \/ FetchWrite
    \/ ResetExpiredConsoleWindows
    \/ \E l \in Loops : RecoverStep(l)
    \/ Disable \/ Restore \/ Upsert
    \/ Crash

UsageSpec == UsageInit /\ [][UsageNext]_usageVars

\* Time passes and the leader's loops go on; nobody has to call, fetch or fail.
Fairness ==
    /\ WF_usageVars(Tick)
    /\ WF_usageVars(ResetExpiredConsoleWindows)
    /\ \A l \in Loops : WF_usageVars(RecoverStep(l))

FairUsageSpec == UsageSpec /\ Fairness

-----------------------------------------------------------------------------
(* Properties *)

\* A window at or below the threshold has its timer set, in the record and in
\* every copy that may still be written over it: no stale write brings back an
\* exhausted window that nothing ends (refresh._apply_single_mode).
Timed(q) == q.left <= Threshold => q.reset # None

TimerRuns ==
    /\ Timed(console)
    /\ \A t \in Tasks : Timed(useCopy[t])

\* What the operator disabled is not selectable until the operator restores it
\* or uploads the token again.
\* The comment on recover_console_expired_accounts claims it of every record:
\* recovery leaves "all genuine expired/disabled accounts untouched".
DisabledStays == barred => status \in {"disabled", "expired"}

\* It does hold of a record that never had the marker of the retired policy:
\* only the operator's own requests bring it back, with any number of
\* recoveries, refreshes, late calls, late 401s and restarts in between, and
\* after uploads that made it ACTIVE with an old reason still on it.
UnmarkedStays == ~marked => DisabledStays

\* Out of service for good: disabled, or its credentials refused.
Retired == status = "disabled" \/ (status = "expired" /\ reason # "legacy")

\* An exhausted console window is eventually refilled, stale writes and
\* restarts notwithstanding, unless the account is taken out of service
\* (reset_expired_console_windows, recover_console_expired_accounts).  An
\* account uploaded again is in service whatever reason it kept.
ExhaustedRefilled ==
    (console.left = 0 /\ ~Retired) ~> (console.left > 0 \/ Retired)

-----------------------------------------------------------------------------
(* The inductive invariant *)

\* An unmarked record never looks like one of the retired policy, so no loop
\* ever has anything to clear.
Unmarked ==
    ~marked => reason # "legacy" /\ \A l \in Loops : loopPc[l] = "idle"

UsageInv == UsageTypeOK /\ TimerRuns /\ Unmarked /\ UnmarkedStays
=============================================================================
