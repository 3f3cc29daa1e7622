------------------------------ MODULE XaiOAuth ------------------------------
(***************************************************************************)
(* One xAI OAuth account (services/xai_cli_oauth_store.py) and those who   *)
(* use its credential (services/xai_cli_oauth_service.py): requests, tests *)
(* and refreshes of the API's event loop, batches of the probe scheduler,  *)
(* and the workers that authorize registered accounts.  A batch and a job  *)
(* run in an event loop of their own, in another thread.                   *)
(*                                                                         *)
(* A refresh exchanges the refresh token for the next one: the upstream    *)
(* takes each token once.  An asyncio.Lock per account keeps two refreshes *)
(* apart; it belongs to the loop that first had to wait for it.            *)
(*                                                                         *)
(* Tokens are numbered as the upstream issues them.  Every access to the   *)
(* store is one step; what lies between two is an await.  The account is   *)
(* never deleted.                                                          *)
(***************************************************************************)
EXTENDS Naturals, Sequences, FiniteSets

CONSTANTS
    Main, Batches, Workers,  \* tasks of the API's loop; threads with their own
    Jobs,        \* authorizations of the account, in order
    MaxAttempts, \* _PROTOCOL_QUEUE_MAX_ATTEMPTS
    MaxTokens,   \* bounds on what the upstream issues, and on expiries,
    MaxEvents    \* revocations, lost answers and the operator's toggles

Tasks == Main \cup Batches \cup Workers

ASSUME XaiAssumption ==
    /\ Main \cap Batches = {} /\ Main \cap Workers = {} /\ Batches \cap Workers = {}
    /\ Tasks \cap {"none", "main", "gone"} = {}
    /\ Jobs \subseteq Nat \ {0} /\ \A j \in Jobs : 1..j \subseteq Jobs
    /\ {MaxAttempts, MaxTokens, MaxEvents} \subseteq Nat \ {0}

VARIABLES
    account,          \* the stored record: status, refresh token, and whether
                      \* its access token is good for more than a minute
    live, issued,     \* tokens the upstream would take; the newest one
    holder, waiters, bound,           \* the refresh lock, and its event loop
    pc, kind, forced, verdict,        \* the tasks, and what the answers so far say
    wasInvalid,       \* the copy a test has of the account says invalid
    token,            \* the refresh token a task sent or was sent, or 0
    job, taken, attempt, retryable,   \* jobs; the one a worker has, its tries, and
                      \* whether it failed in a way that is worth another
    spoiled,          \* history: the stored token was revoked, or never came
    overtaken,        \* history: refreshes under way when a credential came
    retried,          \* history: jobs that became pending again, until they are over
    events

lockVars == <<holder, waiters, bound>>
taskVars == <<pc, kind, forced, verdict, wasInvalid, token>>
jobVars  == <<job, taken, attempt, retryable, retried>>
upstream == <<live, issued, spoiled, overtaken>>
vars     == <<account, lockVars, taskVars, jobVars, upstream, events>>

Statuses == {"active", "invalid", "disabled"}
Account  == [status : Statuses, token : 1..MaxTokens, fresh : BOOLEAN]
Kinds    == {"request", "test", "refresh", "batch", "import"}
Verdicts == {"valid", "invalid", "unknown"}
Active   == {"pending", "running"}

TypeOK ==
    /\ account \in Account
    /\ issued \in 1..MaxTokens /\ live \subseteq 1..issued
    /\ holder \in Tasks \cup {"none"} /\ waiters \in Seq(Tasks)
    /\ bound \in Tasks \cup {"none", "main", "gone"}
    /\ pc \in [Tasks -> {"idle", "post", "lock", "wait", "exchange", "save", "write",
                         "setup", "authorize", "adopt", "judge"}]
    /\ kind \in [Tasks -> Kinds \cup {"none"}]
    /\ wasInvalid \in [Tasks -> BOOLEAN] /\ token \in [Tasks -> 0..MaxTokens]
    /\ forced \in [Tasks -> BOOLEAN]
    /\ verdict \in [Tasks -> Verdicts]
    /\ job \in [Jobs -> {"none", "ended"} \cup Active]
    /\ taken \in [Workers -> Jobs \cup {0}]
    /\ attempt \in [Workers -> 0..MaxAttempts]
    /\ retryable \in [Workers -> BOOLEAN]
    /\ spoiled \in BOOLEAN /\ overtaken \subseteq Tasks /\ retried \subseteq Jobs
    /\ events \in 0..MaxEvents

Init ==
    /\ account = [status |-> "active", token |-> 1, fresh |-> TRUE]
    /\ live = {1} /\ issued = 1
    /\ holder = "none" /\ waiters = <<>> /\ bound = "none"
    /\ pc = [t \in Tasks |-> "idle"] /\ kind = [t \in Tasks |-> "none"]
    /\ wasInvalid = [t \in Tasks |-> FALSE] /\ token = [t \in Tasks |-> 0]
    /\ forced = [t \in Tasks |-> FALSE]
    /\ verdict = [t \in Tasks |-> "unknown"]
    /\ job = [j \in Jobs |-> "none"] /\ taken = [w \in Workers |-> 0]
    /\ attempt = [w \in Workers |-> 0] /\ retryable = [w \in Workers |-> FALSE]
    /\ spoiled = FALSE /\ overtaken = {} /\ retried = {} /\ events = 0

Event == events < MaxEvents /\ events' = events + 1

-----------------------------------------------------------------------------
(* How a task goes on *)

\* The loop a task runs in.
Loop(t) == IF t \in Main THEN "main" ELSE t

\* The loop of a thread ends with its run; the lock stays bound to it.
LoopEnds(t) == bound' = IF bound = t THEN "gone" ELSE bound

Goes(t, label) == pc' = [pc EXCEPT ![t] = label]

\* The task is over and remembers nothing.
Over(t) ==
    /\ Goes(t, "idle")
    /\ kind' = [kind EXCEPT ![t] = "none"]
    /\ wasInvalid' = [wasInvalid EXCEPT ![t] = FALSE]
    /\ token' = [token EXCEPT ![t] = 0]
    /\ forced' = [forced EXCEPT ![t] = FALSE]
    /\ verdict' = [verdict EXCEPT ![t] = "unknown"]

\* The lock wakes its first waiter, who leaves the queue when it runs.
Release == holder' = "none" /\ UNCHANGED waiters

\* The copy of the account a test has.
Copies(t, status) ==
    wasInvalid' = [wasInvalid EXCEPT ![t] = (kind[t] = "test" /\ status = "invalid")]

\* _ensure_access_token before the lock: an access token that is good is used.
Ensures(t, force) ==
    /\ forced' = [forced EXCEPT ![t] = force]
    /\ Goes(t, IF account'.fresh /\ ~force THEN "post" ELSE "lock")
    /\ token' = [token EXCEPT ![t] = 0]
    /\ UNCHANGED verdict

-----------------------------------------------------------------------------
(* What the upstream's answer does to the account *)

Judgement(a) ==
    CASE a \in {"ok", "limited"} -> "valid"
      [] a \in {"denied", "blocked", "refused"} -> "invalid"
      [] OTHER -> "unknown"

\* update_probe_results
Judged(status, v) ==
    CASE v = "valid" /\ status # "disabled" -> "active"
      [] v = "invalid" /\ status # "disabled" -> "invalid"
      [] OTHER -> status

\* _mark_response_failure of a request or a test; a refresh that is refused
\* comes before whatever its caller makes of it.
Marked(t, a) ==
    IF a = "refused" \/ (kind[t] \in {"request", "test"} /\ a \in {"denied", "blocked"})
    THEN "invalid" ELSE account.status

\* test_account goes by the status it read when it began.
StatusAfter(t, a) ==
    CASE kind[t] = "test" /\ a = "ok" ->
            IF wasInvalid[t] THEN "active" ELSE Judged(account.status, "valid")
      [] kind[t] = "import" -> Judged(Marked(t, a), Judgement(a))
      [] OTHER -> Marked(t, a)

\* The task has its last answer.
Concludes(t, a) ==
    /\ account' = [account EXCEPT !.status = StatusAfter(t, a)]
    /\ CASE kind[t] = "batch" ->
              /\ Goes(t, "write")
              /\ verdict' = [verdict EXCEPT ![t] = Judgement(a)]
              /\ token' = [token EXCEPT ![t] = 0]
              /\ UNCHANGED <<kind, forced, wasInvalid, jobVars>>
         [] kind[t] = "import" ->
              /\ Goes(t, "judge")
              /\ job' = [job EXCEPT ![taken[t]] = "ended"]
              /\ token' = [token EXCEPT ![t] = 0]
              /\ UNCHANGED <<kind, forced, verdict, wasInvalid, taken, attempt, retryable, retried>>
         [] OTHER -> Over(t) /\ UNCHANGED jobVars

-----------------------------------------------------------------------------
(* Requests, tests, refreshes and batches *)

Begin(t, k) ==
    /\ pc[t] = "idle"
    /\ IF t \in Main THEN k \in {"request", "test", "refresh"}
                     ELSE t \in Batches /\ k = "batch"
    /\ k = "request" => account.status = "active"
    /\ k = "batch" => account.status # "disabled"
    /\ kind' = [kind EXCEPT ![t] = k]
    /\ wasInvalid' = [wasInvalid EXCEPT ![t] = (k = "test" /\ account.status = "invalid")]
    /\ UNCHANGED account
    /\ Ensures(t, k = "refresh")
    /\ UNCHANGED <<lockVars, jobVars, upstream, events>>

\* _ensure_access_token under the lock: another may have refreshed meanwhile.
Current(t) ==
    /\ Copies(t, account.status)
    /\ IF account.fresh /\ ~forced[t]
       THEN Goes(t, "post") /\ holder' = "none" /\ UNCHANGED token
       ELSE Goes(t, "exchange") /\ holder' = t /\ token' = [token EXCEPT ![t] = account.token]
    /\ UNCHANGED <<kind, forced, verdict, account, bound, jobVars, upstream, events>>

\* Mutant: two refreshes side by side.
LockBeside(t) ==
    /\ pc[t] = "lock"
    /\ Current(t)
    /\ UNCHANGED waiters

\* The lock is taken at once when it is free and nobody waits for it.
Lock(t) ==
    /\ pc[t] = "lock"
    /\ holder = "none" /\ waiters = <<>>
    /\ Current(t)
    /\ UNCHANGED waiters

\* Else the task waits in the loop the lock is bound to, or fails in another.
Block(t) ==
    /\ pc[t] = "lock"
    /\ holder # "none" \/ waiters # <<>>
    /\ IF bound \in {"none", Loop(t)}
       THEN /\ bound' = Loop(t)
            /\ waiters' = Append(waiters, t)
            /\ Goes(t, "wait")
            /\ UNCHANGED <<account, kind, forced, verdict, wasInvalid, token, jobVars>>
       ELSE Concludes(t, "error") /\ UNCHANGED <<waiters, bound>>
    /\ UNCHANGED <<holder, upstream, events>>

\* A loop that has timers, or traffic, notices that its task was woken from
\* another thread.  That of a worker sleeps on.
Wake(t) ==
    /\ pc[t] = "wait" /\ t \notin Workers
    /\ holder = "none" /\ t = Head(waiters)
    /\ waiters' = Tail(waiters)
    /\ Current(t)

-----------------------------------------------------------------------------
(* The refresh *)

\* The upstream takes the token and issues the next.
Rotate(t) ==
    /\ pc[t] = "exchange"
    /\ token[t] \in live /\ issued < MaxTokens
    /\ issued' = issued + 1
    /\ live' = (live \ {token[t]}) \cup {issued + 1}
    /\ token' = [token EXCEPT ![t] = issued + 1]
    /\ Goes(t, "save")
    /\ UNCHANGED <<account, lockVars, kind, forced, verdict, wasInvalid, jobVars, spoiled, overtaken, events>>

\* invalid_grant
Refuse(t) ==
    /\ pc[t] = "exchange"
    /\ token[t] \notin live
    /\ Concludes(t, "refused")
    /\ Release
    /\ overtaken' = overtaken \ {t}
    /\ UNCHANGED <<bound, live, issued, spoiled, events>>

\* Mutant: a credential that arrives puts the account back in service.
SavedActive(new) == [status |-> "active", token |-> new, fresh |-> TRUE]

\* Mutant: the refresh token that came with the answer is not stored.
SavedToken(new) ==
    [status |-> IF account.status = "disabled" THEN "disabled" ELSE "active",
     token |-> account.token, fresh |-> TRUE]

\* update_tokens; upsert and _merge_account
Saved(new) ==
    [status |-> IF account.status = "disabled" THEN "disabled" ELSE "active",
     token |-> new, fresh |-> TRUE]

\* The answer arrives and is stored, before the lock is released.
Save(t) ==
    /\ pc[t] = "save"
    /\ account' = Saved(token[t])
    /\ spoiled' = (token[t] \notin live)
    /\ overtaken' = overtaken \ {t}
    /\ Release
    /\ IF kind[t] = "refresh"
       THEN Over(t)
       ELSE /\ Goes(t, "post")
            /\ Copies(t, account'.status)
            /\ token' = [token EXCEPT ![t] = 0]
            /\ UNCHANGED <<kind, forced, verdict>>
    /\ UNCHANGED <<bound, jobVars, live, issued, events>>

\* The exchange fails before the token is taken.
Fail(t) ==
    /\ pc[t] = "exchange"
    /\ Concludes(t, "error")
    /\ Release
    /\ overtaken' = overtaken \ {t}
    /\ UNCHANGED <<bound, live, issued, spoiled, events>>

\* The token is taken, and the answer does not arrive.
LoseAnswer(t) ==
    /\ Event
    /\ pc[t] = "save"
    /\ Concludes(t, "error")
    /\ Release
    /\ spoiled' = (spoiled \/ account.token \notin live)
    /\ overtaken' = overtaken \ {t}
    /\ UNCHANGED <<bound, live, issued>>

\* The answer to the call itself; a denial is met by one forced refresh.
Post(t) ==
    /\ pc[t] = "post"
    /\ \/ /\ ~forced[t]
          /\ UNCHANGED account
          /\ Ensures(t, TRUE)
          /\ UNCHANGED <<kind, wasInvalid, jobVars>>
       \/ \E a \in {"ok", "limited", "blocked", "error"} \cup {x \in {"denied"} : forced[t]} :
             Concludes(t, a)
    /\ UNCHANGED <<lockVars, upstream, events>>

\* probe_accounts writes what it found when all its probes have ended.
Write(t) ==
    /\ pc[t] = "write"
    /\ account' = [account EXCEPT !.status = Judged(@, verdict[t])]
    /\ Over(t)
    /\ LoopEnds(t)
    /\ UNCHANGED <<holder, waiters, jobVars, upstream, events>>

-----------------------------------------------------------------------------
(* Protocol jobs *)

\* Mutant: only a job that runs is in the way.
IdleAny == \A j \in Jobs : job[j] # "running"

\* No job for the account is under way.
Idle == \A j \in Jobs : job[j] \notin Active

\* start_protocol_authorization_background; while a job is active it is reused.
Start(j) ==
    /\ Idle
    /\ job[j] = "none" /\ \A i \in 1..(j - 1) : job[i] # "none"
    /\ job' = [job EXCEPT ![j] = "pending"]
    /\ UNCHANGED <<account, lockVars, taskVars, taken, attempt, retryable, retried, upstream, events>>

\* A worker takes a job from the queue.
Take(w, j) ==
    /\ pc[w] = "idle" /\ job[j] = "pending"
    /\ \A v \in Workers : taken[v] # j
    /\ taken' = [taken EXCEPT ![w] = j]
    /\ attempt' = [attempt EXCEPT ![w] = 1]
    /\ Goes(w, "setup")
    /\ UNCHANGED <<account, lockVars, kind, forced, verdict, wasInvalid, token, job, retryable, retried,
                   upstream, events>>

\* What raises before the try of _run_protocol_authorization ends the thread and
\* leaves the job pending for good: the worker takes no further step, which
\* nothing here obliges it to do.
SetUp(w) ==
    /\ pc[w] = "setup"
    /\ job' = [job EXCEPT ![taken[w]] = "running"]
    /\ Goes(w, "authorize")
    /\ UNCHANGED <<account, lockVars, kind, forced, verdict, wasInvalid, token, taken, attempt, retryable,
                   retried, upstream, events>>

\* The user's session is turned into a credential.
Authorize(w) ==
    /\ pc[w] = "authorize" /\ issued < MaxTokens
    /\ issued' = issued + 1
    /\ live' = live \cup {issued + 1}
    /\ token' = [token EXCEPT ![w] = issued + 1]
    /\ Goes(w, "adopt")
    /\ UNCHANGED <<account, lockVars, kind, forced, verdict, wasInvalid, jobVars, spoiled,
                   overtaken, events>>

\* The authorization fails, or the credential shows no models.
JobFails(w) ==
    /\ pc[w] \in {"authorize", "adopt"}
    /\ job' = [job EXCEPT ![taken[w]] = "ended"]
    /\ \E again \in {FALSE, pc[w] = "authorize"} : retryable' = [retryable EXCEPT ![w] = again]
    /\ Goes(w, "judge")
    /\ token' = [token EXCEPT ![w] = 0]
    /\ UNCHANGED <<account, lockVars, kind, forced, verdict, wasInvalid, taken, attempt, retried,
                   upstream, events>>

\* import_credentials: the credential replaces the stored one, and is probed.
Adopt(w) ==
    /\ pc[w] = "adopt"
    /\ account' = Saved(token[w])
    /\ spoiled' = (token[w] \notin live)
    /\ overtaken' = overtaken \cup {t \in Tasks : pc[t] \in {"exchange", "save"}}
    /\ kind' = [kind EXCEPT ![w] = "import"]
    /\ Ensures(w, FALSE)
    /\ UNCHANGED <<wasInvalid, lockVars, jobVars, live, issued, events>>

\* The worker looks at the job it ran; a failure may make it pending again.
Judge(w) ==
    /\ pc[w] = "judge"
    /\ LoopEnds(w)
    /\ IF retryable[w] /\ attempt[w] < MaxAttempts
       THEN /\ job' = [job EXCEPT ![taken[w]] = "pending"]
            /\ retried' = retried \cup {taken[w]}
            /\ attempt' = [attempt EXCEPT ![w] = @ + 1]
            /\ Goes(w, "setup")
            /\ UNCHANGED <<taken, kind, forced, verdict, wasInvalid, token>>
       ELSE /\ taken' = [taken EXCEPT ![w] = 0]
            /\ attempt' = [attempt EXCEPT ![w] = 0]
            /\ retried' = retried \ {taken[w]}
            /\ Over(w)
            /\ UNCHANGED job
    /\ retryable' = [retryable EXCEPT ![w] = FALSE]
    /\ UNCHANGED <<account, holder, waiters, upstream, events>>

-----------------------------------------------------------------------------
(* The operator, time and the upstream *)

\* set_disabled
Toggle(status) ==
    /\ Event
    /\ account.status # status
    /\ account' = [account EXCEPT !.status = status]
    /\ UNCHANGED <<lockVars, taskVars, jobVars, upstream>>

Expire ==
    /\ Event
    /\ account.fresh
    /\ account' = [account EXCEPT !.fresh = FALSE]
    /\ UNCHANGED <<lockVars, taskVars, jobVars, upstream>>

\* All sessions of the user are closed.
Revoke ==
    /\ Event
    /\ live' = {} /\ spoiled' = TRUE
    /\ UNCHANGED <<account, lockVars, taskVars, jobVars, issued, overtaken>>

\* A batch is stopped, or the client of a stream leaves.
Cancel(t) ==
    /\ Event
    /\ kind[t] \in {"batch", "request"} /\ pc[t] \in {"post", "lock", "wait", "exchange", "save"}
    /\ Over(t)
    /\ LoopEnds(t)
    /\ IF pc[t] = "wait"
       THEN \E i \in DOMAIN waiters :
              /\ waiters[i] = t
              /\ waiters' = SubSeq(waiters, 1, i - 1) \o SubSeq(waiters, i + 1, Len(waiters))
       ELSE UNCHANGED waiters
    /\ holder' = IF holder = t THEN "none" ELSE holder
    /\ spoiled' = (spoiled \/ (pc[t] = "save" /\ account.token \notin live))
    /\ overtaken' = overtaken \ {t}
    /\ UNCHANGED <<account, jobVars, live, issued>>

Step(t) ==
    \/ Lock(t) \/ Block(t) \/ Wake(t) \/ Rotate(t) \/ Refuse(t) \/ Fail(t) \/ Save(t)
    \/ Post(t) \/ Write(t)

Work(w) ==
    \/ \E j \in Jobs : Take(w, j)
    \/ SetUp(w) \/ Authorize(w) \/ JobFails(w) \/ Adopt(w) \/ Judge(w)

Next ==
    \/ \E t \in Tasks, k \in Kinds : Begin(t, k)
    \/ \E t \in Tasks : Step(t) \/ LoseAnswer(t) \/ Cancel(t)
    \/ \E w \in Workers : Work(w)
    \/ \E j \in Jobs : Start(j)
    \/ \E status \in {"active", "disabled"} : Toggle(status)
    \/ Expire \/ Revoke

Spec == Init /\ [][Next]_vars

-----------------------------------------------------------------------------
(* Properties *)

\* The refresh lock is held exactly during an exchange, and its queue holds
\* those who wait for it, all in the loop it is bound to.
LockOK ==
    /\ \A t \in Tasks : pc[t] \in {"exchange", "save"} <=> holder = t
    /\ \A t \in Tasks : pc[t] = "wait" <=> \E i \in DOMAIN waiters : waiters[i] = t
    /\ \A i \in DOMAIN waiters : Loop(waiters[i]) = bound

\* The stored refresh token is one the upstream takes, or its successor is on
\* its way into the store, unless it was revoked or an answer was lost.
TokenKept ==
    account.token \in live \/ spoiled \/ \E t \in Tasks : pc[t] = "save" /\ token[t] \in live

\* Only one task at a time exchanges the refresh token, and what refreshes,
\* imports and late writes leave in the store can be refreshed.  It need not be
\* the newest: update_tokens and _merge_account compare nothing, so a refresh
\* that was under way when an import came stores its token over the import's.
XaiInv == TypeOK /\ LockOK /\ TokenKept

\* A refresh is refused, and the account declared invalid for it, only when its
\* token was revoked, or lost with an answer, or replaced by an import while the
\* refresh was under way: never because another refresh took the token first
\* (_ensure_access_token reads the account again once it has the lock).
RefusalEarned ==
    \A t \in Tasks :
        pc[t] = "exchange" => token[t] \in live \/ spoiled \/ t \in overtaken

\* A disabled account leaves that status in three ways only: the operator
\* enables it; a test succeeds that read it as invalid; a refresh of a dead token
\* is refused, or a request or test denied, and it becomes invalid.  No save,
\* import or probe takes it out (_merge_account: "Disabled is an operator
\* decision").  Of an account that became invalid nobody remembers that it was
\* disabled: the next save, import or probe may put it in service.
DisabledKept ==
    [][account.status = "disabled" /\ account'.status # "disabled" =>
          \/ Toggle("active")
          \/ /\ account'.status = "active"
             /\ \E t \in Tasks : pc[t] = "post" /\ kind[t] = "test" /\ wasInvalid[t]
          \/ /\ account'.status = "invalid"
             /\ \E t \in Tasks : \/ pc[t] = "post" /\ kind[t] \in {"request", "test"}
                                 \/ pc[t] = "exchange" /\ token[t] \notin live]_vars

\* An account has one job at a time, however often its authorization is asked
\* for, except where a failed job becomes pending again after another began.
OneJob == \A i, j \in Jobs : {job[i], job[j]} \subseteq Active => i = j \/ {i, j} \cap retried # {}
=============================================================================
