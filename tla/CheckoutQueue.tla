---------------------------- MODULE CheckoutQueue ----------------------------
(***************************************************************************)
(* The queue that keeps asking for a payment link for saved accounts       *)
(* (services/register_service.py).  Jobs wait in a dictionary under one     *)
(* lock, worker threads claim them, and an attempt runs outside the lock.  *)
(* Stopping the queue sets its stop event and empties it; opening it again *)
(* makes a new event, a new condition and new workers: a generation.       *)
(* Workers of an earlier generation finish what they are doing.            *)
(*                                                                         *)
(* A task has one row in the table the operator sees, and a producer: the  *)
(* registration that saved the account, or the operator's batch.  A row is *)
(* active (queued, running, retrying), ended (success, failed) or          *)
(* cancelled, and the table has no more than MaxRows of them.  The run id  *)
(* that rows and jobs carry is chosen once and is left out.                *)
(*                                                                         *)
(* Of an account it matters whether it has a link, and its access token.   *)
(* The token is rotated by anything that refreshes it, the extraction of a *)
(* link among others; the older tokens go on naming the account, but the   *)
(* queue and the lock of the extraction compare tokens.                    *)
(***************************************************************************)
EXTENDS Naturals, FiniteSets, SequencesExt

CONSTANTS
    Accounts,
    Tasks,        \* task ids
    Registered,   \* the tasks of registrations; the others are the operator's
    Assignments,  \* the accounts the tasks may be for
    NoTask,
    ThreadCap,    \* checkout.threads
    MaxRows,      \* rows the table keeps (300)
    MaxTokens,    \* bound on the times the token of an account is rotated
    MaxGen,       \* bound on the times the queue is opened
    MaxDeaths     \* bound on the saves of the account pool that raise

ASSUME QueueAssumption ==
    /\ Registered \subseteq Tasks
    /\ Assignments \subseteq [Tasks -> Accounts]
    /\ NoTask \notin Tasks
    /\ ThreadCap \in Nat \ {0} /\ MaxRows \in Nat \ {0}
    /\ MaxTokens \in [Accounts -> Nat] /\ MaxGen \in Nat \ {0} /\ MaxDeaths \in Nat

\* A worker thread: its generation and its place among that generation's.
Workers == (1..MaxGen) \X (1..ThreadCap)

VARIABLES
    gen,       \* the current generation
    stopped,   \* its stop event is set
    jobGen,    \* the generation a job was queued under, 0 for no job
    inFlight,  \* jobs that are claimed
    order,     \* the jobs whose time has come, the earliest first
    row,       \* the row of a task
    cut,       \* history: tasks whose row the table lost to later ones
    ready,     \* the accounts with a final link
    token,     \* the access token of an account, by how often it was rotated
    carried,   \* the token a task has for its account
    at, job,   \* where a worker is, and the job it claimed
    key,       \* the token it extracts a link with
    made,      \* where the producer of a task is
    own,       \* the token a registration extracts a link with
    account,   \* the account of a task, which never changes
    deaths

event  == <<gen, stopped>>
queue  == <<jobGen, inFlight, order>>
table  == <<row, cut>>
worker == <<at, job, key>>
task   == <<made, own, carried>>
vars   == <<event, queue, table, ready, token, worker, task, account, deaths>>

jobs == {t \in Tasks : jobGen[t] > 0}

\* A worker that has claimed a job and not yet given the claim back.
Busy == {"begin", "running", "lock", "flow", "report", "succeed", "fail",
         "retry", "remove", "release", "die"}

TypeOK ==
    /\ gen \in 1..MaxGen /\ stopped \in BOOLEAN
    /\ jobGen \in [Tasks -> 0..MaxGen]
    /\ inFlight \in SUBSET Tasks
    /\ row \in [Tasks -> {"none", "active", "ended", "cancelled"}]
    /\ cut \in SUBSET Tasks
    /\ ready \in SUBSET Accounts
    /\ token \in [Accounts -> Nat]
    /\ carried \in [Tasks -> Nat]
    /\ key \in [Workers -> Nat] /\ own \in [Tasks -> Nat]
    /\ at \in [Workers -> Busy \cup {"off", "loop", "wait"}]
    /\ job \in [Workers -> Tasks \cup {NoTask}]
    /\ made \in [Tasks -> {"new", "asked", "saved", "lock", "flow", "ended", "enqueue",
                           "queued", "done"}]
    /\ account \in Assignments
    /\ deaths \in 0..MaxDeaths

Init ==
    /\ gen = 1 /\ stopped = FALSE
    /\ jobGen = [t \in Tasks |-> 0] /\ inFlight = {} /\ order = <<>>
    /\ row = [t \in Tasks |-> "none"] /\ cut = {}
    /\ ready = {}
    /\ token = [a \in Accounts |-> 0]
    /\ carried = [t \in Tasks |-> 0]
    /\ at = [w \in Workers |-> "off"]
    /\ job = [w \in Workers |-> NoTask]
    /\ key = [w \in Workers |-> 0]
    /\ made = [t \in Tasks |-> "new"]
    /\ own = [t \in Tasks |-> 0]
    /\ account \in Assignments
    /\ deaths = 0

-----------------------------------------------------------------------------
(* Pieces of the handlers *)

\* The stop event a thread of generation g looks at.
IsSet(g) == g < gen \/ stopped

Goto(w, label) == at' = [at EXCEPT ![w] = label]
Made(t, label) == made' = [made EXCEPT ![t] = label]

Shown == {t \in Tasks : row[t] # "none"}

\* _upsert_checkout_task, for each of some tasks in turn: the row is written, or
\* added again if it is gone, and the table is cut to its last rows.  Which rows
\* those are is left open, but for the one written last.
Rows(ts, status) ==
    \E kept \in SUBSET (Shown \cup ts) :
      /\ Cardinality(kept) = Min({MaxRows, Cardinality(Shown \cup ts)})
      /\ ts = {} \/ ts \cap kept # {}
      /\ row' = [t \in Tasks |-> IF t \notin kept THEN "none"
                                 ELSE IF t \in ts THEN status ELSE row[t]]
      /\ cut' = (cut \cup Shown \cup ts) \ kept

Row(t, status) == Rows({t}, status)

\* Mutant: nobody is woken.
WokenNone(f) == f

\* notify_all on the condition of the current generation
Woken(f) == [w \in Workers |-> IF w[1] = gen /\ f[w] = "wait" THEN "loop" ELSE f[w]]

\* Mutant: a write that carries no link takes the one there is away.
MarkedBare(a) == ready \ {a}

\* update_account with "pending" or "failed": a link that is ready stays.
Marked(a) == ready

Unclaimed == {t \in jobs : jobGen[t] = gen /\ t \notin inFlight}

\* The workers of this generation that have not ended.
Live == {w \in Workers : w[1] = gen /\ at[w] # "off"}

\* Workers wanted for n jobs.
Desired(n) == IF n < ThreadCap THEN n ELSE ThreadCap

\* _ensure_checkout_queue_locked: a stopped queue gets a new generation.
Reopen ==
    IF stopped
    THEN /\ gen < MaxGen
         /\ gen' = gen + 1 /\ stopped' = FALSE
    ELSE UNCHANGED event

-----------------------------------------------------------------------------
(* The queue under its lock *)

\* Tokens of different accounts differ.
SameToken(t, u) == account[t] = account[u] /\ carried[t] = carried[u]

\* Mutant: the stop event is not looked at.
AcceptedClosed(t) == \A u \in jobs : jobGen[u] = gen => ~SameToken(t, u)

\* A stopped queue, a known key and a second job for the token are refused.
Accepted(t) ==
    /\ ~stopped
    /\ t \notin jobs
    /\ \A u \in jobs : jobGen[u] = gen => ~SameToken(t, u)

\* _ensure_checkout_retry_workers_locked, with the job about to be added
Staffed(new) ==
    LET n == Desired(Cardinality({t \in jobs : jobGen[t] = gen}) + 1) IN
      /\ new \subseteq {w \in Workers : w[1] = gen /\ at[w] = "off"}
      /\ Cardinality(new) = IF n > Cardinality(Live) THEN n - Cardinality(Live) ELSE 0

\* _enqueue_checkout_retry: what is refused is refused without a word.
Enqueue(t) ==
    IF Accepted(t)
    THEN /\ jobGen' = [jobGen EXCEPT ![t] = gen]
         /\ inFlight' = inFlight \ {t}
         /\ order' = Append(order, t)
         /\ Row(t, "active")
         /\ \E new \in SUBSET Workers :
              /\ Staffed(new)
              /\ at' = Woken([w \in Workers |-> IF w \in new THEN "loop" ELSE at[w]])
    ELSE UNCHANGED <<queue, table, at>>

\* start() ensures the queue; the batch of the operator does so itself.
Start ==
    /\ stopped
    /\ Reopen
    /\ UNCHANGED <<queue, table, ready, token, worker, task, deaths, account>>

\* stop_checkout_retries, _cancel_checkout_retries_locked: attempts go on.
Cancel ==
    LET cancelled == {t \in jobs : jobGen[t] = gen} IN
      /\ stopped' = TRUE
      /\ jobGen' = [t \in Tasks |-> IF t \in cancelled THEN 0 ELSE jobGen[t]]
      /\ inFlight' = inFlight \ cancelled
      /\ order' = SelectSeq(order, LAMBDA t : t \notin cancelled)
      /\ Rows(cancelled, "cancelled")
      /\ at' = Woken(at)
      /\ UNCHANGED <<gen, ready, token, job, key, task, deaths, account>>

\* Mutant: every row goes.
ClearHistoryAll ==
    /\ row' = [t \in Tasks |-> "none"]
    /\ UNCHANGED <<event, queue, cut, ready, token, worker, task, deaths, account>>

\* clear_checkout_history
ClearHistory ==
    /\ row' = [t \in Tasks |-> IF row[t] = "active" THEN "active" ELSE "none"]
    /\ UNCHANGED <<event, queue, cut, ready, token, worker, task, deaths, account>>

\* The time of a delayed retry comes.
RetryDue(t) ==
    /\ t \in jobs
    /\ \A i \in DOMAIN order : order[i] # t
    /\ order' = Append(order, t)
    /\ UNCHANGED <<event, jobGen, inFlight, table, ready, token, worker, task, deaths, account>>

-----------------------------------------------------------------------------
(* Workers *)

\* Mutant: the latest job first.
IsNextLatest(i) ==
    /\ order[i] \in Unclaimed
    /\ \A k \in DOMAIN order : k > i => order[k] \notin Unclaimed

\* Where in order the job with the smallest next_retry_monotonic is.
IsNext(i) ==
    /\ order[i] \in Unclaimed
    /\ \A k \in DOMAIN order : k < i => order[k] \notin Unclaimed

\* Mutant: a worker without a job waits even when its queue is stopped.
SleepDeaf(w) ==
    /\ Unclaimed = {}
    /\ Goto(w, "wait")
    /\ UNCHANGED <<inFlight, job>>

\* Nothing to claim: a wait for a notification.
Sleep(w) ==
    /\ ~IsSet(w[1])
    /\ Unclaimed = {}
    /\ Goto(w, "wait")
    /\ UNCHANGED <<inFlight, job>>

\* _claim_next_checkout_retry_job, in the loop of _run_checkout_retry_queue.
\* With jobs whose time has not come, the wait has a timeout: the worker stays
\* at "loop".
Claim(w) ==
    /\ at[w] = "loop"
    /\ \/ IsSet(w[1]) /\ Goto(w, "off") /\ UNCHANGED <<inFlight, job>>
       \/ Sleep(w)
       \/ /\ ~IsSet(w[1])
          /\ \E i \in DOMAIN order :
               /\ IsNext(i)
               /\ inFlight' = inFlight \cup {order[i]}
               /\ job' = [job EXCEPT ![w] = order[i]]
          /\ Goto(w, "begin")
    /\ UNCHANGED <<event, jobGen, order, table, ready, token, key, task, deaths, account>>

\* _run_checkout_retry_attempt reads the stop event and the account ...
Begin(w) ==
    /\ at[w] = "begin"
    /\ Goto(w, IF IsSet(w[1]) THEN "release"
               ELSE IF account[job[w]] \in ready THEN "succeed" ELSE "running")
    /\ UNCHANGED <<event, queue, table, ready, token, job, key, task, deaths, account>>

\* ... and writes the row and the account, whatever came between.  Then
\* extract_and_store_final_link resolves the token of the job.
ShowRunning(w) ==
    /\ at[w] = "running"
    /\ Row(job[w], "active")
    /\ ready' = Marked(account[job[w]])
    /\ key' = [key EXCEPT ![w] = token[account[job[w]]]]
    /\ Goto(w, "lock")
    /\ UNCHANGED <<event, queue, token, job, task, deaths, account>>

\* After a failure the account is pending again, and the row is retrying.
ShowRetrying(w) ==
    /\ at[w] = "retry"
    /\ ready' = Marked(account[job[w]])
    /\ Row(job[w], "active")
    /\ Goto(w, "release")
    /\ UNCHANGED <<event, token, queue, job, key, task, deaths, account>>

\* The save of the account pool raises in one of these two: the thread ends.
MarkRaises(w) ==
    /\ at[w] \in {"running", "retry"}
    /\ deaths < MaxDeaths
    /\ deaths' = deaths + 1
    /\ IF at[w] = "running" THEN Row(job[w], "active") ELSE UNCHANGED table
    /\ Goto(w, "die")
    /\ UNCHANGED <<event, queue, ready, token, job, key, task, account>>

\* Somebody has the lock extract_and_store_final_link has for token k.
Locked(a, k) ==
    \/ \E w \in Workers : at[w] \in {"flow", "report"} /\ account[job[w]] = a /\ key[w] = k
    \/ \E t \in Registered : made[t] = "flow" /\ account[t] = a /\ own[t] = k

EnterFlow(w) ==
    /\ at[w] = "lock"
    /\ ~Locked(account[job[w]], key[w])
    /\ Goto(w, "flow")
    /\ UNCHANGED <<event, queue, table, ready, token, job, key, task, deaths, account>>

\* _apply_refreshed_tokens, for whoever refreshes the token: the extraction
\* itself (create_final_link), the survival scheduler, the keepalive, a request.
Rotate(a) ==
    /\ token[a] < MaxTokens[a]
    /\ token' = [token EXCEPT ![a] = @ + 1]
    /\ UNCHANGED <<event, queue, table, ready, worker, task, deaths, account>>

\* What the upstream answers is stored.
Stored(a) == ready' = ready \cup {a}
NotStored(a) == ready' = Marked(a)

\* The flow ends and the stop event is looked at: an answer, a failure for
\* good, or one to be repeated at once or later.
FlowEnds(w) ==
    /\ at[w] = "flow"
    /\ \/ /\ Stored(account[job[w]])
          /\ Goto(w, IF IsSet(w[1]) THEN "release" ELSE "succeed")
          /\ UNCHANGED order
       \/ /\ NotStored(account[job[w]])
          /\ Goto(w, IF IsSet(w[1]) THEN "release" ELSE "fail")
          /\ UNCHANGED order
       \/ /\ NotStored(account[job[w]])
          /\ ~IsSet(w[1])
          /\ Goto(w, "retry")
          /\ order' \in {Remove(order, job[w]), Append(Remove(order, job[w]), job[w])}
    /\ key' = [key EXCEPT ![w] = 0]
    /\ UNCHANGED <<event, jobGen, inFlight, table, token, job, task, deaths, account>>

\* The progress callback looks at the stop event, then writes the row.
Progress(w) ==
    /\ at[w] = "flow" /\ ~IsSet(w[1])
    /\ Goto(w, "report")
    /\ UNCHANGED <<event, queue, table, ready, token, job, key, task, deaths, account>>

Report(w) ==
    /\ at[w] = "report"
    /\ Row(job[w], "active")
    /\ Goto(w, "flow")
    /\ UNCHANGED <<event, queue, ready, token, job, key, task, deaths, account>>

\* The row first, then the job.
ShowEnd(w) ==
    /\ at[w] \in {"succeed", "fail"}
    /\ Row(job[w], "ended")
    /\ Goto(w, "remove")
    /\ UNCHANGED <<event, queue, ready, token, job, key, task, deaths, account>>

\* _remove_checkout_retry_job, and the claim is given back with it
RemoveJob(w) ==
    /\ at[w] = "remove"
    /\ jobGen' = [jobGen EXCEPT ![job[w]] = 0]
    /\ inFlight' = inFlight \ {job[w]}
    /\ order' = Remove(order, job[w])
    /\ at' = [Woken(at) EXCEPT ![w] = "loop"]
    /\ job' = [job EXCEPT ![w] = NoTask]
    /\ UNCHANGED <<event, table, ready, token, key, task, deaths, account>>

\* _release_checkout_retry_claim, if the queue has not been emptied meanwhile
Release(w) ==
    /\ at[w] \in {"release", "die"}
    /\ inFlight' = inFlight \ {job[w]}
    /\ at' = [IF job[w] \in jobs THEN Woken(at) ELSE at
                EXCEPT ![w] = IF @ = "die" THEN "off" ELSE "loop"]
    /\ job' = [job EXCEPT ![w] = NoTask]
    /\ UNCHANGED <<event, jobGen, order, table, ready, token, key, task, deaths, account>>

-----------------------------------------------------------------------------
(* Producers *)

\* worker() of openai_register: the account is saved and has a row; a Pix
\* account goes straight to the queue.
RegisterSaves(t) ==
    /\ t \in Registered /\ made[t] = "new"
    /\ Row(t, "active")
    /\ \E next \in {"saved", "enqueue"} : Made(t, next)
    /\ carried' = [carried EXCEPT ![t] = token[account[t]]]
    /\ UNCHANGED <<event, queue, ready, token, worker, own, deaths, account>>

\* extract_and_store_final_link resolves the token, waits for its lock, ...
RegisterResolves(t) ==
    /\ made[t] = "saved"
    /\ own' = [own EXCEPT ![t] = token[account[t]]]
    /\ Made(t, "lock")
    /\ UNCHANGED <<event, queue, table, ready, token, worker, carried, deaths, account>>

RegisterEnters(t) ==
    /\ made[t] = "lock"
    /\ ~Locked(account[t], own[t])
    /\ Made(t, "flow")
    /\ UNCHANGED <<event, queue, table, ready, token, worker, own, carried, deaths, account>>

\* ... reports progress ...
RegisterProgress(t) ==
    /\ made[t] = "flow"
    /\ Row(t, "active")
    /\ UNCHANGED <<event, queue, ready, token, worker, task, deaths, account>>

\* ... and ends.  A failure is handed to the queue, unless retries are off or it
\* is of another kind.
RegisterFlowEnds(t) ==
    /\ made[t] = "flow"
    /\ \/ Stored(account[t]) /\ Made(t, "ended")
       \/ NotStored(account[t]) /\ Made(t, "enqueue")
       \/ NotStored(account[t]) /\ Made(t, "ended")
    /\ own' = [own EXCEPT ![t] = 0]
    /\ UNCHANGED <<event, queue, table, token, worker, carried, deaths, account>>

RegisterShowsEnd(t) ==
    /\ made[t] = "ended"
    /\ Row(t, "ended")
    /\ Made(t, "done")
    /\ UNCHANGED <<event, queue, ready, token, worker, own, carried, deaths, account>>

\* enqueue_checkout_retries_for_accounts opens the queue, ...
BatchOpens(t) ==
    /\ t \in Tasks \ Registered /\ made[t] = "new"
    /\ Reopen
    /\ Made(t, "asked")
    /\ UNCHANGED <<queue, table, ready, token, worker, own, carried, deaths, account>>

\* ... passes over accounts that have a link or a job with their token of now,
\* marks the others pending, ...
BatchChecks(t) ==
    /\ made[t] = "asked"
    /\ IF \/ account[t] \in ready
          \/ \E u \in jobs : account[u] = account[t] /\ carried[u] = token[account[t]]
       THEN Made(t, "done") /\ UNCHANGED <<ready, carried>>
       ELSE /\ Made(t, "enqueue") /\ ready' = Marked(account[t])
            /\ carried' = [carried EXCEPT ![t] = token[account[t]]]
    /\ UNCHANGED <<event, queue, table, token, worker, own, deaths, account>>

\* ... and queues them, as a registration does.
QueueTask(t) ==
    /\ made[t] = "enqueue"
    /\ Enqueue(t)
    /\ Made(t, IF t \in Registered THEN "queued" ELSE "done")
    /\ UNCHANGED <<event, ready, token, job, key, own, carried, deaths, account>>

\* The registration writes the account and the row once more after the queue
\* has them, and also when the queue has refused.
RegisterShows(t) ==
    /\ made[t] = "queued"
    /\ ready' = Marked(account[t])
    /\ Row(t, "active")
    /\ Made(t, "done")
    /\ UNCHANGED <<event, token, queue, worker, own, carried, deaths, account>>

\* create_checkout_session: the operator asks for a link and waits for it,
\* perhaps since before the token was rotated.
DirectExtract(a) ==
    /\ \E k \in 0..token[a] : ~Locked(a, k)
    /\ Stored(a) \/ NotStored(a)
    /\ UNCHANGED <<event, token, queue, table, worker, task, deaths, account>>

-----------------------------------------------------------------------------
Attempt(w) ==
    \/ Begin(w) \/ ShowRunning(w) \/ Report(w)
    \/ ShowRetrying(w) \/ ShowEnd(w) \/ RemoveJob(w) \/ Release(w)

Work(w) == Claim(w) \/ Attempt(w)

Produce(t) ==
    \/ RegisterResolves(t) \/ RegisterEnters(t) \/ RegisterFlowEnds(t) \/ RegisterShowsEnd(t)
    \/ BatchChecks(t) \/ QueueTask(t) \/ RegisterShows(t)

\* An account no task is for is of no consequence.
Operator == Start \/ Cancel \/ ClearHistory \/ \E t \in Tasks : DirectExtract(account[t])

Next ==
    \/ \E w \in Workers : Work(w) \/ EnterFlow(w) \/ FlowEnds(w) \/ Progress(w) \/ MarkRaises(w)
    \/ \E t \in Tasks : RetryDue(t) \/ RegisterSaves(t) \/ RegisterProgress(t) \/ BatchOpens(t)
                     \/ Produce(t) \/ Rotate(account[t])
    \/ Operator

Spec == Init /\ [][Next]_vars

\* Threads go on, and get a lock that is given back again and again; flows
\* end, since their requests have timeouts, however often progress is reported;
\* delays pass.  The operator owes nothing.
Fairness ==
    /\ \A w \in Workers : WF_vars(Work(w)) /\ SF_vars(EnterFlow(w)) /\ SF_vars(FlowEnds(w))
    /\ \A t \in Tasks : WF_vars(Produce(t)) /\ WF_vars(RetryDue(t))

FairSpec == Spec /\ Fairness

-----------------------------------------------------------------------------
(* Properties *)

\* No two workers have claimed one job; a claimed job has a worker; and a
\* worker whose job is still queued holds the claim (the lock of
\* _claim_next_checkout_retry_job, against cancelling, reopening and dying).
ClaimsExact ==
    /\ \A w \in Workers : at[w] \in Busy => job[w] \in Tasks
    /\ \A v, w \in Workers : at[v] \in Busy /\ at[w] \in Busy /\ job[v] = job[w] => v = w
    /\ \A t \in inFlight : t \in jobs /\ \E w \in Workers : at[w] \in Busy /\ job[w] = t
    /\ \A w \in Workers : at[w] \in Busy /\ job[w] \in jobs => job[w] \in inFlight

\* No job outlives its generation: nobody would claim it, nor cancel it.
JobsLive == \A t \in jobs : ~stopped /\ jobGen[t] = gen

\* The queue holds one job for an access token, whoever asked for it.  That is
\* less than one job of an account: once the token is rotated, a batch queues a
\* second job for the account beside the one that waits with the older token.
OneJobPerToken == \A t, u \in jobs : SameToken(t, u) => t = u

QueueInv == TypeOK /\ ClaimsExact /\ JobsLive /\ OneJobPerToken

\* A worker waits for a notification only while there is nothing for it to do
\* and its generation is open: no job and no stop is missed.
NoLostWakeup ==
    \A w \in Workers : at[w] = "wait" => ~IsSet(w[1]) /\ Unclaimed = {}

\* A queued job is shown as active until its worker has written how it ended
\* (clear_checkout_history: "while preserving active queue state"), unless the
\* table has lost its row to later ones: the cut to 300 rows asks for no state.
JobsShown ==
    \A t \in jobs : \/ row[t] = "active" \/ t \in cut
                    \/ \E w \in Workers : at[w] = "remove" /\ job[w] = t

\* update_account: "Only another complete success may replace the locked
\* checkout snapshot", whatever attempts, batches and registrations write.
LinkKept == [][ready \subseteq ready']_vars

\* No queued job waits for ever: each is attempted, repeatedly and in spite of
\* the others, or leaves the queue.
QueuedAttempted ==
    \A t \in Tasks : []<>(t \in inFlight \/ t \notin jobs \/ deaths > 0)

\* The workers of a stopped generation end; a stop event is never cleared.
StoppedDrains ==
    \A w \in Workers : []<>(at[w] = "off" \/ ~IsSet(w[1]))
=============================================================================
