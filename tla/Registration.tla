---------------------------- MODULE Registration ----------------------------
(***************************************************************************)
(* A registration task (services/register_service.py) and the Outlook       *)
(* mailboxes its workers use (services/register/mail_provider.py).  A       *)
(* runner thread submits jobs to a pool of threads and collects their       *)
(* results; a job reserves a mailbox in a database that outlives the        *)
(* process, registers an account with it, and records how it went.  A       *)
(* reservation has a lease, grows stale in time, and can be reset by the    *)
(* operator while a job relies on it.                                       *)
(*                                                                         *)
(* The run has a total, as every Grok run has.  Of the upstream it matters  *)
(* whether an account exists under a mailbox's address.  A mailbox may be   *)
(* an alias and signs in with another's credential.                         *)
(***************************************************************************)
EXTENDS Naturals, FiniteSets

CONSTANTS
    Mailboxes,
    Login,      \* the mailbox whose credential a mailbox uses
    Total,      \* how many registrations the operator asks for
    Threads,
    Attempts,   \* mailboxes a job tries
    Targets,    \* whether the target is Grok, whose accounts the runner stores
    MaxRuns,    \* bounds on the runs, by target, and on the resets and crashes
    MaxEvents

ASSUME RegistrationAssumption ==
    /\ Login \in [Mailboxes -> Mailboxes]
    /\ "none" \notin Mailboxes /\ IsFiniteSet(Mailboxes)
    /\ {Total, Threads, Attempts} \subseteq Nat \ {0}
    /\ Targets \subseteq BOOLEAN
    /\ MaxRuns \in [Targets -> Nat] /\ MaxEvents \in Nat

VARIABLES
    enabled,    \* the persisted flag
    stop,       \* the stop event of the run is set
    runner,     \* where the runner thread is
    total,      \* of this run, a retry of failed mailboxes having its own
    pool,       \* the mailboxes of this run
    submitted, futures, success, fail,
    job, mail, tries,     \* where a job is, its mailbox, and which try it is
    row, stale,           \* the mailbox table; reservations older than an hour
    registered, stored,   \* mailboxes with an account, upstream and in store
    forced,               \* history: reservations given up under their holder
    runs, events,
    grok        \* the target, the same in every run

run   == <<enabled, stop, runner, total, pool, submitted, futures, success, fail>>
work  == <<job, mail, tries>>
table == <<row, stale, forced>>
bound == <<runs, events>>
vars  == <<run, work, table, registered, stored, bound, grok>>

Jobs   == 1..Total
Lost   == {"invalid"}                    \* OUTLOOK_INVALID_STATES
Spent  == {"used", "failed"} \cup Lost   \* OUTLOOK_UNAVAILABLE_STATES
Held   == {"busy", "created"}
Kept   == {"ok", "part"}   \* with an account: "part" failed after it was had
Ended  == Kept \cup {"bad"}

Unused == [state |-> "unused", lease |-> 0]

TypeOK ==
    /\ grok \in Targets
    /\ enabled \in BOOLEAN /\ stop \in BOOLEAN
    /\ runner \in {"none", "loop", "submit", "wait", "drain"}
    /\ total \in Jobs /\ pool \subseteq Mailboxes
    /\ submitted \in 0..Total /\ futures \subseteq Jobs
    /\ success \in Nat /\ fail \in Nat
    /\ job \in [Jobs -> {"none", "queued", "claim", "blame", "keep", "cancelled"} \cup Held \cup Ended]
    /\ mail \in [Jobs -> Mailboxes \cup {"none"}]
    /\ tries \in [Jobs -> 0..Attempts]
    /\ row \in [Mailboxes -> [state : {"unused", "in_use"} \cup Spent, lease : 0..Total]]
    /\ {stale, registered, stored, forced} \subseteq SUBSET Mailboxes
    /\ runs \in 0..MaxRuns[grok] /\ events \in 0..MaxEvents

Init ==
    /\ grok \in Targets
    /\ enabled = FALSE /\ stop = FALSE /\ runner = "none"
    /\ total = Total /\ pool = Mailboxes
    /\ submitted = 0 /\ futures = {} /\ success = 0 /\ fail = 0
    /\ job = [i \in Jobs |-> "none"] /\ mail = [i \in Jobs |-> "none"]
    /\ tries = [i \in Jobs |-> 0]
    /\ row = [m \in Mailboxes |-> Unused]
    /\ stale = {} /\ registered = {} /\ stored = {} /\ forced = {}
    /\ runs = 0 /\ events = 0

-----------------------------------------------------------------------------
(* The operator *)

\* The runner thread is started for a number of jobs on some mailboxes.
Launch(number, mailboxes) ==
    /\ runner = "none" /\ runs < MaxRuns[grok]
    /\ runs' = runs + 1
    /\ enabled' = TRUE /\ stop' = FALSE /\ runner' = "loop"
    /\ total' = number /\ pool' = mailboxes
    /\ submitted' = 0 /\ futures' = {} /\ success' = 0 /\ fail' = 0
    /\ job' = [i \in Jobs |-> "none"] /\ mail' = [i \in Jobs |-> "none"]
    /\ tries' = [i \in Jobs |-> 0]
    /\ UNCHANGED <<registered, stored, events, grok>>

\* start(): while a runner lives it changes nothing.
Start == Launch(Total, Mailboxes) /\ UNCHANGED table

\* The rows of these mailboxes are deleted if they are in these states.
Cleared(mailboxes, states) ==
    /\ row' = [m \in Mailboxes |->
                  IF m \in mailboxes /\ row[m].state \in states THEN Unused ELSE row[m]]
    /\ stale' = {m \in stale : row'[m] = row[m]}
    /\ forced' = forced \cup {m \in mailboxes : row[m].state = "in_use" /\ "in_use" \in states}

\* retry_outlook_failed()
RetryFailed(mailboxes) ==
    /\ mailboxes # {} /\ Cardinality(mailboxes) <= Total
    /\ \A m \in mailboxes : row[m].state = "failed"
    /\ Launch(Cardinality(mailboxes), mailboxes)
    /\ Cleared(mailboxes, {"failed"})

\* stop(): the event of a run that has ended is not read again.
Stop ==
    /\ runner # "none"
    /\ enabled' = FALSE /\ stop' = TRUE
    /\ UNCHANGED <<runner, total, pool, submitted, futures, success, fail,
                   work, table, registered, stored, bound, grok>>

Event == events < MaxEvents /\ events' = events + 1

\* reset_outlook_token_pool_state(), unless everything is forgotten
Scope(scope) ==
    IF scope = "retryable" THEN {"failed", "in_use"} ELSE Lost

ResetPool(scope) ==
    /\ Event
    /\ Cleared(Mailboxes, Scope(scope))
    /\ UNCHANGED <<run, work, registered, stored, runs, grok>>

\* The operator imports a new credential: its failures are forgotten.
ImportCredential(m) ==
    /\ Event
    /\ Cleared({n \in Mailboxes : Login[n] = m}, {"failed"} \cup Lost)
    /\ UNCHANGED <<run, work, registered, stored, runs, grok>>

-----------------------------------------------------------------------------
(* The runner *)

\* The loop goes on: a look at the flags, the total and the free threads.
Look ==
    /\ runner = "loop"
    /\ runner' =
         IF enabled /\ ~stop /\ submitted < total /\ Cardinality(futures) < Threads
         THEN "submit" ELSE IF futures = {} THEN "drain" ELSE "wait"
    /\ UNCHANGED <<enabled, stop, total, pool, submitted, futures, success, fail,
                   work, table, registered, stored, bound, grok>>

\* executor.submit(): the stop may have come since the look.
Submit ==
    /\ runner = "submit"
    /\ runner' = "loop"
    /\ submitted' = submitted + 1
    /\ futures' = futures \cup {submitted + 1}
    /\ job' = [job EXCEPT ![submitted + 1] = "queued"]
    /\ UNCHANGED <<enabled, stop, total, pool, success, fail, mail, tries,
                   table, registered, stored, bound, grok>>

Finished == {i \in futures : job[i] \in Ended}

\* Mutant: a result is counted, and its account forgotten.
StoredNever(results) == UNCHANGED stored

\* _persist_grok_worker_result()
Stored(results) ==
    stored' = stored \cup {mail[i] : i \in {i \in results : grok /\ job[i] \in Kept}}

\* Mutant: a finished future stays among the pending ones.
PendingAll(results) == futures

Pending(results) == futures \ results

\* Jobs have ended, and no stop has been asked for.
Collect ==
    /\ runner = "wait" /\ ~stop /\ Finished # {}
    /\ runner' = "loop"
    /\ futures' = Pending(Finished)
    /\ success' = success + Cardinality({i \in Finished : job[i] = "ok"})
    /\ fail' = fail + Cardinality({i \in Finished : job[i] # "ok"})
    /\ Stored(Finished)
    /\ UNCHANGED <<enabled, stop, total, pool, submitted, work, table, registered, bound, grok>>

\* A stop has been asked for: what has not begun is cancelled, and results are
\* looked at no more.
Abandon ==
    /\ runner = "wait" /\ stop
    /\ runner' = "drain"
    /\ job' = [i \in Jobs |-> IF job[i] = "queued" THEN "cancelled" ELSE job[i]]
    /\ UNCHANGED <<enabled, stop, total, pool, submitted, futures, success, fail,
                   mail, tries, table, registered, stored, bound, grok>>

\* A job that runs, or is about to.
Alive(i) == job[i] \in {"queued", "claim", "blame", "keep"} \cup Held

\* Mutant: the runner ends beside its jobs.
DrainedBeside == TRUE

\* Leaving the executor's block waits for its threads.
Drained == \A i \in Jobs : ~Alive(i)

\* The locals of the run go, and no job holds a mailbox any more.
Release ==
    /\ runner = "drain" /\ Drained
    /\ runner' = "none" /\ enabled' = FALSE
    /\ submitted' = 0 /\ futures' = {} /\ success' = 0 /\ fail' = 0
    /\ forced' = {}
    /\ UNCHANGED <<stop, total, pool, work, row, stale, registered, stored, bound, grok>>

Runner == Look \/ Submit \/ Collect \/ Abandon \/ Release

-----------------------------------------------------------------------------
(* A job *)

\* Where a job goes on: without its mailbox when it looks for one or has failed.
Goes(i, label) ==
    /\ job' = [job EXCEPT ![i] = label]
    /\ mail' = IF label \in {"claim", "bad"} THEN [mail EXCEPT ![i] = "none"] ELSE mail
    /\ tries' = IF label \in Ended THEN [tries EXCEPT ![i] = 0] ELSE tries

\* A pool thread takes the job.
Begin(i) ==
    /\ job[i] = "queued"
    /\ Goes(i, "claim")
    /\ UNCHANGED <<run, table, registered, stored, bound, grok>>

\* Mutant: a mailbox in use may be had.
AvailableInUse(m) == row[m].state \in {"unused", "in_use"}

\* _outlook_credential_available
Available(m) ==
    \/ row[m].state = "unused" /\ row[Login[m]].state \notin Lost
    \/ row[m].state = "in_use" /\ m \in stale

\* Mutant: a job waits for a mailbox.
ExhaustedNever == FALSE

\* No mailbox of the run is free.
Exhausted == \A m \in pool : ~Available(m)

\* A try ends without a mailbox.
GiveUp(i) ==
    /\ job[i] = "claim"
    /\ stop \/ Exhausted
    /\ Goes(i, "bad")
    /\ UNCHANGED <<run, table, registered, stored, bound, grok>>

\* _claim_outlook_credential, in one transaction
Claim(i, m) ==
    /\ job[i] = "claim" /\ ~stop
    /\ m \in pool /\ Available(m)
    /\ row' = [row EXCEPT ![m] = [state |-> "in_use", lease |-> i]]
    /\ stale' = stale \ {m}
    /\ forced' = IF m \in stale THEN forced \cup {m} ELSE forced
    /\ job' = [job EXCEPT ![i] = "busy"]
    /\ mail' = [mail EXCEPT ![i] = m]
    /\ tries' = [tries EXCEPT ![i] = @ + 1]
    /\ UNCHANGED <<run, registered, stored, bound, grok>>

\* Mutant: the result is recorded whoever holds the mailbox.
MarkUnleased(i, state) ==
    /\ row' = [row EXCEPT ![mail[i]] = [state |-> state, lease |-> 0]]
    /\ stale' = stale \ {mail[i]}
    /\ UNCHANGED forced

\* _set_outlook_token_state under the lease of the claim
Mark(i, state) ==
    /\ IF row[mail[i]].lease = i
       THEN /\ row' = [row EXCEPT ![mail[i]] = [state |-> state, lease |-> 0]]
            /\ stale' = stale \ {mail[i]}
       ELSE UNCHANGED <<row, stale>>
    /\ UNCHANGED forced

\* A try has failed: the job ends, or takes another mailbox.
Again(i) == Goes(i, "bad") \/ (tries[i] < Attempts /\ Goes(i, "claim"))

\* The upstream creates the account.
Create(i) ==
    /\ job[i] = "busy" /\ mail[i] \notin registered
    /\ registered' = registered \cup {mail[i]}
    /\ Goes(i, "created")
    /\ UNCHANGED <<run, table, stored, bound, grok>>

\* The registration succeeded, up to the authorization of a Grok account.
Succeed(i) ==
    /\ job[i] = "created"
    /\ Mark(i, "used")
    /\ \E label \in IF grok THEN Kept ELSE {"keep"} : Goes(i, label)
    /\ UNCHANGED <<run, registered, stored, bound, grok>>

\* An OpenAI worker adds the account to the pool itself.
Keep(i) ==
    /\ job[i] = "keep"
    /\ stored' = stored \cup {mail[i]}
    /\ Goes(i, "ok")
    /\ UNCHANGED <<run, table, registered, bound, grok>>

\* The account exists, and its session was not obtained.
LoseSession(i) ==
    /\ job[i] = "created"
    /\ \E state \in {"used", "failed"} : Mark(i, state)
    /\ Goes(i, "bad")
    /\ UNCHANGED <<run, registered, stored, bound, grok>>

\* The upstream knows the address already.
Known(i) ==
    /\ job[i] = "busy" /\ mail[i] \in registered
    /\ Mark(i, IF grok THEN "failed" ELSE "used")
    /\ Again(i)
    /\ UNCHANGED <<run, registered, stored, bound, grok>>

\* No code arrived, or anything else went wrong.
Fail(i) ==
    /\ job[i] = "busy"
    /\ Mark(i, "failed")
    /\ Again(i)
    /\ UNCHANGED <<run, registered, stored, bound, grok>>

\* The mailbox refused its credential.
Refused(i) ==
    /\ job[i] = "busy"
    /\ Mark(i, "invalid")
    /\ Goes(i, IF Login[mail[i]] = mail[i] THEN "bad" ELSE "blame")
    /\ UNCHANGED <<run, registered, stored, bound, grok>>

\* The mailbox it signs in with is refused too, whatever its row says.
Blame(i) ==
    LET m == Login[mail[i]]
    IN  /\ job[i] = "blame"
        /\ row' = [row EXCEPT ![m] = [state |-> "invalid", lease |-> 0]]
        /\ stale' = stale \ {m}
        /\ forced' = IF row[m].state = "in_use" THEN forced \cup {m} ELSE forced
        /\ Goes(i, "bad")
        /\ UNCHANGED <<run, registered, stored, bound, grok>>

Work(i) ==
    \/ Begin(i) \/ GiveUp(i) \/ \E m \in Mailboxes : Claim(i, m)
    \/ Create(i) \/ Succeed(i) \/ Keep(i) \/ LoseSession(i)
    \/ Known(i) \/ Fail(i) \/ Refused(i) \/ Blame(i)

-----------------------------------------------------------------------------
(* Time and crashes *)

\* A reservation is an hour old.
GrowStale(m) ==
    /\ row[m].state = "in_use" /\ m \notin stale
    /\ stale' = stale \cup {m}
    /\ UNCHANGED <<run, work, row, forced, registered, stored, bound, grok>>

\* The process dies; the next one does not resume the run.
Crash ==
    /\ Event
    /\ enabled' = FALSE /\ stop' = FALSE /\ runner' = "none"
    /\ total' = Total /\ pool' = Mailboxes
    /\ submitted' = 0 /\ futures' = {} /\ success' = 0 /\ fail' = 0
    /\ job' = [i \in Jobs |-> "none"] /\ mail' = [i \in Jobs |-> "none"]
    /\ tries' = [i \in Jobs |-> 0]
    /\ forced' = {}
    /\ UNCHANGED <<row, stale, registered, stored, runs, grok>>

Operator ==
    \/ Start \/ Stop
    \/ \E mailboxes \in SUBSET Mailboxes : RetryFailed(mailboxes)
    \/ \E scope \in {"retryable", "invalid"} : ResetPool(scope)
    \/ \E m \in Mailboxes : ImportCredential(m)

Next ==
    \/ Operator \/ Runner \/ Crash
    \/ \E i \in Jobs : Work(i)
    \/ \E m \in Mailboxes : GrowStale(m)

Spec == Init /\ [][Next]_vars

\* The runner is a thread, and so is a job: what it waits for has a timeout.
FairSpec == Spec /\ WF_vars(Runner) /\ \A i \in Jobs : WF_vars(Work(i))

-----------------------------------------------------------------------------

\* Until it is stopped a run has every job it submitted counted or pending, and
\* ends when all it was asked for are counted.
RunAccounted ==
    /\ runner # "none" /\ ~stop => success + fail + Cardinality(futures) = submitted
    /\ runner \in {"loop", "submit", "wait"} => \A i \in Jobs : Alive(i) => i \in futures
    /\ runner = "drain" /\ ~stop => submitted = total

RegistrationInv == TypeOK /\ RunAccounted

\* Two jobs use one mailbox only when the reservation of the first was given
\* up: it had grown stale, or was reset, or an alias's failure overwrote it.
OneHolder ==
    \A i, j \in Jobs :
        job[i] \in Held /\ job[j] \in Held /\ mail[i] = mail[j] => i = j \/ mail[i] \in forced

\* A mailbox recorded as used stays so, whatever late job, retry or reset of
\* failures follows, unless an alias finds the credential refused.
UsedStays ==
    [][\A m \in Mailboxes :
          row[m].state = "used" /\ row'[m].state # "used" =>
              \E i \in Jobs : job[i] = "blame" /\ job'[i] = "bad" /\ Login[mail[i]] = m]_vars

\* An account a job brings is stored, even when the job failed after it, unless
\* the run is stopped before its result is collected.
ResultKept ==
    \A i \in Jobs :
        job[i] \in Kept => mail[i] \in stored \/ (i \in futures /\ runner # "none") \/ stop

\* No run begins while a job of an earlier one is alive.
RunsApart == runner = "none" => \A i \in Jobs : ~Alive(i)

\* A run ends.
RunEnds == runner # "none" ~> runner = "none"
=============================================================================
