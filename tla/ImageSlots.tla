----------------------------- MODULE ImageSlots -----------------------------
(***************************************************************************)
(* The image slots of the GPT account pool (services/account_service.py)   *)
(* and the image threads that use them (services/protocol/conversation.py, *)
(* _generate_single_image).                                                *)
(*                                                                         *)
(* An account is known by its access token, and the token changes while    *)
(* requests are in flight: a rotation moves the entry and its slot count   *)
(* to the new token and leaves an alias behind, so that a request finds    *)
(* with the old token what it once acquired.  Accounts also disappear and  *)
(* come back.  Everything under _lock is one action; asking the upstream,  *)
(* which takes seconds, is not under it.                                   *)
(***************************************************************************)
EXTENDS Naturals, FiniteSets

CONSTANTS
    Tokens,          \* access tokens ever seen, those of rotations included
    Pool,            \* the tokens of the accounts loaded at the start
    NoToken,
    Requests,        \* image threads; one image each
    MaxConcurrency,  \* image_account_concurrency
    Fallback,        \* whether a fallback proxy is configured
    AutoRemoveInvalid, AutoRemoveLimited,  \* the two auto-remove settings
    Reimports,       \* whether an import may bring back a token seen before
    MaxChanges       \* bound on what operator, watchers and upstream change

ASSUME SlotsAssumption ==
    /\ Pool \subseteq Tokens /\ NoToken \notin Tokens
    /\ IsFiniteSet(Requests)
    /\ MaxConcurrency \in Nat \ {0}
    /\ {Fallback, AutoRemoveInvalid, AutoRemoveLimited, Reimports} \subseteq BOOLEAN
    /\ MaxChanges \in Nat

VARIABLES
    status,     \* of each account; "absent": no account has this token
    aliases,    \* the token that replaced this one
    inflight,   \* _image_inflight
    seen,       \* tokens the upstream has issued: it never issues one twice
    pc,         \* where each request is
    held,       \* the token it acquired a slot with, while that matters
    using,      \* the token its preflight goes on with
    attempted,  \* the tokens excluded from its next attempt
    retrying,   \* holds its slot for a second try over the fallback proxy
    retried,    \* fallback_retry_used, until the thread is done
    mishaps,    \* history: see SlotsCounted
    changes

pool     == <<status, aliases, inflight, seen>>
request  == <<pc, held, using, attempted, retrying, retried>>
vars     == <<pool, request, mishaps, changes>>

TypeOK ==
    /\ status \in [Tokens -> {"absent", "normal", "limited", "bad"}]
    /\ aliases \in [Tokens -> Tokens \cup {NoToken}]
    /\ inflight \in [Tokens -> 0..MaxConcurrency]
    /\ seen \subseteq Tokens
    /\ pc \in [Requests -> {"top", "wait", "verify", "drop", "generate", "mark", "blame", "done"}]
    /\ held \in [Requests -> Tokens \cup {NoToken}]
    /\ using \in [Requests -> Tokens \cup {NoToken}]
    /\ attempted \in [Requests -> SUBSET Tokens]
    /\ retrying \subseteq Requests /\ retried \subseteq Requests
    /\ mishaps \subseteq {"reimported", "cancelled"}
    /\ changes \in 0..MaxChanges

Init ==
    /\ status = [t \in Tokens |-> IF t \in Pool THEN "normal" ELSE "absent"]
    /\ aliases = [t \in Tokens |-> NoToken]
    /\ inflight = [t \in Tokens |-> 0]
    /\ seen = Pool
    /\ pc = [r \in Requests |-> "top"]
    /\ held = [r \in Requests |-> NoToken]
    /\ using = [r \in Requests |-> NoToken]
    /\ attempted = [r \in Requests |-> {}]
    /\ retrying = {} /\ retried = {}
    /\ mishaps = {}
    /\ changes = 0

-----------------------------------------------------------------------------
(* The pool *)

Present(t) == status[t] # "absent"

\* _resolve_access_token_locked stops at an account, or where no alias leads on
\* (its guard against a cycle is left out: aliases have none).
Stops(t) == Present(t) \/ aliases[t] = NoToken

\* The tokens it passes through from t: the least set with t that it does not
\* leave.
Names(t) ==
    {u \in Tokens : \A S \in SUBSET Tokens :
        t \in S /\ (\A x \in S : Stops(x) \/ aliases[x] \in S) => u \in S}

\* Mutant: one alias is followed, not those of the token it leads to.
ResolveOnce(t) == IF Stops(t) THEN t ELSE aliases[t]

\* _resolve_access_token_locked
Resolve(t) == IF Stops(t) THEN t ELSE CHOOSE u \in Names(t) : Stops(u)

\* _list_ready_candidate_tokens, _list_available_candidate_tokens
Ready(excluded) == {t \in Tokens \ excluded : status[t] = "normal"}

\* Mutant: one slot too many.
AvailableOneMore(excluded) == {t \in Ready(excluded) : inflight[t] <= MaxConcurrency}

Available(excluded) == {t \in Ready(excluded) : inflight[t] < MaxConcurrency}

\* Mutant: the slot is given back under the name it was acquired with.
ReleasedUnresolved(t) ==
    [inflight EXCEPT ![t] = IF @ <= 1 THEN 0 ELSE @ - 1]

\* release_image_slot
Released(t) ==
    LET u == Resolve(t)
    IN  [inflight EXCEPT ![u] = IF @ <= 1 THEN 0 ELSE @ - 1]

\* delete_accounts, of the account a token stands for
Delete(t) ==
    LET u == Resolve(t)
    IN  /\ status' = [status EXCEPT ![u] = "absent"]
        /\ inflight' = [inflight EXCEPT ![u] = 0]
        /\ aliases' = [old \in Tokens |->
               IF old = u \/ aliases[old] = u THEN NoToken ELSE aliases[old]]
        /\ UNCHANGED seen

\* update_account with the status somebody asked for or the upstream told
Update(t, s) ==
    LET u == Resolve(t)
    IN  /\ status' = IF ~Present(u) THEN status
                     ELSE [status EXCEPT ![u] =
                           IF s = "limited" /\ AutoRemoveLimited THEN "absent" ELSE s]
        /\ UNCHANGED <<aliases, inflight, seen>>

\* The access token in update_account's answer, or the one asked for when there
\* is no account any more.
Told(t, s) ==
    IF Present(Resolve(t)) /\ ~(s = "limited" /\ AutoRemoveLimited) THEN Resolve(t) ELSE t

\* handle_invalid_token
HandleInvalid(t) == IF AutoRemoveInvalid THEN Delete(t) ELSE Update(t, "bad")

\* Mutant: the slots in use stay behind under the old token.
RotatedSlotsLeft(t, n) ==
    /\ status' = [status EXCEPT ![t] = "absent", ![n] = status[t]]
    /\ aliases' = [aliases EXCEPT ![t] = n]
    /\ UNCHANGED inflight
    /\ seen' = seen \cup {n}

\* _apply_refreshed_tokens
Rotated(t, n) ==
    /\ status' = [status EXCEPT ![t] = "absent", ![n] = status[t]]
    /\ aliases' = [aliases EXCEPT ![t] = n]
    /\ inflight' = [inflight EXCEPT ![t] = 0, ![n] = @ + inflight[t]]
    /\ seen' = seen \cup {n}

Change == changes < MaxChanges /\ changes' = changes + 1

-----------------------------------------------------------------------------
(* Operator, watchers, and the requests that are not for images *)

\* refresh_access_token, of an account that still has the token
Rotate(t, n) ==
    /\ Change
    /\ Present(t) /\ n \notin seen
    /\ Rotated(t, n)
    /\ UNCHANGED <<request, mishaps>>

DeleteAccounts(t) ==
    /\ Change
    /\ t \in seen
    /\ Delete(t)
    /\ UNCHANGED <<request, mishaps>>

UpdateAccount(t, s) ==
    /\ Change
    /\ Present(t) /\ s # status[t]
    /\ Update(t, s)
    /\ UNCHANGED <<request, mishaps>>

\* fetch_remote_info of a watcher, answered 401
WatcherInvalid(t) ==
    /\ Change
    /\ Present(t)
    /\ HandleInvalid(t)
    /\ UNCHANGED <<request, mishaps>>

Holds(r) == pc[r] \in {"verify", "drop", "generate"} \/ r \in retrying

\* The tokens a request in flight looks its account up with, or may have to.
Answers(r) ==
    UNION {Names(t) : t \in {held[r], using[r]} \ {NoToken}}

\* add_accounts
AddAccounts(t) ==
    /\ Change
    /\ ~Present(t)
    /\ t \in seen => Reimports
    /\ status' = [status EXCEPT ![t] = "normal"]
    /\ seen' = seen \cup {t}
    /\ mishaps' = IF \/ aliases[t] # NoToken
                     \/ \E r \in Requests : t \in Answers(r)
                  THEN mishaps \cup {"reimported"} ELSE mishaps
    /\ UNCHANGED <<aliases, inflight, request>>

Environment ==
    \E t \in Tokens :
        \/ \E n \in Tokens : Rotate(t, n)
        \/ DeleteAccounts(t)
        \/ \E s \in {"normal", "limited", "bad"} : UpdateAccount(t, s)
        \/ WatcherInvalid(t)
        \/ AddAccounts(t)

-----------------------------------------------------------------------------
(* An image thread *)

Goto(r, label) == pc' = [pc EXCEPT ![r] = label]

\* The top of the loop: on with the slot that is kept for the retry, or
\* get_available_access_token from the start.
Top(r) ==
    /\ pc[r] = "top"
    /\ Goto(r, IF r \in retrying THEN "generate" ELSE "wait")
    /\ retrying' = retrying \ {r}
    /\ UNCHANGED <<pool, held, using, attempted, retried, mishaps, changes>>

\* The administrator's cancellation is seen at the top of the loop, whose
\* handler releases nothing.
CancelAtTop(r) ==
    /\ pc[r] = "top"
    /\ Goto(r, "done")
    /\ mishaps' = IF r \in retrying THEN mishaps \cup {"cancelled"} ELSE mishaps
    /\ retrying' = retrying \ {r}
    /\ held' = [held EXCEPT ![r] = NoToken]
    /\ retried' = retried \ {r}
    /\ UNCHANGED <<pool, using, attempted, changes>>

\* _acquire_next_candidate_token finds a slot ...
Acquire(r) ==
    /\ pc[r] = "wait"
    /\ \E t \in Available(attempted[r]) :
          /\ inflight' = [inflight EXCEPT ![t] = @ + 1]
          /\ held' = [held EXCEPT ![r] = t]
          /\ using' = [using EXCEPT ![r] = t]
          /\ attempted' = [attempted EXCEPT ![r] = @ \cup {t}]
    /\ Goto(r, "verify")
    /\ UNCHANGED <<status, aliases, seen, retrying, retried, mishaps, changes>>

\* ... or there is no account left to wait for.
NoCandidate(r) ==
    /\ pc[r] = "wait"
    /\ Ready(attempted[r]) = {}
    /\ Goto(r, "done")
    /\ attempted' = [attempted EXCEPT ![r] = {}]
    /\ retried' = retried \ {r}
    /\ UNCHANGED <<pool, held, using, retrying, mishaps, changes>>

\* fetch_remote_info answers 401 and the forced refresh rotates the token.
PreflightRotates(r, n) ==
    /\ pc[r] = "verify"
    /\ Change
    /\ Present(Resolve(using[r])) /\ n \notin seen
    /\ Rotated(Resolve(using[r]), n)
    /\ using' = [using EXCEPT ![r] = n]
    /\ UNCHANGED <<pc, held, attempted, retrying, retried, mishaps>>

\* The refresh that begins fetch_remote_info finds the token another rotated.
PreflightResolves(r) ==
    /\ pc[r] = "verify"
    /\ Resolve(using[r]) # using[r]
    /\ using' = [using EXCEPT ![r] = Resolve(@)]
    /\ UNCHANGED <<pool, pc, held, attempted, retrying, retried, mishaps, changes>>

\* It answers "normal": the request goes on with the account's present token.
PreflightPasses(r) ==
    /\ pc[r] = "verify"
    /\ Update(using[r], "normal")
    /\ held' = [held EXCEPT ![r] = Told(using[r], "normal")]
    /\ using' = [using EXCEPT ![r] = NoToken]
    /\ attempted' = [attempted EXCEPT ![r] = {}]
    /\ Goto(r, "generate")
    /\ UNCHANGED <<retrying, retried, mishaps, changes>>

\* It answers that the quota is used up, 401, or nothing at all.
PreflightFails(r) ==
    /\ pc[r] = "verify"
    /\ \/ /\ Update(using[r], "limited")
          /\ attempted' = [attempted EXCEPT ![r] = @ \cup {Told(using[r], "limited")}]
       \/ HandleInvalid(using[r]) /\ UNCHANGED attempted
       \/ UNCHANGED <<pool, attempted>>
    /\ using' = [using EXCEPT ![r] = NoToken]
    /\ Goto(r, "drop")
    /\ UNCHANGED <<held, retrying, retried, mishaps, changes>>

\* The slot of the failed attempt is released; the next attempt follows.
Drop(r) ==
    /\ pc[r] = "drop"
    /\ inflight' = Released(held[r])
    /\ held' = [held EXCEPT ![r] = NoToken]
    /\ Goto(r, "wait")
    /\ UNCHANGED <<status, aliases, seen, using, attempted, retrying, retried, mishaps, changes>>

\* The image is there, or there will be none: mark_image_result releases the
\* slot, then books the result.
Finish(r) ==
    /\ pc[r] = "generate"
    /\ inflight' = Released(held[r])
    /\ \/ Goto(r, "mark") /\ retried' = retried \ {r} /\ UNCHANGED <<held, changes>>
       \/ Goto(r, "blame") /\ Change /\ UNCHANGED <<held, retried>>
       \/ /\ Goto(r, "done") /\ retried' = retried \ {r}
          /\ held' = [held EXCEPT ![r] = NoToken] /\ UNCHANGED changes
    /\ UNCHANGED <<status, aliases, seen, using, attempted, retrying, mishaps>>

\* A success shows that a limited account is not.
Mark(r) ==
    /\ pc[r] = "mark"
    /\ status' = [status EXCEPT ![Resolve(held[r])] = IF @ = "limited" THEN "normal" ELSE @]
    /\ held' = [held EXCEPT ![r] = NoToken]
    /\ Goto(r, "done")
    /\ UNCHANGED <<aliases, inflight, seen, using, attempted, retrying, retried, mishaps, changes>>

\* The token was refused: the forced refresh rotates it, or another had rotated
\* it before, or the account is bad.
Blame(r) ==
    /\ pc[r] = "blame"
    /\ \/ HandleInvalid(held[r])
       \/ /\ Present(Resolve(held[r]))
          /\ \E n \in Tokens \ seen : Rotated(Resolve(held[r]), n)
       \/ Resolve(held[r]) # held[r] /\ UNCHANGED pool
    /\ held' = [held EXCEPT ![r] = NoToken]
    /\ Goto(r, "top")
    /\ UNCHANGED <<using, attempted, retrying, retried, mishaps, changes>>

\* An early connection failure: once, again over the fallback proxy.
FallbackRetry(r) ==
    /\ pc[r] = "generate"
    /\ Fallback /\ r \notin retried
    /\ retrying' = retrying \cup {r}
    /\ retried' = retried \cup {r}
    /\ Goto(r, "top")
    /\ UNCHANGED <<pool, held, using, attempted, mishaps, changes>>

\* What a request does by itself, sooner or later: the upstream calls have
\* timeouts and a waiter looks again every second.
Step(r) ==
    \/ Top(r)
    \/ Acquire(r) \/ NoCandidate(r)
    \/ PreflightPasses(r) \/ PreflightFails(r) \/ Drop(r)
    \/ Finish(r) \/ Mark(r) \/ Blame(r)

\* Every image is finished, or waits for a slot that a mishap has lost.
Done ==
    /\ \A r \in Requests : pc[r] = "done" \/ (pc[r] = "wait" /\ mishaps # {})
    /\ UNCHANGED vars

Next ==
    \/ Environment
    \/ \E r \in Requests :
          \/ Step(r)
          \/ CancelAtTop(r)
          \/ \E n \in Tokens : PreflightRotates(r, n)
          \/ PreflightResolves(r)
          \/ FallbackRetry(r)
    \/ Done

Spec == Init /\ [][Next]_vars

FairSpec == Spec /\ \A r \in Requests : WF_vars(Step(r))

-----------------------------------------------------------------------------
(* Properties *)

\* The requests whose release would reach t.
Holders(t) == {r \in Requests : Holds(r) /\ Resolve(held[r]) = t}

\* "in-flight count kept in memory: images the account is generating and has
\* not finished" (list_accounts).  A retry cancelled at the top of the loop
\* leaves its slot behind.
InflightIsGenerating == \A t \in Tokens : Present(t) => inflight[t] = Cardinality(Holders(t))

\* Apart from such a cancellation, and from an import that brings back a token
\* that was rotated away or that a request in flight still answers to, every
\* slot in use is counted and no other: across rotations, removals, 401s and
\* failed preflights, and no account that is gone keeps a count its requests
\* will not give back.
SlotsCounted ==
    mishaps = {} =>
        /\ InflightIsGenerating
        /\ \A t \in Tokens : inflight[t] <= Cardinality(Holders(t))

\* No account works on more than image_account_concurrency images at once,
\* whatever its token is called meanwhile.
ConcurrencyRespected ==
    mishaps = {} =>
        \A t \in Tokens : Present(t) => Cardinality(Holders(t)) <= MaxConcurrency

\* No image thread waits for a slot for ever: a slot it waits for is given back
\* or the accounts run out (_acquire_next_candidate_token).
WaiterServed ==
    \A r \in Requests : []<>(pc[r] # "wait" \/ mishaps # {})

SlotsInv == TypeOK /\ SlotsCounted /\ ConcurrencyRespected

\* The slot of each request, under the name its account has now; none once the
\* account is gone.
Slot ==
    [r \in Requests |->
        IF Holds(r) /\ Present(Resolve(held[r])) THEN Resolve(held[r]) ELSE NoToken]

\* Until a mishap the pool is one of slots: a request keeps the slot it acquired
\* until it gives it back, whatever the account's token is called meanwhile, and
\* loses it only with the account; no step of another moves it.
Slots == INSTANCE SlotPool WITH
             Clients <- Requests, Accounts <- Tokens, Nobody <- NoToken,
             Limit <- MaxConcurrency,
             at <- Slot, open <- {t \in Tokens : Present(t)}, lost <- mishaps # {}

PoolSpec == Slots!Spec
=============================================================================
