--------------------------- MODULE XaiOAuth_proofs ---------------------------
(***************************************************************************)
(* Proofs about XaiOAuth: the newest refresh token is stored or on its way, *)
(* no refresh spoils another, an account has one job at a time, and a       *)
(* disabled account stays so, for any tasks, jobs and bounds.               *)
(***************************************************************************)
EXTENDS XaiOAuth, TLAPS, SequenceTheorems

\* Nobody waits twice.
Distinct == \A i, j \in DOMAIN waiters : waiters[i] = waiters[j] => i = j

\* Who exchanges, stores or imports has a token.
TokensOK == \A t \in Tasks : pc[t] \in {"exchange", "save", "adopt"} => token[t] \in 1..MaxTokens

\* Jobs are run by workers, each by one, who leaves it when it has ended.
JobsOK ==
    /\ \A t \in Tasks :
         pc[t] \in {"setup", "authorize", "adopt", "judge"} \/ kind[t] = "import" =>
            t \in Workers /\ pc[t] # "idle"
    /\ \A w \in Workers : pc[w] # "idle" => taken[w] \in Jobs
    /\ \A v, w \in Workers : taken[v] = taken[w] /\ taken[v] # 0 => v = w
    /\ \A w \in Workers :
         /\ pc[w] = "setup" => job[taken[w]] = "pending"
         /\ pc[w] = "judge" => job[taken[w]] = "ended"

Typing == TypeOK /\ TokensOK
Queue  == LockOK /\ Distinct
Chain  == TokenKept /\ RefusalEarned
JobRules == JobsOK /\ OneJob

Inv == Typing /\ Queue /\ Chain /\ JobRules

LEMMA Bounds ==
    /\ MaxAttempts \in Nat \ {0} /\ MaxTokens \in Nat \ {0} /\ MaxEvents \in Nat \ {0}
    /\ Jobs \subseteq Nat \ {0}
  BY XaiAssumption

LEMMA Apart ==
    /\ Main \cap Batches = {} /\ Main \cap Workers = {} /\ Batches \cap Workers = {}
    /\ Tasks = Main \cup Batches \cup Workers
    /\ "none" \notin Tasks /\ "main" \notin Tasks /\ "gone" \notin Tasks
  BY XaiAssumption DEF Tasks

LEMMA InitInv == Init => Inv
  <1> SUFFICES ASSUME Init PROVE Inv
    OBVIOUS
  <1>1. Typing
    <2>1. /\ account \in Account /\ waiters \in Seq(Tasks) /\ live \subseteq 1..issued
          /\ issued \in 1..MaxTokens
      BY Bounds DEF Init, Account, Statuses
    <2>2. /\ holder \in Tasks \cup {"none"} /\ bound \in Tasks \cup {"none", "main", "gone"}
          /\ overtaken \subseteq Tasks /\ retried \subseteq Jobs /\ events \in 0..MaxEvents
      BY Bounds DEF Init
    <2>3. /\ spoiled \in BOOLEAN
          /\ wasInvalid \in [Tasks -> BOOLEAN] /\ forced \in [Tasks -> BOOLEAN]
          /\ retryable \in [Workers -> BOOLEAN]
      BY DEF Init
    <2>4. /\ token \in [Tasks -> 0..MaxTokens] /\ attempt \in [Workers -> 0..MaxAttempts]
          /\ taken \in [Workers -> Jobs \cup {0}]
      BY Bounds DEF Init
    <2>5. /\ job \in [Jobs -> {"none", "ended"} \cup Active]
          /\ verdict \in [Tasks -> Verdicts] /\ kind \in [Tasks -> Kinds \cup {"none"}]
      BY DEF Init, Verdicts
    <2>6. TypeOK
      BY <2>1, <2>2, <2>3, <2>4, <2>5 DEF Init, TypeOK
    <2> QED BY <2>6 DEF Init, Typing, TokensOK
  <1>2. Queue
    BY XaiAssumption DEF Init, Queue, LockOK, Distinct, Tasks
  <1>3. Chain
    BY DEF Init, Chain, TokenKept, RefusalEarned
  <1>4. JobRules
    BY Bounds DEF Init, JobRules, JobsOK, OneJob, Active, Tasks
  <1> QED BY <1>1, <1>2, <1>3, <1>4 DEF Inv

-----------------------------------------------------------------------------
(* What recurs in the steps *)

Answers == {"ok", "limited", "denied", "blocked", "refused", "error"}

TaskTypes ==
    /\ pc \in [Tasks -> {"idle", "post", "lock", "wait", "exchange", "save", "write",
                         "setup", "authorize", "adopt", "judge"}]
    /\ kind \in [Tasks -> Kinds \cup {"none"}]
    /\ wasInvalid \in [Tasks -> BOOLEAN] /\ token \in [Tasks -> 0..MaxTokens]
    /\ forced \in [Tasks -> BOOLEAN]
    /\ verdict \in [Tasks -> Verdicts]

\* The end of a call, for all the proofs below need of it.
LEMMA ConcludesStep ==
    ASSUME TypeOK, JobsOK, NEW t \in Tasks, NEW a \in Answers, pc[t] # "idle", Concludes(t, a)
    PROVE  /\ account' \in Account /\ account'.token = account.token
           /\ TaskTypes'
           /\ \E l \in {"idle", "write", "judge"} : pc' = [pc EXCEPT ![t] = l]
           /\ token' = [token EXCEPT ![t] = 0]
           /\ \A u \in Tasks \ {t} : kind'[u] = kind[u]
           /\ UNCHANGED <<taken, attempt, retryable, retried>>
           /\ IF kind[t] = "import"
              THEN /\ t \in Workers /\ taken[t] \in Jobs
                   /\ job' = [job EXCEPT ![taken[t]] = "ended"]
                   /\ pc' = [pc EXCEPT ![t] = "judge"] /\ kind'[t] = "import"
              ELSE job' = job /\ pc'[t] # "judge" /\ kind'[t] # "import"
  <1>1. StatusAfter(t, a) \in Statuses
    BY DEF StatusAfter, Judged, Marked, Statuses, TypeOK, Account
  <1>2. account' \in Account /\ account'.token = account.token
    BY <1>1 DEF Concludes, TypeOK, Account
  <1>3. Judgement(a) \in Verdicts
    BY DEF Judgement, Verdicts
  <1>4. CASE kind[t] = "batch"
    <2>1. /\ pc' = [pc EXCEPT ![t] = "write"]
          /\ verdict' = [verdict EXCEPT ![t] = Judgement(a)]
          /\ token' = [token EXCEPT ![t] = 0]
          /\ UNCHANGED <<kind, forced, wasInvalid, jobVars>>
      BY <1>4 DEF Concludes, Goes
    <2>2. TaskTypes'
      BY <2>1, <1>3, Bounds DEF TaskTypes, TypeOK
    <2> QED BY <1>2, <1>4, <2>1, <2>2 DEF TypeOK, jobVars
  <1>5. CASE kind[t] = "import"
    <2>1. /\ pc' = [pc EXCEPT ![t] = "judge"]
          /\ job' = [job EXCEPT ![taken[t]] = "ended"]
          /\ token' = [token EXCEPT ![t] = 0]
          /\ UNCHANGED <<kind, forced, verdict, wasInvalid, taken, attempt, retryable, retried>>
      BY <1>5 DEF Concludes, Goes
    <2>2. TaskTypes'
      BY <2>1, Bounds DEF TaskTypes, TypeOK
    <2>3. t \in Workers /\ taken[t] \in Jobs
      BY <1>5 DEF JobsOK
    <2> QED BY <1>2, <1>5, <2>1, <2>2, <2>3 DEF TypeOK
  <1>6. CASE kind[t] \notin {"batch", "import"}
    <2>1. Over(t) /\ UNCHANGED jobVars
      BY <1>6 DEF Concludes
    <2>2. TaskTypes'
      <3>1. "unknown" \in Verdicts
        BY DEF Verdicts
      <3> QED BY <2>1, <3>1, Bounds DEF TaskTypes, TypeOK, Over, Goes
    <2> QED BY <1>2, <1>6, <2>1, <2>2 DEF TypeOK, jobVars, Over, Goes
  <1> QED BY <1>4, <1>5, <1>6

\* A task that has nothing to do with the lock moves, and its loop may end.
LEMMA QueueFrame ==
    ASSUME TypeOK, Queue, NEW t \in Tasks, NEW l, l \notin {"exchange", "save", "wait"},
           pc[t] \notin {"exchange", "save", "wait"}, pc' = [pc EXCEPT ![t] = l],
           UNCHANGED <<holder, waiters>>, bound' = bound \/ LoopEnds(t)
    PROVE  Queue'
  <1>1. \A u \in Tasks : pc'[u] \in {"exchange", "save"} <=> holder' = u
    BY DEF TypeOK, Queue, LockOK
  <1>2. \A u \in Tasks : pc'[u] = "wait" <=> \E i \in DOMAIN waiters' : waiters'[i] = u
    BY DEF TypeOK, Queue, LockOK
  <1>3. \A i \in DOMAIN waiters' : Loop(waiters'[i]) = bound'
    <2> SUFFICES ASSUME NEW i \in DOMAIN waiters PROVE Loop(waiters[i]) = bound'
      OBVIOUS
    <2>1. waiters[i] \in Tasks /\ pc[waiters[i]] = "wait" /\ Loop(waiters[i]) = bound
      BY DEF TypeOK, Queue, LockOK
    <2>2. bound # t
      BY <2>1, Apart DEF Loop
    <2> QED BY <2>1, <2>2 DEF LoopEnds
  <1>4. Distinct'
    BY DEF Queue, Distinct
  <1> QED BY <1>1, <1>2, <1>3, <1>4 DEF Queue, LockOK

\* The holder gives the lock back.
LEMMA QueueRelease ==
    ASSUME TypeOK, Queue, NEW t \in Tasks, NEW l, l \notin {"exchange", "save", "wait"},
           pc[t] \in {"exchange", "save"}, pc' = [pc EXCEPT ![t] = l],
           Release, UNCHANGED bound
    PROVE  Queue'
  <1>1. \A u \in Tasks : pc'[u] \in {"exchange", "save"} <=> holder' = u
    BY Apart DEF TypeOK, Queue, LockOK, Release
  <1>2. \A u \in Tasks : pc'[u] = "wait" <=> \E i \in DOMAIN waiters' : waiters'[i] = u
    BY DEF TypeOK, Queue, LockOK, Release
  <1> QED BY <1>1, <1>2 DEF Queue, LockOK, Distinct, Release

\* A task that is not at an exchange moves, and the upstream issues at most.
LEMMA ChainFrame ==
    ASSUME TypeOK, Chain, NEW t \in Tasks, NEW l, l \notin {"exchange", "save"},
           pc[t] \notin {"exchange", "save"}, pc' = [pc EXCEPT ![t] = l],
           \A u \in Tasks \ {t} : token'[u] = token[u],
           account'.token = account.token, live \subseteq live',
           UNCHANGED <<spoiled, overtaken>>
    PROVE  Chain'
  <1>1. TokenKept'
    BY DEF TypeOK, Chain, TokenKept
  <1>2. RefusalEarned'
    BY DEF TypeOK, Chain, RefusalEarned
  <1> QED BY <1>1, <1>2 DEF Chain

\* A task leaves an exchange that came to nothing.
LEMMA ChainLeave ==
    ASSUME TypeOK, Chain, NEW t \in Tasks, NEW l, l \notin {"exchange", "save"},
           pc' = [pc EXCEPT ![t] = l],
           \A u \in Tasks \ {t} : token'[u] = token[u],
           account'.token = account.token, UNCHANGED live,
           spoiled' \in BOOLEAN, spoiled => spoiled',
           pc[t] = "save" => (account.token \in live \/ spoiled'),
           overtaken' = overtaken \/ overtaken' = overtaken \ {t}
    PROVE  Chain'
  <1>1. TokenKept'
    BY DEF TypeOK, Chain, TokenKept
  <1>2. RefusalEarned'
    BY DEF TypeOK, Chain, RefusalEarned
  <1> QED BY <1>1, <1>2 DEF Chain

\* A task moves, and no job is touched.
LEMMA WorkFrame ==
    ASSUME TypeOK, JobRules, NEW t \in Tasks,
           NEW l, l \notin {"setup", "authorize", "adopt", "judge"},
           pc' = [pc EXCEPT ![t] = l],
           \A u \in Tasks \ {t} : kind'[u] = kind[u],
           kind'[t] # "import" \/ (kind'[t] = kind[t] /\ l # "idle"),
           pc[t] = "idle" => t \notin Workers,
           UNCHANGED <<job, taken, retried>>
    PROVE  JobRules'
  <1>1. JobsOK'
    BY Apart DEF TypeOK, JobRules, JobsOK
  <1>2. OneJob'
    BY DEF JobRules, OneJob
  <1> QED BY <1>1, <1>2 DEF JobRules

-----------------------------------------------------------------------------
(* The types, in parts *)

UpTypes   == issued \in 1..MaxTokens /\ live \subseteq 1..issued /\ spoiled \in BOOLEAN
             /\ overtaken \subseteq Tasks /\ events \in 0..MaxEvents
LockTypes == holder \in Tasks \cup {"none"} /\ waiters \in Seq(Tasks)
             /\ bound \in Tasks \cup {"none", "main", "gone"}
JobTypes  ==
    /\ job \in [Jobs -> {"none", "ended"} \cup Active]
    /\ taken \in [Workers -> Jobs \cup {0}]
    /\ attempt \in [Workers -> 0..MaxAttempts]
    /\ retryable \in [Workers -> BOOLEAN] /\ retried \subseteq Jobs

LEMMA Parts == TypeOK <=> account \in Account /\ UpTypes /\ LockTypes /\ TaskTypes /\ JobTypes
  BY DEF TypeOK, UpTypes, LockTypes, TaskTypes, JobTypes

LEMMA PartsNext ==
    ASSUME (account \in Account)', UpTypes', LockTypes', TaskTypes', JobTypes'
    PROVE  TypeOK'
  BY DEF TypeOK, UpTypes, LockTypes, TaskTypes, JobTypes

-----------------------------------------------------------------------------
(* Calls and the lock *)

LEMMA BeginStep ==
    ASSUME Inv, NEW t \in Tasks, NEW k \in Kinds, Begin(t, k)
    PROVE  Inv'
  <1>0. /\ TypeOK /\ Queue /\ Chain /\ JobRules /\ t \notin Workers
        /\ pc[t] = "idle" /\ k # "import" /\ UNCHANGED <<account, lockVars, jobVars, upstream, events>>
        /\ token' = [token EXCEPT ![t] = 0]
        /\ kind' = [kind EXCEPT ![t] = k]
    BY Apart DEF Inv, Typing, Begin, Ensures
  <1>1. PICK l \in {"post", "lock"} : pc' = [pc EXCEPT ![t] = l]
    BY DEF Begin, Ensures, Goes
  <1>2. TaskTypes'
    BY <1>0, <1>1, Bounds DEF Begin, Ensures, TaskTypes, TypeOK
  <1>3. TypeOK'
    BY <1>0, <1>2, Parts, PartsNext DEF UpTypes, LockTypes, JobTypes, lockVars, jobVars, upstream
  <1>4. TokensOK'
    BY <1>0, <1>1 DEF Inv, Typing, TokensOK, TypeOK
  <1>5. Queue'
    BY <1>0, <1>1, QueueFrame DEF lockVars
  <1>6. Chain'
    BY <1>0, <1>1, ChainFrame DEF upstream, TypeOK
  <1>7. JobRules'
    BY <1>0, <1>1, WorkFrame DEF jobVars, TypeOK
  <1> QED BY <1>3, <1>4, <1>5, <1>6, <1>7 DEF Inv, Typing

\* A task that reads the account under the lock, which nobody held.
LEMMA CurrentStep ==
    ASSUME Inv, NEW t \in Tasks, pc[t] \in {"lock", "wait"}, holder = "none", Current(t),
           waiters' \in Seq(Tasks), Queue'
    PROVE  Inv'
  <1>0. /\ TypeOK /\ TokensOK /\ Queue /\ Chain /\ JobRules
        /\ UNCHANGED <<kind, forced, verdict, account, bound, jobVars, upstream, events>>
    BY DEF Inv, Typing, Current
  <1>1. PICK l \in {"post", "exchange"} :
            /\ pc' = [pc EXCEPT ![t] = l]
            /\ l = "post" => holder' = "none" /\ UNCHANGED token
            /\ l = "exchange" => holder' = t /\ token' = [token EXCEPT ![t] = account.token]
    BY DEF Current, Goes
  <1>2. account.token \in 1..MaxTokens
    BY <1>0 DEF TypeOK, Account
  <1>3. token' \in [Tasks -> 0..MaxTokens]
    <2>1. token \in [Tasks -> 0..MaxTokens] /\ account.token \in 0..MaxTokens
      BY <1>0, <1>2, Bounds DEF TypeOK
    <2>2. token' = token \/ token' = [token EXCEPT ![t] = account.token]
      BY <1>1
    <2> QED BY <2>1, <2>2
  <1>4. wasInvalid' \in [Tasks -> BOOLEAN]
    BY <1>0 DEF Current, Copies, TypeOK
  <1>5. TaskTypes'
    BY <1>0, <1>1, <1>3, <1>4 DEF TaskTypes, TypeOK
  <1>6. TypeOK'
    <2>1. LockTypes'
      BY <1>0, <1>1 DEF LockTypes, TypeOK
    <2> QED BY <1>0, <1>5, <2>1, Parts, PartsNext DEF UpTypes, JobTypes, jobVars, upstream
  <1>7. TokensOK'
    BY <1>0, <1>1, <1>2 DEF TokensOK, TypeOK
  <1>8. Chain'
    <2>1. \A u \in Tasks : pc[u] \notin {"exchange", "save"}
      BY <1>0, Apart DEF Queue, LockOK
    <2>2. account.token \in live \/ spoiled
      BY <1>0, <2>1 DEF Chain, TokenKept
    <2>3. TokenKept'
      BY <1>0, <2>2 DEF TokenKept, upstream
    <2>4. RefusalEarned'
      BY <1>0, <1>1, <2>1, <2>2 DEF RefusalEarned, upstream, TypeOK
    <2> QED BY <2>3, <2>4 DEF Chain
  <1>9. JobRules'
    BY <1>0, <1>1, WorkFrame DEF jobVars, JobsOK, JobRules, TypeOK
  <1> QED BY <1>6, <1>7, <1>8, <1>9 DEF Inv, Typing

LEMMA LockStep ==
    ASSUME Inv, NEW t \in Tasks, Lock(t)
    PROVE  Inv'
  <1>0. /\ TypeOK /\ Queue /\ pc[t] = "lock" /\ holder = "none" /\ Current(t)
        /\ waiters = <<>> /\ UNCHANGED <<waiters, bound>>
    BY DEF Inv, Typing, Lock, Current
  <1>1. PICK l \in {"post", "exchange"} :
            pc' = [pc EXCEPT ![t] = l] /\ holder' = IF l = "exchange" THEN t ELSE "none"
    BY <1>0 DEF Current, Goes
  <1>2. \A u \in Tasks : pc'[u] \in {"exchange", "save"} <=> holder' = u
    BY <1>0, <1>1, Apart DEF Queue, LockOK, TypeOK
  <1>3. \A u \in Tasks : pc'[u] = "wait" <=> \E i \in DOMAIN waiters' : waiters'[i] = u
    BY <1>0, <1>1 DEF Queue, LockOK, TypeOK
  <1>4. Queue'
    BY <1>0, <1>2, <1>3 DEF Queue, LockOK, Distinct
  <1> QED BY <1>0, <1>4, CurrentStep DEF TypeOK

LEMMA WakeStep ==
    ASSUME Inv, NEW t \in Tasks, Wake(t)
    PROVE  Inv'
  <1>0. /\ TypeOK /\ Queue /\ pc[t] = "wait" /\ holder = "none" /\ Current(t)
        /\ t = Head(waiters) /\ waiters' = Tail(waiters) /\ UNCHANGED bound
    BY DEF Inv, Typing, Wake, Current
  <1>1. PICK l \in {"post", "exchange"} :
            pc' = [pc EXCEPT ![t] = l] /\ holder' = IF l = "exchange" THEN t ELSE "none"
    BY <1>0 DEF Current, Goes
  <1>2. PICK n \in Nat : /\ DOMAIN waiters = 1..n /\ n > 0 /\ waiters \in Seq(Tasks)
                         /\ Len(waiters) = n
    <2>1. waiters \in Seq(Tasks) /\ \E i \in DOMAIN waiters : waiters[i] = t
      BY <1>0 DEF TypeOK, Queue, LockOK
    <2> QED BY <2>1
  <1>3. /\ waiters' \in Seq(Tasks) /\ DOMAIN waiters' = 1..(n - 1) /\ waiters[1] = t
        /\ \A i \in 1..(n - 1) : waiters'[i] = waiters[i + 1] /\ i + 1 \in 1..n
    BY <1>0, <1>2
  <1>4. \A u \in Tasks : pc'[u] \in {"exchange", "save"} <=> holder' = u
    BY <1>0, <1>1, Apart DEF Queue, LockOK, TypeOK
  <1>5. \A u \in Tasks : pc'[u] = "wait" <=> \E i \in DOMAIN waiters' : waiters'[i] = u
    <2> TAKE u \in Tasks
    <2>1. CASE u = t
      <3>1. pc'[u] # "wait"
        BY <1>0, <1>1, <2>1 DEF TypeOK
      <3>2. \A i \in 1..(n - 1) : waiters[i + 1] # t
        BY <1>0, <1>2, <1>3 DEF Queue, Distinct
      <3> QED BY <1>3, <2>1, <3>1, <3>2
    <2>2. CASE u # t
      <3>1. pc'[u] = pc[u]
        BY <1>0, <1>1, <2>2 DEF TypeOK
      <3>2. ASSUME pc[u] = "wait" PROVE \E i \in 1..(n - 1) : waiters'[i] = u
        <4>1. PICK i \in 1..n : waiters[i] = u
          BY <1>0, <1>2, <3>2 DEF Queue, LockOK
        <4>2. i # 1 /\ i - 1 \in 1..(n - 1) /\ waiters'[i - 1] = waiters[(i - 1) + 1]
          BY <1>2, <1>3, <2>2, <4>1
        <4> QED BY <4>1, <4>2
      <3>3. ASSUME NEW i \in 1..(n - 1), waiters'[i] = u PROVE pc[u] = "wait"
        BY <1>0, <1>2, <1>3, <3>3 DEF Queue, LockOK
      <3> QED BY <1>3, <3>1, <3>2, <3>3
    <2> QED BY <2>1, <2>2
  <1>6. \A i \in DOMAIN waiters' : Loop(waiters'[i]) = bound'
    BY <1>0, <1>2, <1>3 DEF Queue, LockOK
  <1>7. Distinct'
    <2> SUFFICES ASSUME NEW i \in 1..(n - 1), NEW j \in 1..(n - 1), waiters'[i] = waiters'[j]
                 PROVE  i = j
      BY <1>3 DEF Distinct
    <2>1. i + 1 = j + 1
      BY <1>0, <1>2, <1>3 DEF Queue, Distinct
    <2> QED BY <2>1
  <1>8. Queue'
    BY <1>4, <1>5, <1>6, <1>7 DEF Queue, LockOK
  <1> QED BY <1>0, <1>3, <1>8, CurrentStep

\* A call ends, with or without the lock.
LEMMA EndStep ==
    ASSUME Inv, NEW t \in Tasks, NEW a \in Answers, Concludes(t, a),
           pc[t] \in {"lock", "exchange", "save", "post"},
           UNCHANGED <<waiters, bound, live, issued>>,
           holder' = IF pc[t] \in {"exchange", "save"} THEN "none" ELSE holder,
           spoiled' \in BOOLEAN, spoiled => spoiled',
           pc[t] = "save" => (account.token \in live \/ spoiled'),
           overtaken' = overtaken \/ overtaken' = overtaken \ {t},
           events' \in 0..MaxEvents
    PROVE  Inv'
  <1>0. TypeOK /\ TokensOK /\ Queue /\ Chain /\ JobRules /\ JobsOK
    BY DEF Inv, Typing, JobRules
  <1>1. /\ account' \in Account /\ account'.token = account.token
        /\ TaskTypes'
        /\ token' = [token EXCEPT ![t] = 0]
        /\ \A u \in Tasks \ {t} : kind'[u] = kind[u]
        /\ UNCHANGED <<taken, attempt, retryable, retried>>
    BY <1>0, ConcludesStep
  <1>2. PICK l \in {"idle", "write", "judge"} : pc' = [pc EXCEPT ![t] = l]
    BY <1>0, ConcludesStep
  <1>3. /\ kind[t] = "import" => /\ t \in Workers /\ taken[t] \in Jobs
                                 /\ job' = [job EXCEPT ![taken[t]] = "ended"]
                                 /\ pc' = [pc EXCEPT ![t] = "judge"] /\ kind'[t] = "import"
        /\ kind[t] # "import" => job' = job /\ pc'[t] # "judge" /\ kind'[t] # "import"
    BY <1>0, ConcludesStep
  <1>4. TypeOK'
    <2>1. UpTypes' /\ LockTypes'
      BY <1>0 DEF UpTypes, LockTypes, TypeOK
    <2>2. JobTypes'
      <3>1. job' = job \/ (taken[t] \in Jobs /\ job' = [job EXCEPT ![taken[t]] = "ended"])
        BY <1>3
      <3> QED BY <1>0, <1>1, <3>1 DEF JobTypes, TypeOK
    <2> QED BY <1>1, <2>1, <2>2, PartsNext
  <1>5. TokensOK'
    BY <1>0, <1>1, <1>2 DEF TokensOK, TypeOK
  <1>6. Queue'
    <2>1. CASE pc[t] \in {"exchange", "save"}
      BY <1>0, <1>2, <2>1, QueueRelease DEF Release
    <2>2. CASE pc[t] \notin {"exchange", "save"}
      BY <1>0, <1>2, <2>2, QueueFrame
    <2> QED BY <2>1, <2>2
  <1>7. Chain'
    BY <1>0, <1>1, <1>2, ChainLeave DEF TypeOK
  <1>8. JobRules'
    <2>1. CASE kind[t] = "import"
      <3>0. /\ t \in Workers /\ taken[t] \in Jobs /\ taken[t] # 0
            /\ job \in [Jobs -> {"none", "ended"} \cup Active]
            /\ job' = [job EXCEPT ![taken[t]] = "ended"] /\ UNCHANGED <<taken, retried>>
            /\ pc' = [pc EXCEPT ![t] = "judge"] /\ kind'[t] = "import"
            /\ pc = [u \in Tasks |-> pc[u]]
        BY <1>0, <1>1, <1>3, <2>1, Bounds DEF TypeOK
      <3>1. JobsOK'
        <4>1. \A u \in Tasks :
                 pc'[u] \in {"setup", "authorize", "adopt", "judge"} \/ kind'[u] = "import" =>
                    u \in Workers /\ pc'[u] # "idle"
          BY <1>0, <1>1, <3>0 DEF JobsOK
        <4>2. \A w \in Workers : pc'[w] # "idle" => taken'[w] \in Jobs
          BY <1>0, <3>0, Apart DEF JobsOK
        <4>3. \A w \in Workers : /\ pc'[w] = "setup" => job'[taken'[w]] = "pending"
                                 /\ pc'[w] = "judge" => job'[taken'[w]] = "ended"
          <5> TAKE w \in Workers
          <5>1. CASE w = t
            BY <3>0, <5>1, Apart
          <5>2. CASE w # t
            <6>1. pc'[w] = pc[w] /\ w \in Tasks
              BY <3>0, <5>2, Apart
            <6>2. pc[w] \in {"setup", "judge"} => taken[w] \in Jobs /\ taken[w] # taken[t]
              BY <1>0, <3>0, <5>2 DEF JobsOK
            <6> QED BY <1>0, <3>0, <6>1, <6>2 DEF JobsOK
          <5> QED BY <5>1, <5>2
        <4> QED BY <1>0, <3>0, <4>1, <4>2, <4>3 DEF JobsOK
      <3>2. OneJob'
        <4>1. \A j \in Jobs : job'[j] \in Active => job[j] \in Active
          BY <3>0 DEF Active
        <4> QED BY <1>0, <3>0, <4>1 DEF JobRules, OneJob
      <3> QED BY <3>1, <3>2 DEF JobRules
    <2>2. CASE kind[t] # "import"
      <3>1. l # "judge"
        BY <1>0, <1>2, <1>3, <2>2 DEF TypeOK
      <3> QED BY <1>0, <1>1, <1>2, <1>3, <2>2, <3>1, WorkFrame
    <2> QED BY <2>1, <2>2
  <1> QED BY <1>4, <1>5, <1>6, <1>7, <1>8 DEF Inv, Typing

LEMMA BlockStep ==
    ASSUME Inv, NEW t \in Tasks, Block(t)
    PROVE  Inv'
  <1>0. /\ TypeOK /\ TokensOK /\ Queue /\ Chain /\ JobRules
        /\ pc[t] = "lock" /\ (holder # "none" \/ waiters # <<>>)
        /\ UNCHANGED <<holder, upstream, events>>
    BY DEF Inv, Typing, Block
  <1>1. CASE bound \in {"none", Loop(t)}
    <2>1. /\ bound' = Loop(t) /\ waiters' = Append(waiters, t)
          /\ pc' = [pc EXCEPT ![t] = "wait"]
          /\ UNCHANGED <<account, kind, forced, verdict, wasInvalid, token, jobVars>>
      BY <1>1 DEF Block, Goes
    <2>2. PICK n \in Nat : DOMAIN waiters = 1..n /\ Len(waiters) = n /\ waiters \in Seq(Tasks)
      BY <1>0 DEF TypeOK
    <2>3. /\ waiters' \in Seq(Tasks) /\ DOMAIN waiters' = 1..(n + 1) /\ waiters'[n + 1] = t
          /\ \A i \in 1..n : waiters'[i] = waiters[i] /\ i # n + 1
      BY <2>1, <2>2
    <2>4. TypeOK'
      <3>1. LockTypes'
        BY <1>0, <2>1, <2>3 DEF LockTypes, TypeOK, Loop
      <3>2. TaskTypes'
        BY <1>0, <2>1 DEF TaskTypes, TypeOK
      <3> QED BY <1>0, <2>1, <3>1, <3>2, Parts, PartsNext DEF UpTypes, JobTypes, jobVars, upstream
    <2>5. TokensOK'
      BY <1>0, <2>1 DEF TokensOK, TypeOK
    <2>6. Queue'
      <3>1. \A u \in Tasks : pc'[u] \in {"exchange", "save"} <=> holder' = u
        BY <1>0, <2>1 DEF Queue, LockOK, TypeOK
      <3>2. \A u \in Tasks : pc'[u] = "wait" <=> \E i \in DOMAIN waiters' : waiters'[i] = u
        <4> TAKE u \in Tasks
        <4>1. CASE u = t
          <5>1. n + 1 \in DOMAIN waiters' /\ pc'[u] = "wait"
            BY <1>0, <2>1, <2>3, <4>1 DEF TypeOK
          <5> QED BY <2>3, <4>1, <5>1
        <4>2. CASE u # t
          <5>1. pc'[u] = pc[u]
            BY <1>0, <2>1, <4>2 DEF TypeOK
          <5>2. pc[u] = "wait" <=> \E i \in 1..n : waiters[i] = u
            BY <1>0, <2>2 DEF Queue, LockOK
          <5>3. \A i \in 1..(n + 1) : i \in 1..n \/ i = n + 1
            OBVIOUS
          <5>4. \A i \in 1..n : i \in 1..(n + 1)
            OBVIOUS
          <5> QED BY <2>3, <4>2, <5>1, <5>2, <5>3, <5>4
        <4> QED BY <4>1, <4>2
      <3>3. \A i \in DOMAIN waiters' : Loop(waiters'[i]) = bound'
        <4> SUFFICES ASSUME NEW i \in 1..(n + 1) PROVE Loop(waiters'[i]) = bound'
          BY <2>3
        <4>1. CASE i = n + 1
          BY <2>1, <2>3, <4>1
        <4>2. CASE i \in 1..n
          <5>1. Loop(waiters[i]) = bound /\ waiters[i] \in Tasks
            BY <1>0, <2>2, <4>2 DEF Queue, LockOK
          <5>2. bound = Loop(t)
            BY <1>1, <5>1, Apart DEF Loop
          <5> QED BY <2>1, <2>3, <4>2, <5>1, <5>2
        <4> QED BY <4>1, <4>2
      <3>4. Distinct'
        <4>1. \A i \in 1..n : waiters[i] # t
          BY <1>0, <2>2 DEF Queue, LockOK
        <4>2. \A i, j \in 1..n : waiters[i] = waiters[j] => i = j
          BY <1>0, <2>2 DEF Queue, Distinct
        <4> QED BY <2>3, <4>1, <4>2 DEF Distinct
      <3> QED BY <3>1, <3>2, <3>3, <3>4 DEF Queue, LockOK
    <2>7. Chain'
      BY <1>0, <2>1, ChainFrame DEF upstream
    <2>8. JobRules'
      <3>1. kind'[t] # "import" \/ (kind'[t] = kind[t] /\ "wait" # "idle")
        BY <2>1
      <3> QED BY <1>0, <2>1, <3>1, WorkFrame DEF jobVars
    <2> QED BY <2>4, <2>5, <2>6, <2>7, <2>8 DEF Inv, Typing
  <1>2. CASE bound \notin {"none", Loop(t)}
    <2>1. Concludes(t, "error") /\ UNCHANGED <<waiters, bound>>
      BY <1>2 DEF Block
    <2>2. UNCHANGED <<live, issued, spoiled, overtaken>> /\ spoiled' \in BOOLEAN /\ events' \in 0..MaxEvents
      BY <1>0 DEF upstream, TypeOK
    <2> QED BY <1>0, <2>1, <2>2, EndStep DEF Answers
  <1> QED BY <1>1, <1>2

-----------------------------------------------------------------------------
(* The refresh *)

LEMMA RotateStep ==
    ASSUME Inv, NEW t \in Tasks, Rotate(t)
    PROVE  Inv'
  <1>0. /\ TypeOK /\ TokensOK /\ Queue /\ Chain /\ JobRules
        /\ pc[t] = "exchange" /\ token[t] \in live /\ issued < MaxTokens
        /\ issued' = issued + 1 /\ live' = (live \ {token[t]}) \cup {issued + 1}
        /\ token' = [token EXCEPT ![t] = issued + 1] /\ pc' = [pc EXCEPT ![t] = "save"]
        /\ UNCHANGED <<account, lockVars, kind, forced, verdict, wasInvalid, jobVars, spoiled,
                       overtaken, events>>
    BY DEF Inv, Typing, Rotate, Goes
  <1>1. TypeOK'
    <2>0. issued \in 1..MaxTokens /\ live \subseteq 1..issued /\ MaxTokens \in Nat
      BY <1>0, Bounds DEF TypeOK
    <2>1. /\ issued' \in 1..MaxTokens /\ issued + 1 \in 0..MaxTokens
          /\ live' \subseteq 1..issued'
      <3>1. issued' = issued + 1 /\ issued < MaxTokens /\ live' \subseteq live \cup {issued + 1}
        BY <1>0
      <3>2. issued' \in 1..MaxTokens /\ issued + 1 \in 0..MaxTokens
        BY <2>0, <3>1
      <3>3. \A x \in 1..issued : x \in 1..(issued + 1)
        BY <2>0
      <3>4. issued + 1 \in 1..(issued + 1)
        BY <2>0
      <3> QED BY <2>0, <3>1, <3>2, <3>3, <3>4
    <2>2. TaskTypes'
      BY <1>0, <2>1 DEF TaskTypes, TypeOK
    <2>3. UpTypes'
      BY <1>0, <2>1 DEF UpTypes, TypeOK
    <2> QED BY <1>0, <2>2, <2>3, Parts, PartsNext DEF LockTypes, JobTypes, lockVars, jobVars
  <1>2. TokensOK'
    BY <1>0, Bounds DEF TokensOK, TypeOK
  <1>3. Queue'
    BY <1>0 DEF Queue, LockOK, Distinct, TypeOK, lockVars
  <1>4. Chain'
    <2>1. \A u \in Tasks : pc[u] \in {"exchange", "save"} => u = t
      BY <1>0 DEF Queue, LockOK
    <2>2. TokenKept'
      <3>1. pc'[t] = "save" /\ token'[t] \in live'
        BY <1>0 DEF TypeOK
      <3> QED BY <3>1 DEF TokenKept
    <2>3. RefusalEarned'
      BY <1>0, <2>1 DEF RefusalEarned, TypeOK
    <2> QED BY <2>2, <2>3 DEF Chain
  <1>5. JobRules'
    BY <1>0, WorkFrame DEF jobVars, JobRules, JobsOK
  <1> QED BY <1>1, <1>2, <1>3, <1>4, <1>5 DEF Inv, Typing

\* An exchange that is refused, fails or is never answered.
LEMMA UnansweredStep ==
    ASSUME Inv, NEW t \in Tasks, Refuse(t) \/ Fail(t) \/ LoseAnswer(t)
    PROVE  Inv'
  <1>0. /\ TypeOK /\ pc[t] \in {"exchange", "save"} /\ Release
        /\ UNCHANGED <<bound, live, issued>> /\ overtaken' = overtaken \ {t}
        /\ Concludes(t, "refused") \/ Concludes(t, "error")
    BY DEF Inv, Typing, Refuse, Fail, LoseAnswer
  <1>1. spoiled' \in BOOLEAN /\ (spoiled => spoiled')
    BY <1>0 DEF Refuse, Fail, LoseAnswer, TypeOK
  <1>2. pc[t] = "save" => (account.token \in live \/ spoiled')
    BY <1>0 DEF Refuse, Fail, LoseAnswer
  <1>3. events' \in 0..MaxEvents
    BY <1>0, Bounds DEF Refuse, Fail, LoseAnswer, Event, TypeOK
  <1>4. holder' = "none" /\ UNCHANGED waiters
    BY <1>0 DEF Release
  <1> QED BY <1>0, <1>1, <1>2, <1>3, <1>4, EndStep DEF Answers

\* What is stored is a record, which is as good as the token that came.
LEMMA SavedRecord ==
    ASSUME NEW new \in 1..MaxTokens
    PROVE  Saved(new) \in Account /\ Saved(new).token = new /\ Saved(new).fresh
  BY DEF Saved, Account, Statuses

LEMMA SaveStep ==
    ASSUME Inv, NEW t \in Tasks, Save(t)
    PROVE  Inv'
  <1>0. /\ TypeOK /\ TokensOK /\ Queue /\ Chain /\ JobRules
        /\ pc[t] = "save" /\ account' = Saved(token[t]) /\ spoiled' = (token[t] \notin live)
        /\ overtaken' = overtaken \ {t} /\ Release
        /\ UNCHANGED <<bound, jobVars, live, issued, events>>
    BY DEF Inv, Typing, Save
  <1>1. token[t] \in 1..MaxTokens
    BY <1>0 DEF TokensOK
  <1>2. account' \in Account /\ account'.token = token[t]
    BY <1>0, <1>1, SavedRecord
  <1>3. PICK l \in {"idle", "post"} :
            /\ pc' = [pc EXCEPT ![t] = l] /\ token' = [token EXCEPT ![t] = 0]
            /\ \A u \in Tasks \ {t} : kind'[u] = kind[u]
            /\ kind'[t] # "import" \/ (kind'[t] = kind[t] /\ l # "idle")
    <2>1. CASE kind[t] = "refresh"
      <3>1. Over(t)
        BY <2>1 DEF Save
      <3> QED BY <1>0, <3>1 DEF Over, Goes, TypeOK
    <2>2. CASE kind[t] # "refresh"
      <3>1. Goes(t, "post") /\ token' = [token EXCEPT ![t] = 0] /\ UNCHANGED kind
        BY <2>2 DEF Save
      <3> QED BY <3>1 DEF Goes
    <2> QED BY <2>1, <2>2
  <1>4. TaskTypes'
    <2>1. CASE kind[t] = "refresh"
      <3>1. Over(t) /\ "unknown" \in Verdicts
        BY <2>1 DEF Save, Verdicts
      <3> QED BY <1>0, <3>1, Bounds DEF Over, Goes, TaskTypes, TypeOK
    <2>2. CASE kind[t] # "refresh"
      <3>1. /\ Goes(t, "post") /\ token' = [token EXCEPT ![t] = 0]
            /\ UNCHANGED <<kind, forced, verdict>>
        BY <2>2 DEF Save
      <3>2. wasInvalid' \in [Tasks -> BOOLEAN]
        BY <1>0, <2>2 DEF Save, Copies, TypeOK
      <3>3. /\ pc' \in [Tasks -> {"idle", "post", "lock", "wait", "exchange", "save", "write",
                                  "setup", "authorize", "adopt", "judge"}]
            /\ token' \in [Tasks -> 0..MaxTokens]
        BY <1>0, <3>1, Bounds DEF Goes, TypeOK
      <3>4. /\ kind \in [Tasks -> Kinds \cup {"none"}]
            /\ forced \in [Tasks -> BOOLEAN] /\ verdict \in [Tasks -> Verdicts]
        BY <1>0 DEF TypeOK
      <3> QED BY <3>1, <3>2, <3>3, <3>4 DEF TaskTypes
    <2> QED BY <2>1, <2>2
  <1>5. TypeOK'
    <2>1. UpTypes' /\ LockTypes'
      BY <1>0 DEF UpTypes, LockTypes, TypeOK, Release
    <2> QED BY <1>0, <1>2, <1>4, <2>1, Parts, PartsNext DEF JobTypes, jobVars
  <1>6. TokensOK'
    BY <1>0, <1>3 DEF TokensOK, TypeOK
  <1>7. Queue'
    BY <1>0, <1>3, QueueRelease
  <1>8. Chain'
    <2>1. \A u \in Tasks : pc[u] \in {"exchange", "save"} => u = t
      BY <1>0 DEF Queue, LockOK
    <2>2. TokenKept'
      BY <1>0, <1>2 DEF TokenKept
    <2>3. RefusalEarned'
      BY <1>0, <1>3, <2>1 DEF RefusalEarned, TypeOK
    <2> QED BY <2>2, <2>3 DEF Chain
  <1>9. JobRules'
    BY <1>0, <1>3, WorkFrame DEF jobVars
  <1> QED BY <1>5, <1>6, <1>7, <1>8, <1>9 DEF Inv, Typing

LEMMA PostStep ==
    ASSUME Inv, NEW t \in Tasks, Post(t)
    PROVE  Inv'
  <1>0. /\ TypeOK /\ TokensOK /\ Queue /\ Chain /\ JobRules
        /\ pc[t] = "post" /\ UNCHANGED <<lockVars, upstream, events>>
    BY DEF Inv, Typing, Post
  <1>1. CASE ~forced[t] /\ Ensures(t, TRUE) /\ UNCHANGED <<account, kind, wasInvalid, jobVars>>
    <2>1. PICK l \in {"post", "lock"} : pc' = [pc EXCEPT ![t] = l]
      BY <1>1 DEF Ensures, Goes
    <2>2. token' = [token EXCEPT ![t] = 0]
      BY <1>1 DEF Ensures
    <2>3. TaskTypes'
      BY <1>0, <1>1, <2>1, Bounds DEF Ensures, TaskTypes, TypeOK
    <2>4. TypeOK'
      BY <1>0, <1>1, <2>3, Parts, PartsNext DEF UpTypes, LockTypes, JobTypes, lockVars, jobVars, upstream
    <2>5. TokensOK'
      BY <1>0, <2>1, <2>2 DEF TokensOK, TypeOK
    <2>6. Queue'
      BY <1>0, <2>1, QueueFrame DEF lockVars
    <2>7. Chain'
      BY <1>0, <1>1, <2>1, <2>2, ChainFrame DEF upstream, TypeOK
    <2>8. JobRules'
      BY <1>0, <1>1, <2>1, WorkFrame DEF jobVars
    <2> QED BY <2>4, <2>5, <2>6, <2>7, <2>8 DEF Inv, Typing
  <1>2. ASSUME NEW a \in Answers, Concludes(t, a) PROVE Inv'
    <2>1. /\ UNCHANGED <<holder, waiters, bound, live, issued, spoiled, overtaken>>
          /\ spoiled' \in BOOLEAN /\ events' \in 0..MaxEvents
      BY <1>0 DEF lockVars, upstream, TypeOK
    <2> QED BY <1>0, <1>2, <2>1, EndStep
  <1>3. \/ ~forced[t] /\ Ensures(t, TRUE) /\ UNCHANGED <<account, kind, wasInvalid, jobVars>>
        \/ \E a \in Answers : Concludes(t, a)
    BY DEF Post, Answers
  <1> QED BY <1>1, <1>2, <1>3

LEMMA WriteStep ==
    ASSUME Inv, NEW t \in Tasks, Write(t)
    PROVE  Inv'
  <1>0. /\ TypeOK /\ TokensOK /\ Queue /\ Chain /\ JobRules
        /\ pc[t] = "write" /\ account' = [account EXCEPT !.status = Judged(@, verdict[t])]
        /\ Over(t) /\ LoopEnds(t) /\ UNCHANGED <<holder, waiters, jobVars, upstream, events>>
    BY DEF Inv, Typing, Write
  <1>1. /\ pc' = [pc EXCEPT ![t] = "idle"] /\ token' = [token EXCEPT ![t] = 0]
        /\ kind' = [kind EXCEPT ![t] = "none"]
    BY <1>0 DEF Over, Goes
  <1>2. account' \in Account /\ account'.token = account.token
    BY <1>0 DEF Judged, Account, Statuses, TypeOK
  <1>3. TaskTypes'
    <2>1. "unknown" \in Verdicts
      BY DEF Verdicts
    <2> QED BY <1>0, <2>1, Bounds DEF Over, Goes, TaskTypes, TypeOK
  <1>4. TypeOK'
    <2>1. LockTypes'
      BY <1>0 DEF LockTypes, LoopEnds, TypeOK
    <2> QED BY <1>0, <1>2, <1>3, <2>1, Parts, PartsNext DEF UpTypes, JobTypes, jobVars, upstream
  <1>5. TokensOK'
    BY <1>0, <1>1 DEF TokensOK, TypeOK
  <1>6. Queue'
    BY <1>0, <1>1, QueueFrame
  <1>7. Chain'
    BY <1>0, <1>1, <1>2, ChainFrame DEF upstream, TypeOK
  <1>8. JobRules'
    BY <1>0, <1>1, WorkFrame DEF jobVars, TypeOK
  <1> QED BY <1>4, <1>5, <1>6, <1>7, <1>8 DEF Inv, Typing

-----------------------------------------------------------------------------
(* A cancelled task leaves the queue *)

\* Two parts, joined.
LEMMA Joined ==
    ASSUME NEW S, NEW a \in Seq(S), NEW b \in Seq(S), NEW i \in Nat, NEW n \in Nat,
           i \in 1..n, Len(a) = i - 1, Len(b) = n - i
    PROVE  /\ a \o b \in Seq(S) /\ Len(a \o b) = n - 1 /\ DOMAIN (a \o b) = 1..(n - 1)
           /\ \A j \in 1..(n - 1) : (a \o b)[j] = IF j < i THEN a[j] ELSE b[j + 1 - i]
  <1>1. a \o b \in Seq(S) /\ Len(a \o b) = Len(a) + Len(b)
    BY ConcatProperties
  <1>2. Len(a \o b) = n - 1 /\ n - 1 \in Nat
    BY <1>1
  <1>3. ASSUME NEW j \in 1..(n - 1) PROVE (a \o b)[j] = IF j < i THEN a[j] ELSE b[j + 1 - i]
    <2>1. (a \o b)[j] = IF j <= Len(a) THEN a[j] ELSE b[j - Len(a)]
      BY <1>1, <1>2, ConcatProperties
    <2>2. (j < i <=> j <= Len(a)) /\ j - Len(a) = j + 1 - i
      OBVIOUS
    <2> QED BY <2>1, <2>2
  <1> QED BY <1>1, <1>2, <1>3

\* What is before and after the i-th member.
LEMMA Cut ==
    ASSUME NEW S, NEW q \in Seq(S), NEW n \in Nat, Len(q) = n, NEW i \in 1..n
    PROVE  /\ SubSeq(q, 1, i - 1) \in Seq(S) /\ Len(SubSeq(q, 1, i - 1)) = i - 1
           /\ \A j \in 1..(i - 1) : SubSeq(q, 1, i - 1)[j] = q[j]
           /\ SubSeq(q, i + 1, n) \in Seq(S) /\ Len(SubSeq(q, i + 1, n)) = n - i
           /\ \A j \in 1..(n - i) : SubSeq(q, i + 1, n)[j] = q[i + j]
  <1>1. /\ SubSeq(q, 1, i - 1) \in Seq(S) /\ Len(SubSeq(q, 1, i - 1)) = i - 1
        /\ \A j \in 1..(i - 1) : SubSeq(q, 1, i - 1)[j] = q[j]
    OBVIOUS
  <1>2. /\ SubSeq(q, i + 1, n) \in Seq(S) /\ Len(SubSeq(q, i + 1, n)) = n - i
        /\ \A j \in 1..(n - i) : SubSeq(q, i + 1, n)[j] = q[i + j]
    OBVIOUS
  <1> QED BY <1>1, <1>2

\* A queue without its i-th member, by its members.
Without(q, i) == SubSeq(q, 1, i - 1) \o SubSeq(q, i + 1, Len(q))

LEMMA Removal ==
    ASSUME NEW S, NEW q \in Seq(S), NEW i \in 1..Len(q)
    PROVE  /\ Without(q, i) \in Seq(S) /\ DOMAIN Without(q, i) = 1..(Len(q) - 1)
           /\ \A j \in 1..(Len(q) - 1) : Without(q, i)[j] = IF j < i THEN q[j] ELSE q[j + 1]
  <1> DEFINE r == Without(q, i)
  <1>0. PICK n \in Nat : Len(q) = n /\ i \in 1..n
    OBVIOUS
  <1>1. PICK a \in Seq(S) : /\ a = SubSeq(q, 1, i - 1) /\ Len(a) = i - 1
                            /\ \A j \in 1..(i - 1) : a[j] = q[j]
    <2>1. /\ SubSeq(q, 1, i - 1) \in Seq(S) /\ Len(SubSeq(q, 1, i - 1)) = i - 1
          /\ \A j \in 1..(i - 1) : SubSeq(q, 1, i - 1)[j] = q[j]
      BY <1>0, Cut
    <2> QED BY <2>1
  <1>2. PICK b \in Seq(S) : /\ b = SubSeq(q, i + 1, n) /\ Len(b) = n - i
                            /\ \A j \in 1..(n - i) : b[j] = q[i + j]
    <2>1. /\ SubSeq(q, i + 1, n) \in Seq(S) /\ Len(SubSeq(q, i + 1, n)) = n - i
          /\ \A j \in 1..(n - i) : SubSeq(q, i + 1, n)[j] = q[i + j]
      BY <1>0, Cut
    <2> QED BY <2>1
  <1>3. r = a \o b
    BY <1>0, <1>1, <1>2 DEF Without
  <1> HIDE DEF r
  <1>4. /\ r \in Seq(S) /\ DOMAIN r = 1..(n - 1)
        /\ \A j \in 1..(n - 1) : r[j] = IF j < i THEN a[j] ELSE b[j + 1 - i]
    <2>1. i \in Nat
      BY <1>0
    <2> QED BY <1>0, <1>1, <1>2, <1>3, <2>1, Joined
  <1>5. ASSUME NEW j \in 1..(n - 1) PROVE r[j] = IF j < i THEN q[j] ELSE q[j + 1]
    <2>1. CASE j < i
      <3>1. j \in 1..(i - 1)
        BY <1>0, <2>1
      <3> QED BY <1>1, <1>4, <2>1, <3>1
    <2>2. CASE ~(j < i)
      <3>1. j + 1 - i \in 1..(n - i) /\ i + (j + 1 - i) = j + 1
        BY <1>0, <2>2
      <3>2. b[j + 1 - i] = q[j + 1]
        BY <1>2, <3>1
      <3> QED BY <1>4, <2>2, <3>2
    <2> QED BY <2>1, <2>2
  <1> QED BY <1>0, <1>4, <1>5 DEF r

LEMMA QueueRemoval ==
    ASSUME TypeOK, Queue, NEW t \in Tasks, pc[t] = "wait", pc' = [pc EXCEPT ![t] = "idle"],
           NEW i \in DOMAIN waiters, waiters[i] = t,
           waiters' = SubSeq(waiters, 1, i - 1) \o SubSeq(waiters, i + 1, Len(waiters)),
           UNCHANGED holder, LoopEnds(t)
    PROVE  Queue' /\ waiters' \in Seq(Tasks)
  <1>1. PICK n \in Nat : Len(waiters) = n /\ DOMAIN waiters = 1..n /\ waiters \in Seq(Tasks)
    BY DEF TypeOK
  <1>0. i \in 1..n /\ i \in Nat
    BY <1>1
  <1>2. /\ waiters' \in Seq(Tasks) /\ DOMAIN waiters' = 1..(n - 1)
        /\ \A j \in 1..(n - 1) : waiters'[j] = IF j < i THEN waiters[j] ELSE waiters[j + 1]
    <2>1. waiters' = Without(waiters, i)
      BY DEF Without
    <2>2. waiters \in Seq(Tasks) /\ i \in 1..Len(waiters) /\ Len(waiters) = n
      BY <1>0, <1>1
    <2>3. /\ Without(waiters, i) \in Seq(Tasks) /\ DOMAIN Without(waiters, i) = 1..(n - 1)
          /\ \A j \in 1..(n - 1) :
                Without(waiters, i)[j] = IF j < i THEN waiters[j] ELSE waiters[j + 1]
      <3>1. /\ Without(waiters, i) \in Seq(Tasks)
            /\ DOMAIN Without(waiters, i) = 1..(Len(waiters) - 1)
            /\ \A j \in 1..(Len(waiters) - 1) :
                  Without(waiters, i)[j] = IF j < i THEN waiters[j] ELSE waiters[j + 1]
        BY <2>2, Removal
      <3> QED BY <2>2, <3>1
    <2> QED BY <2>1, <2>3
  <1>3. /\ \A j \in 1..n : waiters[j] = t => j = i
        /\ \A j, k \in 1..n : waiters[j] = waiters[k] => j = k
    BY <1>1 DEF Queue, Distinct
  <1>4. \A j \in 1..(n - 1) : \E k \in 1..n : /\ k = IF j < i THEN j ELSE j + 1
                                              /\ k # i /\ waiters'[j] = waiters[k]
    <2> TAKE j \in 1..(n - 1)
    <2>1. CASE j < i
      <3>1. j \in 1..n /\ j # i
        BY <1>0, <2>1
      <3>2. waiters'[j] = waiters[j]
        BY <1>2, <2>1
      <3> QED BY <2>1, <3>1, <3>2
    <2>2. CASE ~(j < i)
      <3>1. j + 1 \in 1..n /\ j + 1 # i
        BY <1>0, <2>2
      <3> QED BY <1>2, <2>2, <3>1
    <2> QED BY <2>1, <2>2
  <1>5. \A u \in Tasks : pc'[u] \in {"exchange", "save"} <=> holder' = u
    BY DEF Queue, LockOK, TypeOK
  <1>6. \A u \in Tasks : pc'[u] = "wait" <=> \E j \in DOMAIN waiters' : waiters'[j] = u
    <2> TAKE u \in Tasks
    <2>1. ASSUME NEW j \in 1..(n - 1), waiters'[j] = u PROVE pc'[u] = "wait"
      <3>1. PICK k \in 1..n : k # i /\ waiters'[j] = waiters[k]
        BY <1>4
      <3>2. u # t /\ pc[u] = "wait"
        BY <1>1, <1>3, <2>1, <3>1 DEF Queue, LockOK
      <3> QED BY <3>2 DEF TypeOK
    <2>2. ASSUME pc'[u] = "wait" PROVE \E j \in 1..(n - 1) : waiters'[j] = u
      <3>1. u # t /\ pc[u] = "wait"
        BY <2>2 DEF TypeOK
      <3>2. PICK k \in 1..n : waiters[k] = u
        BY <1>1, <3>1 DEF Queue, LockOK
      <3>3. k # i /\ i \in 1..n
        BY <1>1, <3>1, <3>2
      <3>4. CASE k < i
        <4>1. k \in 1..(n - 1)
          BY <1>0, <3>4
        <4> QED BY <1>2, <3>2, <3>4, <4>1
      <3>5. CASE k > i
        <4>1. k - 1 \in 1..(n - 1) /\ ~(k - 1 < i) /\ (k - 1) + 1 = k
          BY <1>0, <3>3, <3>5
        <4>2. waiters'[k - 1] = waiters[k]
          BY <1>2, <4>1
        <4> QED BY <3>2, <4>1, <4>2
      <3>6. k < i \/ k > i
        BY <1>0, <3>3
      <3> QED BY <3>4, <3>5, <3>6
    <2> QED BY <1>2, <2>1, <2>2
  <1>7. \A j \in DOMAIN waiters' : Loop(waiters'[j]) = bound'
    <2> SUFFICES ASSUME NEW j \in 1..(n - 1) PROVE Loop(waiters'[j]) = bound'
      BY <1>2
    <2>1. PICK k \in 1..n : k # i /\ waiters'[j] = waiters[k]
      BY <1>4
    <2>2. waiters[k] # t
      BY <1>3, <2>1
    <2>4. waiters[k] \in Tasks
      BY <1>1
    <2>5. Loop(waiters[k]) = bound
      BY <1>1 DEF Queue, LockOK
    <2>3. bound # t
      BY <2>2, <2>4, <2>5, Apart DEF Loop
    <2> QED BY <2>1, <2>3, <2>5 DEF LoopEnds
  <1>8. Distinct'
    <2> SUFFICES ASSUME NEW j \in 1..(n - 1), NEW k \in 1..(n - 1), waiters'[j] = waiters'[k]
                 PROVE  j = k
      BY <1>2 DEF Distinct
    <2>1. PICK x \in 1..n : x = (IF j < i THEN j ELSE j + 1) /\ waiters'[j] = waiters[x]
      BY <1>4
    <2>2. PICK y \in 1..n : y = (IF k < i THEN k ELSE k + 1) /\ waiters'[k] = waiters[y]
      BY <1>4
    <2>3. x = y
      BY <1>3, <2>1, <2>2
    <2> QED BY <1>1, <2>1, <2>2, <2>3
  <1> QED BY <1>2, <1>5, <1>6, <1>7, <1>8 DEF Queue, LockOK

LEMMA CancelStep ==
    ASSUME Inv, NEW t \in Tasks, Cancel(t)
    PROVE  Inv'
  <1>0. /\ TypeOK /\ TokensOK /\ Queue /\ Chain /\ JobRules
        /\ pc[t] \in {"post", "lock", "wait", "exchange", "save"} /\ Event
        /\ Over(t) /\ LoopEnds(t)
        /\ holder' = IF holder = t THEN "none" ELSE holder
        /\ overtaken' = overtaken \ {t}
        /\ UNCHANGED <<account, jobVars, live, issued>>
    BY DEF Inv, Typing, Cancel
  <1>1. /\ pc' = [pc EXCEPT ![t] = "idle"] /\ token' = [token EXCEPT ![t] = 0]
        /\ kind' = [kind EXCEPT ![t] = "none"]
    BY <1>0 DEF Over, Goes
  <1>2. /\ spoiled' \in BOOLEAN /\ (spoiled => spoiled')
        /\ pc[t] = "save" => (account.token \in live \/ spoiled')
    BY <1>0 DEF Cancel, TypeOK
  <1>3. Queue' /\ waiters' \in Seq(Tasks)
    <2>1. CASE pc[t] = "wait"
      <3>1. PICK i \in DOMAIN waiters :
               /\ waiters[i] = t
               /\ waiters' = SubSeq(waiters, 1, i - 1) \o SubSeq(waiters, i + 1, Len(waiters))
        BY <2>1 DEF Cancel
      <3>2. UNCHANGED holder
        BY <1>0, <2>1 DEF Queue, LockOK
      <3> QED BY <1>0, <1>1, <2>1, <3>1, <3>2, QueueRemoval
    <2>2. CASE pc[t] \in {"exchange", "save"}
      <3>1. UNCHANGED waiters
        BY <2>2 DEF Cancel
      <3>2. holder = t /\ holder' = "none"
        BY <1>0, <2>2 DEF Queue, LockOK
      <3>3. \A u \in Tasks : pc'[u] \in {"exchange", "save"} <=> holder' = u
        BY <1>0, <1>1, <3>2, Apart DEF Queue, LockOK, TypeOK
      <3>4. \A u \in Tasks : pc'[u] = "wait" <=> \E i \in DOMAIN waiters' : waiters'[i] = u
        BY <1>0, <1>1, <2>2, <3>1 DEF Queue, LockOK, TypeOK
      <3>5. \A i \in DOMAIN waiters' : Loop(waiters'[i]) = bound'
        <4> SUFFICES ASSUME NEW i \in DOMAIN waiters PROVE Loop(waiters[i]) = bound'
          BY <3>1
        <4>1. waiters[i] \in Tasks /\ pc[waiters[i]] = "wait" /\ Loop(waiters[i]) = bound
          BY <1>0 DEF TypeOK, Queue, LockOK
        <4>2. bound # t
          BY <2>2, <4>1, Apart DEF Loop
        <4> QED BY <1>0, <4>1, <4>2 DEF LoopEnds
      <3>6. Distinct'
        BY <1>0, <3>1 DEF Queue, Distinct
      <3> QED BY <1>0, <3>1, <3>3, <3>4, <3>5, <3>6 DEF Queue, LockOK, TypeOK
    <2>3. CASE pc[t] \notin {"wait", "exchange", "save"}
      <3>1. UNCHANGED <<holder, waiters>>
        BY <1>0, <2>3 DEF Cancel, Queue, LockOK
      <3> QED BY <1>0, <1>1, <2>3, <3>1, QueueFrame DEF TypeOK
    <2> QED BY <2>1, <2>2, <2>3
  <1>4. TypeOK'
    <2>1. UpTypes'
      BY <1>0, <1>2, Bounds DEF UpTypes, TypeOK, Event
    <2>2. LockTypes'
      BY <1>0, <1>3 DEF LockTypes, LoopEnds, TypeOK
    <2>3. "unknown" \in Verdicts
      BY DEF Verdicts
    <2>4. TaskTypes'
      BY <1>0, <2>3, Bounds DEF Over, Goes, TaskTypes, TypeOK
    <2> QED BY <1>0, <2>1, <2>2, <2>4, Parts, PartsNext DEF JobTypes, jobVars
  <1>5. TokensOK'
    BY <1>0, <1>1 DEF TokensOK, TypeOK
  <1>6. Chain'
    BY <1>0, <1>1, <1>2, ChainLeave DEF TypeOK
  <1>7. JobRules'
    BY <1>0, <1>1, WorkFrame DEF jobVars, TypeOK
  <1> QED BY <1>3, <1>4, <1>5, <1>6, <1>7 DEF Inv, Typing

-----------------------------------------------------------------------------
(* The jobs *)

\* A worker that is at its job.
LEMMA AtWork ==
    ASSUME Inv, NEW w \in Workers, pc[w] # "idle"
    PROVE  /\ w \in Tasks /\ taken[w] \in Jobs /\ taken[w] # 0
           /\ \A v \in Workers : taken[v] = taken[w] => v = w
           /\ \A v \in Workers \ {w} : taken[v] # taken[w]
  <1>1. taken[w] \in Jobs /\ taken[w] # 0 /\ w \in Tasks
    BY Apart, Bounds DEF Inv, JobRules, JobsOK
  <1> QED BY <1>1 DEF Inv, JobRules, JobsOK

\* A worker moves on with its job, which goes on as it says.
LEMMA JobFrame ==
    ASSUME Inv, NEW w \in Workers, pc[w] # "idle",
           NEW l \in {"setup", "authorize", "adopt", "judge"}, pc' = [pc EXCEPT ![w] = l],
           NEW s \in {"pending", "running", "ended"}, job' = [job EXCEPT ![taken[w]] = s],
           \A u \in Tasks \ {w} : kind'[u] = kind[u],
           UNCHANGED taken,
           l = "setup" => s = "pending", l = "judge" => s = "ended",
           s \in Active => job[taken[w]] \in Active \/ taken[w] \in retried',
           retried \subseteq retried'
    PROVE  JobRules'
  <1>0. TypeOK /\ JobRules /\ JobsOK /\ OneJob
    BY DEF Inv, Typing, JobRules
  <1>1. /\ w \in Tasks /\ taken[w] \in Jobs /\ taken[w] # 0
        /\ \A v \in Workers \ {w} : taken[v] # taken[w]
    BY AtWork
  <1>2. \A u \in Tasks :
           pc'[u] \in {"setup", "authorize", "adopt", "judge"} \/ kind'[u] = "import" =>
              u \in Workers /\ pc'[u] # "idle"
    <2> TAKE u \in Tasks
    <2>1. CASE u = w
      BY <1>0, <2>1 DEF TypeOK
    <2>2. CASE u # w
      BY <1>0, <2>2 DEF JobsOK, TypeOK
    <2> QED BY <2>1, <2>2
  <1>3. \A v \in Workers : pc'[v] # "idle" => taken'[v] \in Jobs
    BY <1>0, <1>1, Apart DEF JobsOK, TypeOK
  <1>4. \A v \in Workers : /\ pc'[v] = "setup" => job'[taken'[v]] = "pending"
                           /\ pc'[v] = "judge" => job'[taken'[v]] = "ended"
    <2> TAKE v \in Workers
    <2>1. CASE v = w
      BY <1>0, <1>1, <2>1 DEF TypeOK
    <2>2. CASE v # w
      <3>1. pc'[v] = pc[v] /\ taken[v] # taken[w]
        BY <1>0, <1>1, <2>2, Apart DEF TypeOK
      <3>2. pc[v] \in {"setup", "judge"} => taken[v] \in Jobs
        BY <1>0 DEF JobsOK
      <3>3. pc[v] \in {"setup", "judge"} => job'[taken[v]] = job[taken[v]]
        BY <1>0, <3>1, <3>2 DEF TypeOK
      <3> QED BY <1>0, <3>1, <3>3 DEF JobsOK
    <2> QED BY <2>1, <2>2
  <1>5. JobsOK'
    BY <1>0, <1>2, <1>3, <1>4 DEF JobsOK
  <1>6. OneJob'
    <2>1. \A j \in Jobs : job'[j] \in Active => job[j] \in Active \/ j \in retried'
      BY <1>0, <1>1 DEF TypeOK
    <2> QED BY <1>0, <2>1 DEF OneJob
  <1> QED BY <1>5, <1>6 DEF JobRules

LEMMA StartStep ==
    ASSUME Inv, NEW j \in Jobs, Start(j)
    PROVE  Inv'
  <1>0. /\ TypeOK /\ TokensOK /\ Queue /\ Chain /\ JobRules
        /\ Idle /\ job[j] = "none" /\ job' = [job EXCEPT ![j] = "pending"]
        /\ UNCHANGED <<account, lockVars, taskVars, taken, attempt, retryable, retried, upstream, events>>
    BY DEF Inv, Typing, Start
  <1>1. TypeOK'
    <2>1. JobTypes'
      BY <1>0 DEF JobTypes, TypeOK, Active
    <2> QED BY <1>0, <2>1, Parts, PartsNext DEF UpTypes, LockTypes, TaskTypes, lockVars, taskVars, upstream
  <1>2. TokensOK' /\ Queue' /\ Chain'
    BY <1>0 DEF TokensOK, Queue, LockOK, Distinct, Chain, TokenKept, RefusalEarned,
                lockVars, taskVars, upstream
  <1>3. JobsOK'
    <2>1. \A w \in Workers : pc[w] = "setup" => job[taken[w]] \in Active /\ taken[w] \in Jobs
      BY <1>0 DEF JobRules, JobsOK, Active
    <2>2. \A w \in Workers : pc[w] # "setup"
      BY <1>0, <2>1 DEF Idle
    <2>3. \A w \in Workers : pc[w] = "judge" => job[taken[w]] = "ended" /\ taken[w] \in Jobs
      BY <1>0 DEF JobRules, JobsOK
    <2>4. \A w \in Workers : pc[w] = "judge" => job'[taken[w]] = "ended"
      BY <1>0, <2>3 DEF TypeOK
    <2> QED BY <1>0, <2>2, <2>4 DEF JobRules, JobsOK, taskVars
  <1>4. OneJob'
    <2>1. \A i \in Jobs : job'[i] \in Active => i = j
      BY <1>0 DEF Idle, TypeOK
    <2> QED BY <2>1 DEF OneJob
  <1> QED BY <1>1, <1>2, <1>3, <1>4 DEF Inv, Typing, JobRules

LEMMA TakeStep ==
    ASSUME Inv, NEW w \in Workers, NEW j \in Jobs, Take(w, j)
    PROVE  Inv'
  <1>0. /\ TypeOK /\ TokensOK /\ Queue /\ Chain /\ JobRules /\ w \in Tasks
        /\ pc[w] = "idle" /\ job[j] = "pending" /\ \A v \in Workers : taken[v] # j
        /\ taken' = [taken EXCEPT ![w] = j] /\ attempt' = [attempt EXCEPT ![w] = 1]
        /\ pc' = [pc EXCEPT ![w] = "setup"]
        /\ UNCHANGED <<account, lockVars, kind, forced, verdict, wasInvalid, token, job, retryable,
                       retried, upstream, events>>
    BY Apart DEF Inv, Typing, Take, Goes
  <1>1. TypeOK'
    <2>1. JobTypes'
      BY <1>0, Bounds DEF JobTypes, TypeOK
    <2>2. TaskTypes'
      BY <1>0 DEF TaskTypes, TypeOK
    <2> QED BY <1>0, <2>1, <2>2, Parts, PartsNext DEF UpTypes, LockTypes, lockVars, upstream
  <1>2. TokensOK'
    BY <1>0 DEF TokensOK, TypeOK
  <1>3. Queue'
    BY <1>0, QueueFrame DEF lockVars
  <1>4. Chain'
    BY <1>0, ChainFrame DEF upstream
  <1>5. JobsOK'
    <2>1. \A v \in Workers : v \in Tasks
      BY Apart
    <2> QED BY <1>0, <2>1, Bounds DEF JobRules, JobsOK, TypeOK
  <1>6. OneJob'
    BY <1>0 DEF JobRules, OneJob
  <1> QED BY <1>1, <1>2, <1>3, <1>4, <1>5, <1>6 DEF Inv, Typing, JobRules

LEMMA SetUpStep ==
    ASSUME Inv, NEW w \in Workers, SetUp(w)
    PROVE  Inv'
  <1>0. /\ TypeOK /\ TokensOK /\ Queue /\ Chain /\ JobRules
        /\ pc[w] = "setup" /\ job' = [job EXCEPT ![taken[w]] = "running"]
        /\ pc' = [pc EXCEPT ![w] = "authorize"]
        /\ UNCHANGED <<account, lockVars, kind, forced, verdict, wasInvalid, token, taken, attempt,
                       retryable, retried, upstream, events>>
    BY DEF Inv, Typing, SetUp, Goes
  <1>1. w \in Tasks /\ taken[w] \in Jobs
    BY <1>0, AtWork
  <1>2. TypeOK'
    <2>1. JobTypes'
      BY <1>0, <1>1 DEF JobTypes, TypeOK, Active
    <2>2. TaskTypes'
      BY <1>0 DEF TaskTypes, TypeOK
    <2> QED BY <1>0, <2>1, <2>2, Parts, PartsNext DEF UpTypes, LockTypes, lockVars, upstream
  <1>3. TokensOK'
    BY <1>0 DEF TokensOK, TypeOK
  <1>4. Queue'
    BY <1>0, <1>1, QueueFrame DEF lockVars
  <1>5. Chain'
    BY <1>0, <1>1, ChainFrame DEF upstream
  <1>6. job[taken[w]] \in Active
    BY <1>0 DEF JobRules, JobsOK, Active
  <1>7. JobRules'
    BY <1>0, <1>6, JobFrame
  <1> QED BY <1>2, <1>3, <1>4, <1>5, <1>7 DEF Inv, Typing

LEMMA AuthorizeStep ==
    ASSUME Inv, NEW w \in Workers, Authorize(w)
    PROVE  Inv'
  <1>0. /\ TypeOK /\ TokensOK /\ Queue /\ Chain /\ JobRules
        /\ pc[w] = "authorize" /\ issued < MaxTokens /\ issued' = issued + 1
        /\ live' = live \cup {issued + 1} /\ token' = [token EXCEPT ![w] = issued + 1]
        /\ pc' = [pc EXCEPT ![w] = "adopt"]
        /\ UNCHANGED <<account, lockVars, kind, forced, verdict, wasInvalid, jobVars, spoiled,
                       overtaken, events>>
    BY DEF Inv, Typing, Authorize, Goes
  <1>1. w \in Tasks /\ taken[w] \in Jobs
    BY <1>0, AtWork
  <1>2. issued' \in 1..MaxTokens /\ live' \subseteq 1..issued' /\ issued + 1 \in 1..MaxTokens
    <2>1. issued \in 1..MaxTokens /\ live \subseteq 1..issued /\ MaxTokens \in Nat
      BY <1>0, Bounds DEF TypeOK
    <2>2. issued + 1 \in 1..MaxTokens
      BY <1>0, <2>1
    <2>3. \A x \in 1..issued : x \in 1..(issued + 1)
      BY <2>1
    <2>4. issued + 1 \in 1..(issued + 1)
      BY <2>1
    <2> QED BY <1>0, <2>1, <2>2, <2>3, <2>4
  <1>3. TypeOK'
    <2>1. TaskTypes'
      <3>1. issued + 1 \in 0..MaxTokens
        BY <1>2
      <3> QED BY <1>0, <3>1 DEF TaskTypes, TypeOK
    <2>2. UpTypes'
      BY <1>0, <1>2 DEF UpTypes, TypeOK
    <2> QED BY <1>0, <2>1, <2>2, Parts, PartsNext DEF LockTypes, JobTypes, lockVars, jobVars
  <1>4. TokensOK'
    BY <1>0, <1>2 DEF TokensOK, TypeOK
  <1>5. Queue'
    BY <1>0, <1>1, QueueFrame DEF lockVars
  <1>6. Chain'
    <2>1. \A u \in Tasks \ {w} : token'[u] = token[u]
      BY <1>0 DEF TypeOK
    <2> QED BY <1>0, <1>1, <2>1, ChainFrame
  <1>7. JobsOK'
    <2>1. \A u \in Tasks : u # w => pc'[u] = pc[u]
      BY <1>0 DEF TypeOK
    <2>2. pc'[w] = "adopt"
      BY <1>0, <1>1 DEF TypeOK
    <2>3. \A v \in Workers : v \in Tasks
      BY Apart
    <2> QED BY <1>0, <1>1, <2>1, <2>2, <2>3 DEF JobRules, JobsOK, jobVars
  <1>8. OneJob'
    BY <1>0 DEF JobRules, OneJob, jobVars
  <1> QED BY <1>3, <1>4, <1>5, <1>6, <1>7, <1>8 DEF Inv, Typing, JobRules

LEMMA JobFailsStep ==
    ASSUME Inv, NEW w \in Workers, JobFails(w)
    PROVE  Inv'
  <1>0. /\ TypeOK /\ TokensOK /\ Queue /\ Chain /\ JobRules
        /\ pc[w] \in {"authorize", "adopt"} /\ job' = [job EXCEPT ![taken[w]] = "ended"]
        /\ pc' = [pc EXCEPT ![w] = "judge"] /\ token' = [token EXCEPT ![w] = 0]
        /\ UNCHANGED <<account, lockVars, kind, forced, verdict, wasInvalid, taken, attempt, retried,
                       upstream, events>>
    BY DEF Inv, Typing, JobFails, Goes
  <1>1. w \in Tasks /\ taken[w] \in Jobs
    BY <1>0, AtWork
  <1>2. retryable' \in [Workers -> BOOLEAN]
    BY <1>0 DEF JobFails, TypeOK
  <1>3. TypeOK'
    <2>1. JobTypes'
      BY <1>0, <1>1, <1>2 DEF JobTypes, TypeOK
    <2>2. TaskTypes'
      <3>0. 0 \in 0..MaxTokens
        BY Bounds
      <3>5. token' \in [Tasks -> 0..MaxTokens]
        BY <1>0, <3>0 DEF TypeOK
      <3>1. pc' \in [Tasks -> {"idle", "post", "lock", "wait", "exchange", "save", "write",
                              "setup", "authorize", "adopt", "judge"}]
        BY <1>0 DEF TypeOK
      <3>2. UNCHANGED <<kind, forced, verdict, wasInvalid>>
        BY <1>0
      <3> QED BY <1>0, <3>1, <3>5, <3>2 DEF TaskTypes, TypeOK
    <2> QED BY <1>0, <2>1, <2>2, Parts, PartsNext DEF UpTypes, LockTypes, lockVars, upstream
  <1>4. TokensOK'
    BY <1>0 DEF TokensOK, TypeOK
  <1>5. Queue'
    BY <1>0, <1>1, QueueFrame DEF lockVars
  <1>6. Chain'
    BY <1>0, <1>1, ChainFrame DEF upstream, TypeOK
  <1>7. JobRules'
    <2>1. "ended" \notin Active
      BY DEF Active
    <2> QED BY <1>0, <2>1, JobFrame
  <1> QED BY <1>3, <1>4, <1>5, <1>6, <1>7 DEF Inv, Typing

LEMMA AdoptStep ==
    ASSUME Inv, NEW w \in Workers, Adopt(w)
    PROVE  Inv'
  <1>0. /\ TypeOK /\ TokensOK /\ Queue /\ Chain /\ JobRules
        /\ pc[w] = "adopt" /\ account' = Saved(token[w]) /\ spoiled' = (token[w] \notin live)
        /\ overtaken' = overtaken \cup {t \in Tasks : pc[t] \in {"exchange", "save"}}
        /\ kind' = [kind EXCEPT ![w] = "import"] /\ token' = [token EXCEPT ![w] = 0]
        /\ UNCHANGED <<wasInvalid, lockVars, jobVars, live, issued, events>>
    BY DEF Inv, Typing, Adopt, Ensures
  <1>1. w \in Tasks /\ taken[w] \in Jobs
    BY <1>0, AtWork
  <1>2. PICK l \in {"post", "lock"} : pc' = [pc EXCEPT ![w] = l]
    BY DEF Adopt, Ensures, Goes
  <1>3. token[w] \in 1..MaxTokens
    BY <1>0, <1>1 DEF TokensOK
  <1>4. account' \in Account /\ account'.token = token[w]
    BY <1>0, <1>3, SavedRecord
  <1>5. TypeOK'
    <2>1. "import" \in Kinds
      BY DEF Kinds
    <2>2. TaskTypes'
      <3>0. 0 \in 0..MaxTokens
        BY Bounds
      <3>5. token' \in [Tasks -> 0..MaxTokens]
        BY <1>0, <3>0 DEF TypeOK
      <3>1. pc' \in [Tasks -> {"idle", "post", "lock", "wait", "exchange", "save", "write",
                              "setup", "authorize", "adopt", "judge"}]
        BY <1>0, <1>2 DEF TypeOK
      <3>2. kind' \in [Tasks -> Kinds \cup {"none"}]
        BY <1>0, <2>1 DEF TypeOK
      <3>3. forced' = [forced EXCEPT ![w] = FALSE] /\ UNCHANGED <<verdict, wasInvalid>>
        BY DEF Adopt, Ensures
      <3>4. forced' \in [Tasks -> BOOLEAN]
        BY <1>0, <3>3 DEF TypeOK
      <3> QED BY <1>0, <3>1, <3>5, <3>2, <3>3, <3>4 DEF TaskTypes, TypeOK
    <2>3. UpTypes'
      BY <1>0 DEF UpTypes, TypeOK
    <2> QED BY <1>0, <1>4, <2>2, <2>3, Parts, PartsNext DEF LockTypes, JobTypes, lockVars, jobVars
  <1>6. TokensOK'
    BY <1>0, <1>2 DEF TokensOK, TypeOK
  <1>7. Queue'
    BY <1>0, <1>1, <1>2, QueueFrame DEF lockVars
  <1>8. Chain'
    <2>1. TokenKept'
      BY <1>0, <1>4 DEF TokenKept
    <2>2. RefusalEarned'
      BY <1>0, <1>2 DEF RefusalEarned, TypeOK
    <2> QED BY <2>1, <2>2 DEF Chain
  <1>9. JobsOK'
    <2>1. \A u \in Tasks : u # w => pc'[u] = pc[u] /\ kind'[u] = kind[u]
      BY <1>0, <1>2 DEF TypeOK
    <2>2. pc'[w] = l
      BY <1>0, <1>1, <1>2 DEF TypeOK
    <2>3. \A v \in Workers : v \in Tasks
      BY Apart
    <2> QED BY <1>0, <1>1, <2>1, <2>2, <2>3 DEF JobRules, JobsOK, jobVars
  <1>10. OneJob'
    BY <1>0 DEF JobRules, OneJob, jobVars
  <1> QED BY <1>5, <1>6, <1>7, <1>8, <1>9, <1>10 DEF Inv, Typing, JobRules

LEMMA JudgeStep ==
    ASSUME Inv, NEW w \in Workers, Judge(w)
    PROVE  Inv'
  <1>0. /\ TypeOK /\ TokensOK /\ Queue /\ Chain /\ JobRules
        /\ pc[w] = "judge" /\ LoopEnds(w) /\ retryable' = [retryable EXCEPT ![w] = FALSE]
        /\ UNCHANGED <<account, holder, waiters, upstream, events>>
    BY DEF Inv, Typing, Judge
  <1>1. w \in Tasks /\ taken[w] \in Jobs /\ \A v \in Workers \ {w} : taken[v] # taken[w]
    BY <1>0, AtWork
  <1>2. UpTypes' /\ LockTypes'
    BY <1>0 DEF UpTypes, LockTypes, LoopEnds, TypeOK, upstream
  <1>3. CASE retryable[w] /\ attempt[w] < MaxAttempts
    <2>1. /\ job' = [job EXCEPT ![taken[w]] = "pending"] /\ retried' = retried \cup {taken[w]}
          /\ attempt' = [attempt EXCEPT ![w] = @ + 1] /\ pc' = [pc EXCEPT ![w] = "setup"]
          /\ UNCHANGED <<taken, kind, forced, verdict, wasInvalid, token>>
      BY <1>3 DEF Judge, Goes
    <2>2. attempt[w] + 1 \in 0..MaxAttempts
      BY <1>0, <1>3, Bounds DEF TypeOK
    <2>3. JobTypes'
      <3>1. job' \in [Jobs -> {"none", "ended"} \cup Active]
        BY <1>0, <1>1, <2>1 DEF TypeOK, Active
      <3>2. attempt' \in [Workers -> 0..MaxAttempts]
        BY <1>0, <2>1, <2>2 DEF TypeOK
      <3>3. retryable' \in [Workers -> BOOLEAN]
        BY <1>0 DEF TypeOK
      <3>4. taken' \in [Workers -> Jobs \cup {0}] /\ retried' \subseteq Jobs
        BY <1>0, <1>1, <2>1 DEF TypeOK
      <3> QED BY <3>1, <3>2, <3>3, <3>4 DEF JobTypes
    <2>4. TaskTypes'
      BY <1>0, <2>1 DEF TaskTypes, TypeOK
    <2>5. TypeOK'
      BY <1>0, <1>2, <2>3, <2>4, Parts, PartsNext
    <2>6. TokensOK'
      BY <1>0, <2>1 DEF TokensOK, TypeOK
    <2>7. Queue'
      BY <1>0, <1>1, <2>1, QueueFrame
    <2>8. Chain'
      BY <1>0, <1>1, <2>1, ChainFrame DEF upstream
    <2>9. JobRules'
      BY <1>0, <2>1, JobFrame
    <2> QED BY <2>5, <2>6, <2>7, <2>8, <2>9 DEF Inv, Typing
  <1>4. CASE ~(retryable[w] /\ attempt[w] < MaxAttempts)
    <2>1. /\ taken' = [taken EXCEPT ![w] = 0] /\ attempt' = [attempt EXCEPT ![w] = 0]
          /\ retried' = retried \ {taken[w]} /\ Over(w) /\ UNCHANGED job
      BY <1>4 DEF Judge
    <2>2. /\ pc' = [pc EXCEPT ![w] = "idle"] /\ token' = [token EXCEPT ![w] = 0]
          /\ kind' = [kind EXCEPT ![w] = "none"]
      BY <2>1 DEF Over, Goes
    <2>3. JobTypes'
      <3>1. 0 \in 0..MaxAttempts
        BY Bounds
      <3>2. attempt' \in [Workers -> 0..MaxAttempts]
        BY <1>0, <2>1, <3>1 DEF TypeOK
      <3>3. retryable' \in [Workers -> BOOLEAN]
        BY <1>0 DEF TypeOK
      <3>4. taken' \in [Workers -> Jobs \cup {0}] /\ retried' \subseteq Jobs
        BY <1>0, <2>1 DEF TypeOK
      <3> QED BY <1>0, <2>1, <3>2, <3>3, <3>4 DEF JobTypes, TypeOK
    <2>4. TaskTypes'
      <3>1. "unknown" \in Verdicts
        BY DEF Verdicts
      <3>2. /\ wasInvalid' = [wasInvalid EXCEPT ![w] = FALSE]
            /\ forced' = [forced EXCEPT ![w] = FALSE]
            /\ verdict' = [verdict EXCEPT ![w] = "unknown"]
        BY <2>1 DEF Over
      <3>3. wasInvalid' \in [Tasks -> BOOLEAN] /\ forced' \in [Tasks -> BOOLEAN]
        BY <1>0, <3>2 DEF TypeOK
      <3>4. verdict' \in [Tasks -> Verdicts]
        BY <1>0, <3>1, <3>2 DEF TypeOK
      <3>5. 0 \in 0..MaxTokens
        BY Bounds
      <3>6. token' \in [Tasks -> 0..MaxTokens] /\ kind' \in [Tasks -> Kinds \cup {"none"}]
        BY <1>0, <2>2, <3>5 DEF TypeOK
      <3>7. pc' \in [Tasks -> {"idle", "post", "lock", "wait", "exchange", "save", "write",
                              "setup", "authorize", "adopt", "judge"}]
        BY <1>0, <2>2 DEF TypeOK
      <3> QED BY <3>3, <3>4, <3>6, <3>7 DEF TaskTypes
    <2>5. TypeOK'
      BY <1>0, <1>2, <2>3, <2>4, Parts, PartsNext
    <2>6. TokensOK'
      BY <1>0, <2>2 DEF TokensOK, TypeOK
    <2>7. Queue'
      BY <1>0, <1>1, <2>2, QueueFrame
    <2>8. Chain'
      BY <1>0, <1>1, <2>2, ChainFrame DEF upstream, TypeOK
    <2>9. JobsOK'
      <3>1. \A u \in Tasks : u # w => pc'[u] = pc[u] /\ kind'[u] = kind[u]
        BY <1>0, <2>2 DEF TypeOK
      <3>2. pc'[w] = "idle" /\ kind'[w] = "none"
        BY <1>0, <1>1, <2>2 DEF TypeOK
      <3>3. taken'[w] = 0 /\ \A v \in Workers : v # w => taken'[v] = taken[v]
        BY <1>0, <2>1 DEF TypeOK
      <3>4. \A v \in Workers : v \in Tasks
        BY Apart
      <3> QED BY <1>0, <2>1, <3>1, <3>2, <3>3, <3>4 DEF JobRules, JobsOK
    <2>10. OneJob'
      <3>1. job[taken[w]] = "ended"
        BY <1>0 DEF JobRules, JobsOK
      <3>2. \A j \in Jobs : job[j] \in Active => j # taken[w]
        BY <3>1 DEF Active
      <3>3. \A i, j \in Jobs : {job[i], job[j]} \subseteq Active => i # taken[w] /\ j # taken[w]
        BY <3>2
      <3> QED BY <1>0, <2>1, <3>3 DEF JobRules, OneJob
    <2> QED BY <2>5, <2>6, <2>7, <2>8, <2>9, <2>10 DEF Inv, Typing, JobRules
  <1> QED BY <1>3, <1>4

-----------------------------------------------------------------------------
(* What happens around them *)

LEMMA OutsideStep ==
    ASSUME Inv, (\E status \in {"active", "disabled"} : Toggle(status)) \/ Expire \/ Revoke
    PROVE  Inv'
  <1>0. /\ TypeOK /\ TokensOK /\ Queue /\ Chain /\ JobRules
        /\ Event /\ UNCHANGED <<lockVars, taskVars, jobVars, issued, overtaken>>
    BY DEF Inv, Typing, Toggle, Expire, Revoke, upstream
  <1>1. account' \in Account /\ account'.token = account.token
    BY <1>0 DEF Toggle, Expire, Revoke, Account, Statuses, TypeOK
  <1>2. (live' = live /\ spoiled' = spoiled) \/ (live' = {} /\ spoiled' = TRUE)
    BY DEF Toggle, Expire, Revoke, upstream
  <1>3. TypeOK'
    <2>1. UpTypes'
      <3>1. events' \in 0..MaxEvents
        BY <1>0, Bounds DEF TypeOK, Event
      <3>2. live' \subseteq 1..issued' /\ spoiled' \in BOOLEAN
        BY <1>0, <1>2 DEF TypeOK
      <3> QED BY <1>0, <3>1, <3>2 DEF UpTypes, TypeOK
    <2> QED BY <1>0, <1>1, <2>1, Parts, PartsNext
            DEF LockTypes, TaskTypes, JobTypes, lockVars, taskVars, jobVars
  <1>4. TokensOK'
    BY <1>0 DEF TokensOK, taskVars
  <1>5. Queue'
    BY <1>0 DEF Queue, LockOK, Distinct, lockVars, taskVars
  <1>6. Chain'
    BY <1>0, <1>1, <1>2 DEF Chain, TokenKept, RefusalEarned, taskVars
  <1>7. JobRules'
    BY <1>0 DEF JobRules, JobsOK, OneJob, taskVars, jobVars
  <1> QED BY <1>3, <1>4, <1>5, <1>6, <1>7 DEF Inv, Typing

LEMMA StepInv == Inv /\ [Next]_vars => Inv'
  <1> SUFFICES ASSUME Inv, [Next]_vars PROVE Inv'
    OBVIOUS
  <1>1. ASSUME NEW t \in Tasks, NEW k \in Kinds, Begin(t, k) PROVE Inv'
    BY <1>1, BeginStep
  <1>2. ASSUME NEW t \in Tasks, Step(t) PROVE Inv'
    BY <1>2, LockStep, BlockStep, WakeStep, RotateStep, UnansweredStep, SaveStep, PostStep, WriteStep
       DEF Step
  <1>3. ASSUME NEW t \in Tasks, LoseAnswer(t) \/ Cancel(t) PROVE Inv'
    BY <1>3, UnansweredStep, CancelStep
  <1>4. ASSUME NEW w \in Workers, Work(w) PROVE Inv'
    BY <1>4, TakeStep, SetUpStep, AuthorizeStep, JobFailsStep, AdoptStep, JudgeStep DEF Work
  <1>5. ASSUME NEW j \in Jobs, Start(j) PROVE Inv'
    BY <1>5, StartStep
  <1>6. CASE (\E status \in {"active", "disabled"} : Toggle(status)) \/ Expire \/ Revoke
    BY <1>6, OutsideStep
  <1>7. CASE UNCHANGED vars
    <2>1. Typing'
      BY <1>7 DEF Inv, Typing, TypeOK, TokensOK, vars, lockVars, taskVars, jobVars, upstream
    <2>2. Queue' /\ Chain'
      BY <1>7 DEF Inv, Queue, LockOK, Distinct, Chain, TokenKept, RefusalEarned,
                  vars, lockVars, taskVars, upstream
    <2>3. JobRules'
      BY <1>7 DEF Inv, JobRules, JobsOK, OneJob, vars, taskVars, jobVars
    <2> QED BY <2>1, <2>2, <2>3 DEF Inv
  <1> QED BY <1>1, <1>2, <1>3, <1>4, <1>5, <1>6, <1>7 DEF Next

-----------------------------------------------------------------------------
(* The theorems *)

\* Every reachable state satisfies the inductive invariant.
LEMMA Reachable == Spec => []Inv
  BY InitInv, StepInv, PTL DEF Spec

\* The lock is held exactly during an exchange and its queue is in order; the
\* stored refresh token is the one the upstream takes, or its successor is on its
\* way into the store (_ensure_access_token, update_tokens, import_credentials).
THEOREM TokenSafe == Spec => []XaiInv
  <1>1. Inv => XaiInv
    BY DEF Inv, Typing, Queue, Chain, XaiInv
  <1> QED BY <1>1, Reachable, PTL

\* No refresh spoils another: a token that is refused was revoked, lost with an
\* answer, or replaced by an import (_ensure_access_token).
THEOREM RefusalsEarned == Spec => []RefusalEarned
  <1>1. Inv => RefusalEarned
    BY DEF Inv, Chain
  <1> QED BY <1>1, Reachable, PTL

\* An account has one authorization under way at a time, retries apart
\* (start_protocol_authorization_background).
THEOREM JobsSingle == Spec => []OneJob
  <1>1. Inv => OneJob
    BY DEF Inv, JobRules
  <1> QED BY <1>1, Reachable, PTL

\* What an answer makes of a disabled account: a test that read it as invalid
\* activates it, a denial or refusal makes it invalid, the rest leaves it.
LEMMA StatusKept ==
    ASSUME NEW t \in Tasks, NEW a \in Answers, account.status = "disabled",
           StatusAfter(t, a) # "disabled"
    PROVE  \/ StatusAfter(t, a) = "active" /\ kind[t] = "test" /\ wasInvalid[t] /\ a = "ok"
           \/ StatusAfter(t, a) = "invalid" /\ (a = "refused" \/ kind[t] \in {"request", "test"})
  <1>1. CASE kind[t] = "test" /\ a = "ok"
    BY <1>1 DEF StatusAfter, Judged
  <1>2. CASE kind[t] = "import"
    BY <1>2 DEF StatusAfter, Judged, Judgement, Marked
  <1>3. CASE ~(kind[t] = "test" /\ a = "ok") /\ kind[t] # "import"
    BY <1>3 DEF StatusAfter, Marked
  <1> QED BY <1>1, <1>2, <1>3

\* The ways out of the disabled status, in the next state.
Reenabled(t) == account'.status = "active" /\ pc[t] = "post" /\ kind[t] = "test" /\ wasInvalid[t]
Denied(t)    == /\ account'.status = "invalid"
                /\ \/ pc[t] = "post" /\ kind[t] \in {"request", "test"}
                   \/ pc[t] = "exchange" /\ token[t] \notin live

LEMMA DisabledStep ==
    ASSUME Inv, [Next]_vars, account.status = "disabled", account'.status # "disabled"
    PROVE  Toggle("active") \/ \E t \in Tasks : Reenabled(t) \/ Denied(t)
  <1>0. account \in Account
    BY DEF Inv, Typing, TypeOK
  <1>1. \A new : Saved(new).status = "disabled"
    BY DEF Saved
  <1>2. \A v : Judged("disabled", v) = "disabled"
    BY DEF Judged
  <1>3. ASSUME NEW t \in Tasks, NEW a \in Answers, Concludes(t, a)
        PROVE  \/ account'.status = "active" /\ kind[t] = "test" /\ wasInvalid[t] /\ a = "ok"
               \/ account'.status = "invalid" /\ (a = "refused" \/ kind[t] \in {"request", "test"})
    <2>1. account'.status = StatusAfter(t, a)
      BY <1>0, <1>3 DEF Concludes, Account
    <2> QED BY <2>1, StatusKept
  <1>e. ASSUME NEW t \in Tasks, Concludes(t, "error") PROVE FALSE
    <2>1. account'.status = StatusAfter(t, "error")
      BY <1>0, <1>e DEF Concludes, Account
    <2> QED BY <2>1 DEF StatusAfter, Judged, Judgement, Marked
  <1>4. ASSUME NEW t \in Tasks, Block(t) \/ Fail(t) \/ LoseAnswer(t) PROVE FALSE
    <2>1. account' = account \/ Concludes(t, "error")
      BY <1>4 DEF Block, Fail, LoseAnswer
    <2> QED BY <1>e, <2>1
  <1>5. ASSUME NEW t \in Tasks, Refuse(t) PROVE Denied(t)
    <2>1. pc[t] = "exchange" /\ token[t] \notin live /\ Concludes(t, "refused")
      BY <1>5 DEF Refuse
    <2> QED BY <1>3, <2>1 DEF Answers, Denied
  <1>6. ASSUME NEW t \in Tasks, Post(t) PROVE Reenabled(t) \/ Denied(t)
    <2>1. pc[t] = "post"
      BY <1>6 DEF Post
    <2>2. account' = account
          \/ \E a \in {"ok", "limited", "blocked", "error", "denied"} : Concludes(t, a)
      BY <1>6 DEF Post
    <2>3. PICK a \in {"ok", "limited", "blocked", "error", "denied"} : Concludes(t, a)
      BY <2>2
    <2> QED BY <1>3, <2>1, <2>3 DEF Answers, Reenabled, Denied
  <1>7. ASSUME NEW t \in Tasks, Save(t) \/ Write(t) PROVE FALSE
    BY <1>0, <1>1, <1>2, <1>7 DEF Save, Write, Account
  <1>8. ASSUME NEW w \in Workers, Work(w) PROVE FALSE
    BY <1>1, <1>8 DEF Work, Take, SetUp, Authorize, JobFails, Adopt, Judge
  <1>9. ASSUME NEW t \in Tasks, NEW k \in Kinds, Begin(t, k) PROVE FALSE
    BY <1>9 DEF Begin
  <1>10. ASSUME NEW t \in Tasks, Lock(t) \/ Wake(t) \/ Rotate(t) \/ Cancel(t) PROVE FALSE
    BY <1>10 DEF Lock, Wake, Current, Rotate, Cancel
  <1>11. ASSUME NEW j \in Jobs, Start(j) PROVE FALSE
    BY <1>11 DEF Start
  <1>12. CASE Toggle("disabled") \/ Expire \/ Revoke
    BY <1>0, <1>12 DEF Toggle, Expire, Revoke, Account
  <1>13. CASE UNCHANGED vars
    BY <1>13 DEF vars
  <1> QED BY <1>4, <1>5, <1>6, <1>7, <1>8, <1>9, <1>10, <1>11, <1>12, <1>13 DEF Next, Step

\* A disabled account leaves that status by the operator, by a test that read it
\* as invalid and succeeds, or by a refusal or denial, which makes it invalid; by
\* no save, import or late probe (_merge_account, update_probe_results).
THEOREM DisabledStaysOut == Spec => DisabledKept
  <1>1. Inv /\ [Next]_vars =>
          [account.status = "disabled" /\ account'.status # "disabled" =>
             \/ Toggle("active")
             \/ /\ account'.status = "active"
                /\ \E t \in Tasks : pc[t] = "post" /\ kind[t] = "test" /\ wasInvalid[t]
             \/ /\ account'.status = "invalid"
                /\ \E t \in Tasks : \/ pc[t] = "post" /\ kind[t] \in {"request", "test"}
                                    \/ pc[t] = "exchange" /\ token[t] \notin live]_vars
    BY DisabledStep DEF Reenabled, Denied
  <1> QED BY <1>1, Reachable, PTL DEF Spec, DisabledKept
=============================================================================
