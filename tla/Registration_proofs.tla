------------------------ MODULE Registration_proofs ------------------------
(***************************************************************************)
(* Proofs about Registration, for any mailboxes, aliases, numbers of jobs,  *)
(* threads and tries: what a run counts, who holds a mailbox, and that no   *)
(* account that a job brings is dropped.                                    *)
(***************************************************************************)
EXTENDS Registration, FiniteSetTheorems, TLAPS

-----------------------------------------------------------------------------
(* The inductive invariant *)

\* What the runner has submitted and not collected; a run that drains without
\* a stop has nothing left.
Counted ==
    /\ submitted <= total /\ futures \subseteq 1..submitted
    /\ runner = "submit" => submitted < total
    /\ runner # "none" => \A i \in Jobs : i > submitted => job[i] = "none"
    /\ runner # "none" /\ ~stop => enabled
    /\ runner = "drain" /\ ~stop => futures = {} /\ \A i \in Jobs : ~Alive(i)

\* What a job has: its mailbox, tries to spare, and, when it stores its account
\* itself, the account stored.
Equipped(i) ==
    /\ job[i] \in Held \cup {"blame", "keep"} \cup Kept => mail[i] \in Mailboxes
    /\ job[i] \in {"none", "queued", "cancelled"} \cup Ended => tries[i] = 0
    /\ job[i] = "claim" => tries[i] < Attempts
    /\ ~grok /\ job[i] \in Kept => mail[i] \in stored

\* Only a mailbox in use has a lease, and it is that of the job that holds it,
\* unless its reservation was given up.
Leased ==
    /\ \A m \in Mailboxes : row[m].state # "in_use" => row[m].lease = 0
    /\ \A i \in Jobs : job[i] \in Held => row[mail[i]].lease = i \/ mail[i] \in forced

Inv ==
    /\ RegistrationInv /\ Counted /\ \A i \in Jobs : Equipped(i)
    /\ Leased /\ ResultKept /\ RunsApart

\* TypeOK in three parts: of the run, of its jobs and of the mailboxes.
RunTypes ==
    /\ grok \in Targets
    /\ enabled \in BOOLEAN /\ stop \in BOOLEAN
    /\ runner \in {"none", "loop", "submit", "wait", "drain"}
    /\ total \in Jobs /\ pool \subseteq Mailboxes
    /\ submitted \in 0..Total /\ futures \subseteq Jobs
    /\ success \in Nat /\ fail \in Nat

Labels == {"none", "queued", "claim", "blame", "keep", "cancelled"} \cup Held \cup Ended

JobTypes ==
    /\ job \in [Jobs -> Labels]
    /\ mail \in [Jobs -> Mailboxes \cup {"none"}]
    /\ tries \in [Jobs -> 0..Attempts]

Rows == [state : {"unused", "in_use"} \cup Spent, lease : 0..Total]

TableTypes ==
    /\ row \in [Mailboxes -> Rows]
    /\ {stale, registered, stored, forced} \subseteq SUBSET Mailboxes
    /\ runs \in 0..MaxRuns[grok] /\ events \in 0..MaxEvents

LEMMA Parts == TypeOK <=> RunTypes /\ JobTypes /\ TableTypes
  BY DEF TypeOK, RunTypes, JobTypes, TableTypes, Labels, Rows

LEMMA PartsNext == TypeOK' <=> RunTypes' /\ JobTypes' /\ TableTypes'
  BY DEF TypeOK, RunTypes, JobTypes, TableTypes, Labels, Rows

LEMMA Numbers ==
    /\ Total \in Nat /\ Total >= 1 /\ Threads \in Nat /\ Threads >= 1
    /\ Attempts \in Nat /\ Attempts >= 1 /\ 0 \in 0..Total /\ 0 \in 0..Attempts
    /\ Total \in Jobs
  BY RegistrationAssumption DEF Jobs

LEMMA InitInv == Init => Inv
  <1> SUFFICES ASSUME Init PROVE Inv
    OBVIOUS
  <1>1. \A i \in Jobs : job[i] = "none" /\ tries[i] = 0
    BY DEF Init
  <1>2. RunTypes
    BY Numbers DEF Init, RunTypes
  <1>3. JobTypes
    BY Numbers DEF Init, JobTypes, Labels
  <1>4. MaxRuns[grok] \in Nat /\ MaxEvents \in Nat
    BY RegistrationAssumption DEF Init
  <1>5. row \in [Mailboxes -> Rows] /\ \A m \in Mailboxes : row[m].lease = 0
    BY Numbers DEF Init, Unused, Rows
  <1>6. TableTypes
    BY <1>4, <1>5 DEF Init, TableTypes
  <1>7. TypeOK
    BY <1>2, <1>3, <1>6, Parts
  <1>8. RunAccounted
    BY DEF Init, RunAccounted
  <1>9. Counted
    BY Numbers DEF Init, Counted
  <1>10. \A i \in Jobs : Equipped(i)
    BY <1>1 DEF Equipped, Held, Kept
  <1>11. Leased /\ ResultKept /\ RunsApart
    BY <1>1, <1>5 DEF Leased, ResultKept, RunsApart, Held, Kept, Alive
  <1> QED BY <1>7, <1>8, <1>9, <1>10, <1>11 DEF Inv, RegistrationInv

-----------------------------------------------------------------------------
(* The operator and the process *)

\* All jobs are forgotten, as when a run is launched and in a crash.
NoJobs ==
    /\ job' = [i \in Jobs |-> "none"] /\ mail' = [i \in Jobs |-> "none"]
    /\ tries' = [i \in Jobs |-> 0]

LEMMA NoJobsHold ==
    ASSUME NoJobs
    PROVE  /\ JobTypes' /\ \A i \in Jobs : Equipped(i)' /\ ~Alive(i)' /\ job'[i] = "none"
           /\ ResultKept' /\ RunsApart'
           /\ \A i \in Jobs : job'[i] \notin Held
  <1>1. \A i \in Jobs : job'[i] = "none" /\ tries'[i] = 0
    BY DEF NoJobs
  <1>2. JobTypes'
    BY Numbers DEF NoJobs, JobTypes, Labels
  <1> QED BY <1>1, <1>2 DEF Equipped, Held, Kept, Alive, ResultKept, RunsApart

\* Rows that are deleted were given up if they were in use.
LEMMA ClearedHolds ==
    ASSUME TableTypes, NEW mailboxes \in SUBSET Mailboxes, NEW states, Cleared(mailboxes, states)
    PROVE  /\ row' \in [Mailboxes -> Rows] /\ stale' \subseteq Mailboxes /\ forced' \subseteq Mailboxes
           /\ \A m \in Mailboxes : row'[m] \in {row[m], Unused}
           /\ \A m \in Mailboxes : row'[m] # row[m] =>
                row[m].state \in states /\ (row[m].state = "in_use" => m \in forced')
           /\ forced \subseteq forced'
  <1>1. Unused \in Rows
    BY Numbers DEF Unused, Rows
  <1>2. row' = [m \in Mailboxes |->
                   IF m \in mailboxes /\ row[m].state \in states THEN Unused ELSE row[m]]
    BY DEF Cleared
  <1>3. \A m \in Mailboxes : row'[m] = IF m \in mailboxes /\ row[m].state \in states THEN Unused ELSE row[m]
    BY <1>2
  <1>4. row' \in [Mailboxes -> Rows]
    BY <1>1, <1>2 DEF TableTypes
  <1> QED BY <1>3, <1>4 DEF Cleared, TableTypes

\* Leases hold when rows are given up and jobs stay as they are or are gone.
LEMMA GivenUp ==
    ASSUME Inv,
           \A m \in Mailboxes : row'[m] \in {row[m], Unused},
           \A m \in Mailboxes : row'[m] # row[m] /\ row[m].state = "in_use" => m \in forced',
           forced \subseteq forced', UNCHANGED <<job, mail>> \/ NoJobs
    PROVE  Leased'
  <1>1. \A m \in Mailboxes : row'[m].state # "in_use" => row'[m].lease = 0
    BY DEF Inv, Leased, Unused
  <1>2. CASE NoJobs
    BY <1>1, <1>2, NoJobsHold DEF Leased
  <1>3. ASSUME UNCHANGED <<job, mail>>, NEW i \in Jobs, job[i] \in Held
        PROVE  row'[mail[i]].lease = i \/ mail[i] \in forced'
    <2>1. mail[i] \in Mailboxes /\ i # 0
      BY <1>3, Numbers DEF Inv, Equipped, Jobs
    <2>2. mail[i] \notin forced => row[mail[i]].lease = i /\ row[mail[i]].state = "in_use"
      BY <1>3, <2>1 DEF Inv, Leased
    <2> QED BY <2>1, <2>2
  <1> QED BY <1>1, <1>2, <1>3 DEF Leased

\* A run begins.
LEMMA LaunchRuns ==
    ASSUME Inv, NEW number \in Jobs, NEW mailboxes \in SUBSET Mailboxes, Launch(number, mailboxes)
    PROVE  /\ RunTypes' /\ RunAccounted' /\ Counted' /\ NoJobs
           /\ runs' \in 0..MaxRuns[grok]
  <1>1. NoJobs
    BY DEF Launch, NoJobs
  <1>2. RunTypes'
    BY Numbers DEF Launch, RunTypes, Inv, RegistrationInv, TypeOK
  <1>3. RunAccounted'
    BY <1>1, NoJobsHold, FS_EmptySet DEF Launch, RunAccounted
  <1>4. Counted'
    BY <1>1, NoJobsHold DEF Launch, Counted, Jobs
  <1>5. MaxRuns[grok] \in Nat /\ runs \in 0..MaxRuns[grok] /\ runs < MaxRuns[grok] /\ runs' = runs + 1
    BY RegistrationAssumption DEF Launch, Inv, RegistrationInv, TypeOK
  <1> QED BY <1>1, <1>2, <1>3, <1>4, <1>5

LEMMA OperatorMoves ==
    ASSUME Inv, Operator
    PROVE  Inv'
  <1>0. RunTypes /\ JobTypes /\ TableTypes
    BY Parts DEF Inv, RegistrationInv
  <1>1. CASE Start
    <2>1. Launch(Total, Mailboxes) /\ UNCHANGED table
      BY <1>1 DEF Start
    <2>2. RunTypes' /\ RunAccounted' /\ Counted' /\ NoJobs /\ runs' \in 0..MaxRuns[grok]
      BY <2>1, Numbers, LaunchRuns
    <2>3. Leased'
      BY <2>1, <2>2, GivenUp DEF table
    <2>4. TableTypes'
      BY <1>0, <2>1, <2>2 DEF TableTypes, Launch, table
    <2> QED BY <2>2, <2>3, <2>4, NoJobsHold, PartsNext DEF Inv, RegistrationInv
  <1>2. ASSUME NEW mailboxes \in SUBSET Mailboxes, RetryFailed(mailboxes) PROVE Inv'
    <2>1. Cardinality(mailboxes) \in Jobs
      <3>1. IsFiniteSet(mailboxes) /\ mailboxes # {} /\ Cardinality(mailboxes) <= Total
        BY <1>2, RegistrationAssumption, FS_Subset DEF RetryFailed
      <3>2. Cardinality(mailboxes) \in Nat /\ Cardinality(mailboxes) # 0
        BY <3>1, FS_CardinalityType, FS_EmptySet
      <3> QED BY <3>1, <3>2, Numbers DEF Jobs
    <2>2. Launch(Cardinality(mailboxes), mailboxes) /\ Cleared(mailboxes, {"failed"})
      BY <1>2 DEF RetryFailed
    <2>3. RunTypes' /\ RunAccounted' /\ Counted' /\ NoJobs /\ runs' \in 0..MaxRuns[grok]
      BY <2>1, <2>2, LaunchRuns
    <2>4. /\ row' \in [Mailboxes -> Rows] /\ stale' \subseteq Mailboxes /\ forced' \subseteq Mailboxes
          /\ \A m \in Mailboxes : row'[m] \in {row[m], Unused}
          /\ \A m \in Mailboxes : row'[m] # row[m] /\ row[m].state = "in_use" => m \in forced'
          /\ forced \subseteq forced'
      BY <1>0, <2>2, ClearedHolds
    <2>5. Leased'
      BY <2>3, <2>4, GivenUp
    <2>6. TableTypes'
      BY <1>0, <2>2, <2>3, <2>4 DEF TableTypes, Launch
    <2> QED BY <2>3, <2>5, <2>6, NoJobsHold, PartsNext DEF Inv, RegistrationInv
  <1>3. CASE Stop
    <2>1. UNCHANGED <<runner, total, pool, submitted, futures, success, fail, grok>> /\ stop' /\ runner # "none"
          /\ enabled' = FALSE /\ UNCHANGED <<job, mail, tries>> /\ UNCHANGED <<row, stale, forced>>
          /\ UNCHANGED <<registered, stored, runs, events>> /\ stop' = TRUE
      BY <1>3 DEF Stop, work, table, bound
    <2>2. RunTypes' /\ JobTypes' /\ TableTypes'
      BY <1>0, <2>1 DEF RunTypes, JobTypes, TableTypes
    <2>3. RunAccounted' /\ Counted'
      BY <2>1 DEF Inv, RegistrationInv, RunAccounted, Counted, Alive
    <2>4. \A i \in Jobs : Equipped(i)'
      BY <2>1 DEF Inv, Equipped
    <2>5. Leased' /\ ResultKept' /\ RunsApart'
      BY <2>1 DEF Inv, Leased, ResultKept, RunsApart
    <2> QED BY <2>2, <2>3, <2>4, <2>5, PartsNext DEF Inv, RegistrationInv
  <1>4. ASSUME NEW mailboxes \in SUBSET Mailboxes, NEW states, Cleared(mailboxes, states), Event,
               UNCHANGED <<run, work, registered, stored, runs, grok>>
        PROVE  Inv'
    <2>1. /\ row' \in [Mailboxes -> Rows] /\ stale' \subseteq Mailboxes /\ forced' \subseteq Mailboxes
          /\ \A m \in Mailboxes : row'[m] \in {row[m], Unused}
          /\ \A m \in Mailboxes : row'[m] # row[m] /\ row[m].state = "in_use" => m \in forced'
          /\ forced \subseteq forced'
      BY <1>0, <1>4, ClearedHolds
    <2>2. UNCHANGED <<enabled, stop, runner, total, pool, submitted, futures, success, fail>>
          /\ UNCHANGED <<job, mail, tries, registered, stored, runs, grok>>
      BY <1>4 DEF run, work
    <2>3. events' \in 0..MaxEvents
      BY <1>0, <1>4, RegistrationAssumption DEF Event, TableTypes
    <2>4. RunTypes' /\ JobTypes'
      BY <1>0, <2>2 DEF RunTypes, JobTypes
    <2>5. TableTypes'
      BY <1>0, <2>1, <2>2, <2>3 DEF TableTypes
    <2>6. Leased'
      BY <2>1, <2>2, GivenUp
    <2>7. RunAccounted' /\ Counted'
      BY <2>2 DEF Inv, RegistrationInv, RunAccounted, Counted, Alive
    <2>8. (\A i \in Jobs : Equipped(i)') /\ ResultKept' /\ RunsApart'
      BY <2>2 DEF Inv, Equipped, ResultKept, RunsApart, Alive
    <2> QED BY <2>4, <2>5, <2>6, <2>7, <2>8, PartsNext DEF Inv, RegistrationInv
  <1>5. ASSUME NEW scope \in {"retryable", "invalid"}, ResetPool(scope) PROVE Inv'
    BY <1>4, <1>5 DEF ResetPool
  <1>6. ASSUME NEW m \in Mailboxes, ImportCredential(m) PROVE Inv'
    <2>1. {n \in Mailboxes : Login[n] = m} \in SUBSET Mailboxes
      OBVIOUS
    <2> QED BY <1>4, <1>6, <2>1 DEF ImportCredential
  <1> QED BY <1>1, <1>2, <1>3, <1>5, <1>6 DEF Operator

\* A crash loses the run, and what the mailboxes' table says stays.
LEMMA CrashMoves ==
    ASSUME Inv, Crash
    PROVE  Inv'
  <1>0. RunTypes /\ JobTypes /\ TableTypes
    BY Parts DEF Inv, RegistrationInv
  <1>1. NoJobs
    BY DEF Crash, NoJobs
  <1>2. RunTypes'
    BY <1>0, Numbers DEF RunTypes, Crash
  <1>3. events' \in 0..MaxEvents
    BY <1>0, RegistrationAssumption DEF Crash, Event, TableTypes
  <1>4. TableTypes'
    BY <1>0, <1>3 DEF Crash, TableTypes
  <1>5. RunAccounted' /\ Counted'
    BY Numbers DEF Crash, RunAccounted, Counted
  <1>6. Leased'
    BY <1>1, NoJobsHold DEF Crash, Leased, Inv
  <1> QED BY <1>1, <1>2, <1>4, <1>5, <1>6, NoJobsHold, PartsNext DEF Inv, RegistrationInv

LEMMA GrowStaleMoves ==
    ASSUME Inv, NEW m \in Mailboxes, GrowStale(m)
    PROVE  Inv'
  <1>0. RunTypes /\ JobTypes /\ TableTypes
    BY Parts DEF Inv, RegistrationInv
  <1>1. UNCHANGED <<enabled, stop, runner, total, pool, submitted, futures, success, fail>>
        /\ UNCHANGED <<job, mail, tries, row, forced, registered, stored, runs, events, grok>>
        /\ stale' = stale \cup {m}
    BY DEF GrowStale, run, work, bound
  <1>2. RunTypes' /\ JobTypes' /\ TableTypes'
    BY <1>0, <1>1 DEF RunTypes, JobTypes, TableTypes
  <1>3. RunAccounted' /\ Counted'
    BY <1>1 DEF Inv, RegistrationInv, RunAccounted, Counted, Alive
  <1>4. (\A i \in Jobs : Equipped(i)') /\ Leased' /\ ResultKept' /\ RunsApart'
    BY <1>1 DEF Inv, Equipped, Leased, ResultKept, RunsApart, Alive
  <1> QED BY <1>2, <1>3, <1>4, PartsNext DEF Inv, RegistrationInv

-----------------------------------------------------------------------------
(* The runner *)

\* Every set of jobs is finite.
LEMMA FiniteJobs ==
    ASSUME NEW S \in SUBSET Jobs
    PROVE  IsFiniteSet(S) /\ Cardinality(S) \in Nat
  <1>1. IsFiniteSet(Jobs)
    BY Numbers, FS_Interval DEF Jobs
  <1> QED BY <1>1, FS_Subset, FS_CardinalityType

\* What is split in two is counted in two.
LEMMA SplitCount ==
    ASSUME NEW S \in SUBSET Jobs, NEW T \in SUBSET Jobs, S \cap T = {}
    PROVE  Cardinality(S \cup T) = Cardinality(S) + Cardinality(T)
  <1>1. IsFiniteSet(S) /\ IsFiniteSet(T) /\ Cardinality(S) \in Nat /\ Cardinality(T) \in Nat
    BY FiniteJobs
  <1>2. Cardinality(S \cup T) = Cardinality(S) + Cardinality(T) - Cardinality(S \cap T)
    BY <1>1, FS_Union
  <1>3. Cardinality(S \cap T) = 0
    BY FS_EmptySet
  <1> QED BY <1>1, <1>2, <1>3

LEMMA RunnerMoves ==
    ASSUME Inv, Runner
    PROVE  Inv'
  <1>0. RunTypes /\ JobTypes /\ TableTypes
    BY Parts DEF Inv, RegistrationInv
  <1>1. futures \in SUBSET Jobs /\ submitted \in Nat /\ total \in Nat /\ success \in Nat /\ fail \in Nat
        /\ submitted \in 0..Total /\ total \in 1..Total /\ Cardinality(futures) \in Nat
    BY <1>0, Numbers, FiniteJobs DEF RunTypes, Jobs
  <1>2. CASE Look
    <2>1. UNCHANGED <<enabled, stop, total, pool, submitted, futures, success, fail>>
          /\ UNCHANGED <<job, mail, tries, row, stale, forced, registered, stored, runs, events, grok>>
          /\ runner = "loop" /\ runner' \in {"submit", "drain", "wait"}
          /\ (runner' = "submit" => submitted < total)
          /\ (runner' = "drain" => futures = {} /\ (enabled /\ ~stop => submitted >= total \/ Cardinality(futures) >= Threads))
      BY <1>1, <1>2, Numbers DEF Look, work, table, bound
    <2>2. RunTypes' /\ JobTypes' /\ TableTypes'
      BY <1>0, <2>1 DEF RunTypes, JobTypes, TableTypes
    <2>3. futures = {} => ~(Cardinality(futures) >= Threads)
      BY Numbers, FS_EmptySet
    <2>4. runner' = "drain" /\ ~stop => submitted = total
      BY <1>1, <2>1, <2>3 DEF Inv, Counted
    <2>5. \A i \in Jobs : Alive(i)' <=> Alive(i)
      BY <2>1 DEF Alive
    <2>6. \A i \in Jobs : Alive(i) => i \in futures
      BY <2>1 DEF Inv, RegistrationInv, RunAccounted
    <2>7. RunAccounted'
      BY <2>1, <2>4, <2>5, <2>6 DEF Inv, RegistrationInv, RunAccounted
    <2>8. Counted'
      BY <2>1, <2>5, <2>6 DEF Inv, Counted
    <2>9. (\A i \in Jobs : Equipped(i)') /\ Leased' /\ ResultKept' /\ RunsApart'
      BY <2>1 DEF Inv, Equipped, Leased, ResultKept, RunsApart
    <2> QED BY <2>2, <2>7, <2>8, <2>9, PartsNext DEF Inv, RegistrationInv
  <1>3. CASE Submit
    <2> DEFINE n == submitted + 1
    <2>1. UNCHANGED <<enabled, stop, total, pool, success, fail>>
          /\ UNCHANGED <<mail, tries, row, stale, forced, registered, stored, runs, events, grok>>
          /\ runner = "submit" /\ runner' = "loop" /\ submitted' = n /\ futures' = futures \cup {n}
          /\ job' = [job EXCEPT ![n] = "queued"]
      BY <1>3 DEF Submit, table, bound
    <2>2. n \in Jobs /\ n \notin futures /\ n <= total /\ job[n] = "none" /\ n \in Nat /\ n \in 0..Total
      <3>1. submitted < total /\ futures \subseteq 1..submitted
            /\ \A i \in Jobs : i > submitted => job[i] = "none"
        BY <2>1 DEF Inv, Counted
      <3>2. n \in Nat /\ n \in Jobs /\ n > submitted /\ n <= total /\ n \in 0..Total
        BY <1>1, <3>1, Numbers DEF Jobs
      <3>3. n \notin futures
        BY <1>1, <3>1
      <3> QED BY <3>1, <3>2, <3>3
    <2>3. /\ job' \in [Jobs -> Labels] /\ job'[n] = "queued"
          /\ \A i \in Jobs : i # n => job'[i] = job[i]
      BY <1>0, <2>1, <2>2 DEF JobTypes, Labels
    <2>4. RunTypes' /\ JobTypes' /\ TableTypes'
      BY <1>0, <2>1, <2>2, <2>3 DEF RunTypes, JobTypes, TableTypes
    <2>5. Cardinality(futures') = Cardinality(futures) + 1
      BY <1>1, <2>1, <2>2, FiniteJobs, FS_AddElement
    <2>6. \A i \in Jobs : Alive(i)' => Alive(i) \/ i = n
      BY <2>3 DEF Alive
    <2>7. RunAccounted'
      BY <1>1, <2>1, <2>5, <2>6 DEF Inv, RegistrationInv, RunAccounted
    <2>8. Counted'
      BY <1>1, <2>1, <2>2, <2>3 DEF Inv, Counted, Jobs
    <2>9. \A i \in Jobs : Equipped(i)'
      BY <2>1, <2>2, <2>3 DEF Inv, Equipped, Held, Kept, Ended
    <2>10. Leased'
      BY <2>1, <2>3 DEF Inv, Leased, Held
    <2>11. ResultKept'
      BY <2>1, <2>3 DEF Inv, ResultKept, Kept
    <2>12. RunsApart'
      BY <2>1 DEF RunsApart
    <2> QED BY <2>4, <2>7, <2>8, <2>9, <2>10, <2>11, <2>12, PartsNext DEF Inv, RegistrationInv
  <1>4. CASE Collect
    <2> DEFINE oks == {i \in Finished : job[i] = "ok"}
               bads == {i \in Finished : job[i] # "ok"}
    <2>1. UNCHANGED <<enabled, stop, total, pool, submitted>>
          /\ UNCHANGED <<job, mail, tries, row, stale, forced, registered, runs, events, grok>>
          /\ runner = "wait" /\ runner' = "loop" /\ ~stop /\ futures' = futures \ Finished
          /\ success' = success + Cardinality(oks) /\ fail' = fail + Cardinality(bads)
          /\ stored' = stored \cup {mail[i] : i \in {i \in Finished : grok /\ job[i] \in Kept}}
      BY <1>4 DEF Collect, Pending, Stored, work, table, bound
    <2>2. /\ Finished \in SUBSET Jobs /\ oks \in SUBSET Jobs /\ bads \in SUBSET Jobs /\ futures' \in SUBSET Jobs
          /\ oks \cup bads = Finished /\ oks \cap bads = {}
          /\ Finished \cup futures' = futures /\ Finished \cap futures' = {}
      BY <1>1, <2>1 DEF Finished
    <2>3. Cardinality(oks) \in Nat /\ Cardinality(bads) \in Nat /\ Cardinality(futures') \in Nat
      BY <2>2, FiniteJobs
    <2>4. Cardinality(futures) = Cardinality(oks) + Cardinality(bads) + Cardinality(futures')
      <3>1. Cardinality(Finished) = Cardinality(oks) + Cardinality(bads)
        BY <2>2, SplitCount
      <3>2. Cardinality(futures) = Cardinality(Finished) + Cardinality(futures')
        BY <2>2, SplitCount
      <3> QED BY <3>1, <3>2
    <2>5. \A i \in Finished : job[i] \in Kept => mail[i] \in Mailboxes
      BY <2>2 DEF Inv, Equipped
    <2>6. stored' \subseteq Mailboxes
      BY <1>0, <2>1, <2>5 DEF TableTypes
    <2>7. success' \in Nat /\ fail' \in Nat
      BY <1>1, <2>1, <2>3
    <2>8. RunTypes' /\ JobTypes' /\ TableTypes'
      BY <1>0, <2>1, <2>2, <2>6, <2>7 DEF RunTypes, JobTypes, TableTypes
    <2>9. \A i \in Jobs : Alive(i)' => i \in futures'
      BY <2>1 DEF Inv, RegistrationInv, RunAccounted, Alive, Finished, Ended, Kept, Held
    <2>10. success' + fail' + Cardinality(futures') = submitted'
      <3>1. success + fail + Cardinality(futures) = submitted
        BY <2>1 DEF Inv, RegistrationInv, RunAccounted
      <3> HIDE DEF oks, bads
      <3> QED BY <1>1, <2>1, <2>3, <2>4, <3>1
    <2>11. RunAccounted'
      BY <2>1, <2>9, <2>10 DEF RunAccounted
    <2>12. Counted'
      BY <2>1 DEF Inv, Counted
    <2>13. (\A i \in Jobs : Equipped(i)') /\ Leased'
      BY <2>1 DEF Inv, Equipped, Leased
    <2>14. ResultKept'
      <3>1. SUFFICES ASSUME NEW i \in Jobs, job[i] \in Kept
                     PROVE  mail[i] \in stored' \/ i \in futures'
        BY <2>1 DEF ResultKept
      <3>2. CASE i \in Finished
        <4>1. grok \in BOOLEAN
          BY <1>0, RegistrationAssumption DEF RunTypes
        <4> QED BY <2>1, <3>1, <3>2, <4>1 DEF Inv, Equipped
      <3>3. CASE i \notin Finished
        BY <2>1, <3>1, <3>3 DEF Inv, ResultKept
      <3> QED BY <3>2, <3>3
    <2>15. RunsApart'
      BY <2>1 DEF RunsApart
    <2> QED BY <2>8, <2>11, <2>12, <2>13, <2>14, <2>15, PartsNext DEF Inv, RegistrationInv
  <1>5. CASE Abandon
    <2>1. UNCHANGED <<enabled, stop, total, pool, submitted, futures, success, fail>>
          /\ UNCHANGED <<mail, tries, row, stale, forced, registered, stored, runs, events, grok>>
          /\ runner = "wait" /\ runner' = "drain" /\ stop
          /\ job' = [i \in Jobs |-> IF job[i] = "queued" THEN "cancelled" ELSE job[i]]
      BY <1>5 DEF Abandon, table, bound
    <2>2. \A i \in Jobs : job'[i] = job[i] \/ (job[i] = "queued" /\ job'[i] = "cancelled")
      BY <2>1
    <2>3. RunTypes' /\ JobTypes' /\ TableTypes'
      BY <1>0, <2>1 DEF RunTypes, JobTypes, TableTypes, Labels
    <2>4. RunAccounted' /\ RunsApart' /\ ResultKept'
      BY <2>1 DEF RunAccounted, RunsApart, ResultKept
    <2>5. Counted'
      BY <2>1, <2>2 DEF Inv, Counted
    <2>6. \A i \in Jobs : Equipped(i)'
      BY <2>1, <2>2 DEF Inv, Equipped, Held, Kept, Ended
    <2>7. Leased'
      BY <2>1, <2>2 DEF Inv, Leased, Held
    <2> QED BY <2>3, <2>4, <2>5, <2>6, <2>7, PartsNext DEF Inv, RegistrationInv
  <1>6. CASE Release
    <2>1. UNCHANGED <<stop, total, pool, job, mail, tries, row, stale, registered, stored, runs, events, grok>>
          /\ runner = "drain" /\ runner' = "none" /\ enabled' = FALSE
          /\ submitted' = 0 /\ futures' = {} /\ success' = 0 /\ fail' = 0 /\ forced' = {}
          /\ \A i \in Jobs : ~Alive(i)
      BY <1>6 DEF Release, Drained, work, bound
    <2>2. RunTypes' /\ JobTypes' /\ TableTypes'
      BY <1>0, <2>1, Numbers DEF RunTypes, JobTypes, TableTypes
    <2>3. RunAccounted' /\ RunsApart'
      BY <2>1 DEF RunAccounted, RunsApart, Alive
    <2>4. Counted'
      BY <1>1, <2>1 DEF Counted
    <2>5. \A i \in Jobs : Equipped(i)'
      BY <2>1 DEF Inv, Equipped
    <2>6. Leased'
      BY <2>1 DEF Inv, Leased, Alive
    <2>7. ResultKept'
      BY <2>1 DEF Inv, Counted, ResultKept
    <2> QED BY <2>2, <2>3, <2>4, <2>5, <2>6, <2>7, PartsNext DEF Inv, RegistrationInv
  <1> QED BY <1>2, <1>3, <1>4, <1>5, <1>6 DEF Runner

-----------------------------------------------------------------------------
(* A job *)

\* Where a job goes on, and with what.
LEMMA GoesTo ==
    ASSUME JobTypes, NEW i \in Jobs, NEW label \in Labels, Goes(i, label)
    PROVE  /\ JobTypes' /\ job'[i] = label
           /\ mail'[i] = IF label \in {"claim", "bad"} THEN "none" ELSE mail[i]
           /\ tries'[i] = IF label \in Ended THEN 0 ELSE tries[i]
           /\ \A j \in Jobs : j # i => job'[j] = job[j] /\ mail'[j] = mail[j] /\ tries'[j] = tries[j]
  <1>1. job' \in [Jobs -> Labels] /\ job'[i] = label /\ \A j \in Jobs : j # i => job'[j] = job[j]
    BY DEF Goes, JobTypes
  <1>2. mail' \in [Jobs -> Mailboxes \cup {"none"}]
        /\ mail'[i] = (IF label \in {"claim", "bad"} THEN "none" ELSE mail[i])
        /\ \A j \in Jobs : j # i => mail'[j] = mail[j]
    BY DEF Goes, JobTypes
  <1>3. tries' \in [Jobs -> 0..Attempts]
        /\ tries'[i] = (IF label \in Ended THEN 0 ELSE tries[i])
        /\ \A j \in Jobs : j # i => tries'[j] = tries[j]
    BY Numbers DEF Goes, JobTypes
  <1> QED BY <1>1, <1>2, <1>3 DEF JobTypes

\* A step of a living job leaves the run as it is; what remains to be shown is
\* about the job itself and the mailboxes.
LEMMA WorkHolds ==
    ASSUME Inv, NEW i \in Jobs, Alive(i), UNCHANGED <<run, bound, grok>>,
           JobTypes', TableTypes', Leased', Equipped(i)',
           \A j \in Jobs : j # i => job'[j] = job[j] /\ mail'[j] = mail[j] /\ tries'[j] = tries[j],
           job'[i] \notin {"none", "queued", "cancelled"}, stored \subseteq stored'
    PROVE  Inv'
  <1>1. UNCHANGED <<enabled, stop, runner, total, pool, submitted, futures, success, fail>>
    BY DEF run
  <1>2. RunTypes'
    BY <1>1, Parts DEF RunTypes, Inv, RegistrationInv
  <1>3. \A j \in Jobs : Alive(j)' => Alive(j)
    BY DEF Alive
  <1>4. runner # "none" /\ (runner \in {"loop", "submit", "wait"} => i \in futures) /\ ~(runner = "drain" /\ ~stop)
    BY DEF Inv, RunsApart, RegistrationInv, RunAccounted, Counted
  <1>5. RunAccounted'
    BY <1>1, <1>3 DEF Inv, RegistrationInv, RunAccounted
  <1>6. Counted'
    <2>1. job[i] # "none"
      BY DEF Alive, Held
    <2> QED BY <1>1, <1>3, <2>1 DEF Inv, Counted
  <1>7. \A j \in Jobs : Equipped(j)'
    BY DEF Inv, Equipped
  <1>8. ResultKept'
    <2>1. runner \in {"loop", "submit", "wait", "drain"}
      BY <1>4, Parts DEF RunTypes, Inv, RegistrationInv
    <2> QED BY <1>1, <1>4, <2>1 DEF Inv, ResultKept
  <1>9. RunsApart'
    BY <1>1, <1>4 DEF RunsApart
  <1> QED BY <1>2, <1>5, <1>6, <1>7, <1>8, <1>9, PartsNext DEF Inv, RegistrationInv

\* A result is recorded under the job's own lease only.
LEMMA MarkHolds ==
    ASSUME Inv, NEW i \in Jobs, job[i] \in Held, NEW state \in Spent, Mark(i, state)
    PROVE  /\ row' \in [Mailboxes -> Rows] /\ stale' \subseteq Mailboxes /\ forced' = forced
           /\ \A m \in Mailboxes : row'[m] # row[m] =>
                m = mail[i] /\ row[m].lease = i /\ row'[m].state = state /\ row'[m].lease = 0
  <1>1. mail[i] \in Mailboxes
    BY DEF Inv, Equipped
  <1>2. [state |-> state, lease |-> 0] \in Rows
    BY Numbers DEF Rows
  <1>3. row \in [Mailboxes -> Rows] /\ stale \subseteq Mailboxes
    BY Parts DEF TableTypes, Inv, RegistrationInv
  <1>4. CASE row[mail[i]].lease = i
    <2>1. row' = [row EXCEPT ![mail[i]] = [state |-> state, lease |-> 0]] /\ forced' = forced
          /\ stale' = stale \ {mail[i]}
      BY <1>4 DEF Mark
    <2> QED BY <1>1, <1>2, <1>3, <1>4, <2>1
  <1>5. CASE row[mail[i]].lease # i
    BY <1>3, <1>5 DEF Mark
  <1> QED BY <1>4, <1>5

\* A job that records its result and lets go of its mailbox.
LEMMA MarkMoves ==
    ASSUME Inv, NEW i \in Jobs, job[i] \in Held, NEW state \in Spent, Mark(i, state),
           NEW label \in Labels \ (Held \cup {"none", "queued", "cancelled"}), Goes(i, label),
           label = "claim" => tries[i] < Attempts,
           ~grok => label \notin Kept,
           UNCHANGED <<run, registered, stored, bound, grok>>
    PROVE  Inv'
  <1>0. RunTypes /\ JobTypes /\ TableTypes
    BY Parts DEF Inv, RegistrationInv
  <1>1. /\ JobTypes' /\ job'[i] = label
        /\ mail'[i] = IF label \in {"claim", "bad"} THEN "none" ELSE mail[i]
        /\ tries'[i] = IF label \in Ended THEN 0 ELSE tries[i]
        /\ \A j \in Jobs : j # i => job'[j] = job[j] /\ mail'[j] = mail[j] /\ tries'[j] = tries[j]
    BY <1>0, GoesTo
  <1>2. /\ row' \in [Mailboxes -> Rows] /\ stale' \subseteq Mailboxes /\ forced' = forced
        /\ \A m \in Mailboxes : row'[m] # row[m] =>
             m = mail[i] /\ row[m].lease = i /\ row'[m].state = state /\ row'[m].lease = 0
    BY MarkHolds
  <1>3. mail[i] \in Mailboxes
    BY DEF Inv, Equipped
  <1>4. Equipped(i)'
    BY <1>1, <1>3 DEF Equipped, Held, Kept, Ended
  <1>5. TableTypes'
    BY <1>0, <1>2 DEF TableTypes, bound
  <1>6. Leased'
    <2>1. \A m \in Mailboxes : row'[m].state # "in_use" => row'[m].lease = 0
      BY <1>2 DEF Inv, Leased
    <2>2. ASSUME NEW j \in Jobs, job'[j] \in Held
          PROVE  row'[mail'[j]].lease = j \/ mail'[j] \in forced'
      <3>1. j # i /\ job[j] \in Held /\ mail'[j] = mail[j]
        BY <1>1, <2>2
      <3>2. row[mail[j]].lease = j \/ mail[j] \in forced
        BY <3>1 DEF Inv, Leased
      <3>3. mail[j] \in Mailboxes
        BY <3>1 DEF Inv, Equipped
      <3> QED BY <1>2, <3>1, <3>2, <3>3
    <2> QED BY <2>1, <2>2 DEF Leased
  <1>7. Alive(i)
    BY DEF Alive
  <1> QED BY <1>1, <1>4, <1>5, <1>6, <1>7, WorkHolds

\* A step that leaves the table alone, and no job newly holding a mailbox.
LEMMA TableStays ==
    ASSUME Inv, NEW i \in Jobs, UNCHANGED table,
           \A j \in Jobs : job'[j] \in Held => job[j] \in Held /\ mail'[j] = mail[j]
    PROVE  Leased'
  BY DEF Inv, Leased, table

LEMMA ClaimMoves ==
    ASSUME Inv, NEW i \in Jobs, NEW m \in Mailboxes, Claim(i, m)
    PROVE  Inv'
  <1>0. RunTypes /\ JobTypes /\ TableTypes
    BY Parts DEF Inv, RegistrationInv
  <1>1. /\ job[i] = "claim" /\ Available(m)
        /\ row' = [row EXCEPT ![m] = [state |-> "in_use", lease |-> i]]
        /\ stale' = stale \ {m}
        /\ forced' = IF m \in stale THEN forced \cup {m} ELSE forced
        /\ job' = [job EXCEPT ![i] = "busy"] /\ mail' = [mail EXCEPT ![i] = m]
        /\ tries' = [tries EXCEPT ![i] = @ + 1]
        /\ UNCHANGED <<run, registered, stored, bound, grok>>
    BY DEF Claim
  <1>2. tries[i] < Attempts /\ tries[i] \in 0..Attempts /\ tries[i] + 1 \in 0..Attempts
    <2>1. tries[i] < Attempts
      BY <1>1 DEF Inv, Equipped
    <2>2. tries[i] \in 0..Attempts
      BY <1>0 DEF JobTypes
    <2> QED BY <2>1, <2>2, Numbers
  <1>3. job' \in [Jobs -> Labels] /\ job'[i] = "busy"
    BY <1>0, <1>1 DEF JobTypes, Labels, Held
  <1>4. mail' \in [Jobs -> Mailboxes \cup {"none"}] /\ mail'[i] = m
    BY <1>0, <1>1 DEF JobTypes
  <1>5. tries' \in [Jobs -> 0..Attempts]
    BY <1>0, <1>1, <1>2 DEF JobTypes
  <1>6. \A j \in Jobs : j # i => job'[j] = job[j] /\ mail'[j] = mail[j] /\ tries'[j] = tries[j]
    BY <1>0, <1>1 DEF JobTypes
  <1>7. i \in 0..Total /\ i # 0
    BY Numbers DEF Jobs
  <1>8. [state |-> "in_use", lease |-> i] \in Rows
    BY <1>7 DEF Rows
  <1>9. row' \in [Mailboxes -> Rows] /\ row'[m] = [state |-> "in_use", lease |-> i]
        /\ \A n \in Mailboxes : n # m => row'[n] = row[n]
    BY <1>0, <1>1, <1>8 DEF TableTypes
  <1>10. TableTypes'
    BY <1>0, <1>1, <1>9 DEF TableTypes, bound
  <1>11. Equipped(i)'
    BY <1>3, <1>4 DEF Equipped, Ended, Kept
  <1>12. Leased'
    <2>1. \A n \in Mailboxes : row'[n].state # "in_use" => row'[n].lease = 0
      BY <1>9 DEF Inv, Leased
    <2>2. row'[mail'[i]].lease = i
      BY <1>4, <1>9
    <2>3. ASSUME NEW j \in Jobs, j # i, job[j] \in Held
          PROVE  row'[mail[j]].lease = j \/ mail[j] \in forced'
      <3>1. mail[j] \in Mailboxes /\ (row[mail[j]].lease = j \/ mail[j] \in forced)
        BY <2>3 DEF Inv, Leased, Equipped
      <3>2. CASE mail[j] # m
        BY <1>1, <1>9, <3>1, <3>2
      <3>3. CASE mail[j] = m /\ m \notin stale
        <4>1. row[m].lease = 0 /\ j # 0
          BY <1>1, <3>3, Numbers DEF Available, Inv, Leased, Jobs
        <4> QED BY <1>1, <3>1, <3>3, <4>1
      <3>4. CASE mail[j] = m /\ m \in stale
        BY <1>1, <3>4
      <3> QED BY <3>2, <3>3, <3>4
    <2> QED BY <1>6, <2>1, <2>2, <2>3 DEF Leased
  <1>13. JobTypes'
    BY <1>3, <1>4, <1>5 DEF JobTypes
  <1>14. Alive(i)
    BY <1>1 DEF Alive
  <1> QED BY <1>1, <1>3, <1>6, <1>10, <1>11, <1>12, <1>13, <1>14, WorkHolds

\* The credential of an alias is refused: whoever holds the row of its mailbox
\* loses it.
LEMMA BlameMoves ==
    ASSUME Inv, NEW i \in Jobs, Blame(i)
    PROVE  Inv'
  <1> DEFINE m == Login[mail[i]]
  <1>0. RunTypes /\ JobTypes /\ TableTypes
    BY Parts DEF Inv, RegistrationInv
  <1>1. /\ job[i] = "blame"
        /\ row' = [row EXCEPT ![m] = [state |-> "invalid", lease |-> 0]]
        /\ stale' = stale \ {m}
        /\ forced' = IF row[m].state = "in_use" THEN forced \cup {m} ELSE forced
        /\ Goes(i, "bad")
        /\ UNCHANGED <<run, registered, stored, bound, grok>>
    BY DEF Blame
  <1>2. m \in Mailboxes
    BY <1>1, RegistrationAssumption DEF Inv, Equipped
  <1>3. /\ JobTypes' /\ job'[i] = "bad" /\ tries'[i] = 0
        /\ \A j \in Jobs : j # i => job'[j] = job[j] /\ mail'[j] = mail[j] /\ tries'[j] = tries[j]
    BY <1>0, <1>1, GoesTo DEF Labels, Ended
  <1>4. [state |-> "invalid", lease |-> 0] \in Rows
    BY Numbers DEF Rows, Spent, Lost
  <1> HIDE DEF m
  <1>5. row' \in [Mailboxes -> Rows] /\ row'[m] = [state |-> "invalid", lease |-> 0]
        /\ \A n \in Mailboxes : n # m => row'[n] = row[n]
    BY <1>0, <1>1, <1>2, <1>4 DEF TableTypes
  <1>6. TableTypes'
    BY <1>0, <1>1, <1>2, <1>5 DEF TableTypes, bound
  <1>7. Equipped(i)'
    BY <1>3 DEF Equipped, Held, Kept, Ended
  <1>8. Leased'
    <2>1. \A n \in Mailboxes : row'[n].state # "in_use" => row'[n].lease = 0
      BY <1>5 DEF Inv, Leased
    <2>2. ASSUME NEW j \in Jobs, job'[j] \in Held
          PROVE  row'[mail'[j]].lease = j \/ mail'[j] \in forced'
      <3>1. j # i /\ job[j] \in Held /\ mail'[j] = mail[j] /\ j # 0
        BY <1>3, <2>2, Numbers DEF Held, Jobs
      <3>2. mail[j] \in Mailboxes /\ (row[mail[j]].lease = j \/ mail[j] \in forced)
        BY <3>1 DEF Inv, Leased, Equipped
      <3>3. row[mail[j]].state = "in_use" \/ mail[j] \in forced
        BY <3>1, <3>2 DEF Inv, Leased
      <3> QED BY <1>1, <1>5, <3>1, <3>2, <3>3
    <2> QED BY <2>1, <2>2 DEF Leased
  <1>9. Alive(i)
    BY <1>1 DEF Alive
  <1> QED BY <1>1, <1>3, <1>6, <1>7, <1>8, <1>9, WorkHolds

LEMMA WorkMoves ==
    ASSUME Inv, NEW i \in Jobs, Work(i)
    PROVE  Inv'
  <1>0. RunTypes /\ JobTypes /\ TableTypes
    BY Parts DEF Inv, RegistrationInv
  <1> USE DEF Labels
  <1>1. ASSUME Alive(i), NEW label \in {"claim", "bad", "ok", "created"}, Goes(i, label),
               UNCHANGED <<run, table, bound, grok>>,
               label = "claim" => tries[i] < Attempts,
               label = "created" => job[i] = "busy",
               label = "ok" => mail[i] \in stored' /\ mail[i] \in Mailboxes,
               stored \subseteq stored', stored' \subseteq Mailboxes, registered' \subseteq Mailboxes
        PROVE  Inv'
    <2>1. /\ JobTypes' /\ job'[i] = label
          /\ mail'[i] = IF label \in {"claim", "bad"} THEN "none" ELSE mail[i]
          /\ tries'[i] = IF label \in Ended THEN 0 ELSE tries[i]
          /\ \A j \in Jobs : j # i => job'[j] = job[j] /\ mail'[j] = mail[j] /\ tries'[j] = tries[j]
      BY <1>0, <1>1, GoesTo DEF Held, Ended, Kept
    <2>2. job[i] = "busy" => mail[i] \in Mailboxes
      BY DEF Inv, Equipped, Held
    <2>3. Equipped(i)'
      BY <1>1, <2>1, <2>2 DEF Equipped, Held, Kept, Ended
    <2>4. TableTypes'
      BY <1>0, <1>1 DEF TableTypes, table, bound
    <2>5. Leased'
      BY <1>1, <2>1, TableStays DEF Held
    <2> QED BY <1>1, <2>1, <2>3, <2>4, <2>5, WorkHolds
  <1>2. stored \subseteq Mailboxes /\ registered \subseteq Mailboxes
    BY <1>0 DEF TableTypes
  <1>3. CASE Begin(i)
    <2>1. tries[i] < Attempts
      BY <1>3, Numbers DEF Begin, Inv, Equipped
    <2> QED BY <1>1, <1>2, <1>3, <2>1 DEF Begin, Alive
  <1>4. CASE GiveUp(i)
    BY <1>1, <1>2, <1>4 DEF GiveUp, Alive
  <1>5. ASSUME NEW m \in Mailboxes, Claim(i, m) PROVE Inv'
    BY <1>5, ClaimMoves
  <1>6. job[i] \in Held \cup {"keep"} => mail[i] \in Mailboxes
    BY DEF Inv, Equipped
  <1>7. CASE Create(i)
    BY <1>1, <1>2, <1>6, <1>7 DEF Create, Alive, Held
  <1>8. CASE Keep(i)
    <2>1. job[i] = "keep" /\ stored' = stored \cup {mail[i]} /\ mail[i] \in Mailboxes
      BY <1>6, <1>8 DEF Keep
    <2> QED BY <1>1, <1>2, <1>8, <2>1 DEF Keep, Alive
  <1>9. CASE Succeed(i)
    <2>1. PICK label \in IF grok THEN Kept ELSE {"keep"} : Goes(i, label)
      BY <1>9 DEF Succeed
    <2>2. label \in Kept \cup {"keep"} /\ (~grok => label \notin Kept)
      BY <2>1 DEF Kept
    <2> QED BY <1>9, <2>1, <2>2, MarkMoves DEF Succeed, Held, Spent, Kept, Ended
  <1>10. ASSUME job[i] \in Held, NEW state \in Spent, Mark(i, state),
                NEW label \in {"bad", "claim", "blame"}, Goes(i, label),
                label = "claim" => tries[i] < Attempts,
                UNCHANGED <<run, registered, stored, bound, grok>>
         PROVE  Inv'
    BY <1>10, MarkMoves DEF Held, Kept, Ended
  <1>11. CASE LoseSession(i)
    BY <1>10, <1>11 DEF LoseSession, Held, Spent
  <1>12. CASE Known(i)
    BY <1>10, <1>12 DEF Known, Again, Held, Spent
  <1>13. CASE Fail(i)
    BY <1>10, <1>13 DEF Fail, Again, Held, Spent
  <1>14. CASE Refused(i)
    BY <1>10, <1>14 DEF Refused, Held, Spent, Lost
  <1>15. CASE Blame(i)
    BY <1>15, BlameMoves
  <1> QED BY <1>3, <1>4, <1>5, <1>7, <1>8, <1>9, <1>11, <1>12, <1>13, <1>14, <1>15 DEF Work

LEMMA StepInv == Inv /\ [Next]_vars => Inv'
  <1> SUFFICES ASSUME Inv, [Next]_vars PROVE Inv'
    OBVIOUS
  <1>1. CASE Next
    BY <1>1, OperatorMoves, RunnerMoves, CrashMoves, WorkMoves, GrowStaleMoves DEF Next
  <1>2. CASE UNCHANGED vars
    <2>1. UNCHANGED <<enabled, stop, runner, total, pool, submitted, futures, success, fail>>
          /\ UNCHANGED <<job, mail, tries, row, stale, forced, registered, stored, runs, events, grok>>
      BY <1>2 DEF vars, run, work, table, bound
    <2>2. TypeOK'
      BY <2>1 DEF Inv, RegistrationInv, TypeOK
    <2>3. RunAccounted' /\ Counted' /\ RunsApart'
      BY <2>1 DEF Inv, RegistrationInv, RunAccounted, Counted, RunsApart, Alive
    <2>4. (\A i \in Jobs : Equipped(i)') /\ Leased' /\ ResultKept'
      BY <2>1 DEF Inv, Equipped, Leased, ResultKept
    <2> QED BY <2>2, <2>3, <2>4 DEF Inv, RegistrationInv
  <1> QED BY <1>1, <1>2

-----------------------------------------------------------------------------
\* A run has every job it submitted counted or pending, exactly once, and ends
\* with all it was asked for, until it is stopped.
THEOREM JobsAccounted == Spec => []RegistrationInv
  <1>1. Inv => RegistrationInv
    BY DEF Inv
  <1> QED BY InitInv, StepInv, <1>1, PTL DEF Spec

\* Two jobs never register with one mailbox, unless the reservation of the
\* first was given up under it.
THEOREM MailboxExclusive == Spec => []OneHolder
  <1>1. Inv => OneHolder
    <2> SUFFICES ASSUME Inv, NEW i \in Jobs, NEW j \in Jobs,
                        job[i] \in Held, job[j] \in Held, mail[i] = mail[j]
                 PROVE  i = j \/ mail[i] \in forced
      BY DEF OneHolder
    <2> QED BY DEF Inv, Leased
  <1> QED BY InitInv, StepInv, <1>1, PTL DEF Spec

\* An account that a job brings is stored, or still to be collected, unless the
\* run is stopped.
THEOREM AccountsKept == Spec => []ResultKept
  <1>1. Inv => ResultKept
    BY DEF Inv
  <1> QED BY InitInv, StepInv, <1>1, PTL DEF Spec

\* No run begins beside jobs of an earlier one.
THEOREM RunsNeverOverlap == Spec => []RunsApart
  <1>1. Inv => RunsApart
    BY DEF Inv
  <1> QED BY InitInv, StepInv, <1>1, PTL DEF Spec

\* What a step does to a mailbox recorded as used.
LEMMA UsedStep ==
    ASSUME Inv, Next, NEW m \in Mailboxes, row[m].state = "used", row'[m].state # "used"
    PROVE  \E i \in Jobs : job[i] = "blame" /\ job'[i] = "bad" /\ Login[mail[i]] = m
  <1>0. RunTypes /\ JobTypes /\ TableTypes
    BY Parts DEF Inv, RegistrationInv
  <1>1. row[m].lease = 0 /\ row' # row
    BY DEF Inv, Leased
  <1>2. ASSUME NEW mailboxes \in SUBSET Mailboxes, NEW states, "used" \notin states
        PROVE  ~Cleared(mailboxes, states)
    BY <1>0, <1>2, ClearedHolds
  <1>3. ~Operator
    <2>1. ~Start /\ ~Stop
      BY <1>1 DEF Start, Stop, table
    <2>2. \A mailboxes \in SUBSET Mailboxes : ~RetryFailed(mailboxes)
      BY <1>2 DEF RetryFailed
    <2>3. \A scope \in {"retryable", "invalid"} : ~ResetPool(scope)
      BY <1>2 DEF ResetPool, Scope, Lost
    <2>4. ASSUME NEW n \in Mailboxes PROVE ~ImportCredential(n)
      <3>1. {k \in Mailboxes : Login[k] = n} \in SUBSET Mailboxes
        OBVIOUS
      <3> QED BY <1>2, <3>1 DEF ImportCredential, Lost
    <2> QED BY <2>1, <2>2, <2>3, <2>4 DEF Operator
  <1>4. ~Runner /\ ~Crash /\ \A n \in Mailboxes : ~GrowStale(n)
    BY <1>1 DEF Runner, Look, Submit, Collect, Abandon, Release, Crash, GrowStale, table
  <1>5. PICK i \in Jobs : Work(i)
    BY <1>3, <1>4 DEF Next
  <1>6. ASSUME job[i] \in Held, NEW state \in Spent PROVE ~Mark(i, state)
    BY <1>1, <1>6, MarkHolds, Numbers DEF Jobs
  <1>7. ~Begin(i) /\ ~GiveUp(i) /\ ~Create(i) /\ ~Keep(i)
    BY <1>1 DEF Begin, GiveUp, Create, Keep, table
  <1>8. ~Succeed(i) /\ ~LoseSession(i) /\ ~Known(i) /\ ~Fail(i) /\ ~Refused(i)
    BY <1>6 DEF Succeed, LoseSession, Known, Fail, Refused, Held, Spent, Lost
  <1>9. ASSUME NEW n \in Mailboxes PROVE ~Claim(i, n)
    BY <1>0 DEF Claim, Available, TableTypes
  <1>10. Blame(i)
    BY <1>5, <1>7, <1>8, <1>9 DEF Work
  <1>11. Login[mail[i]] = m
    BY <1>0, <1>10 DEF Blame, TableTypes
  <1>12. job'[i] = "bad"
    BY <1>0, <1>10, GoesTo DEF Blame, Labels, Ended
  <1> QED BY <1>10, <1>11, <1>12 DEF Blame

\* A mailbox recorded as used stays so, whatever late job, retry or reset comes,
\* unless an alias finds its credential refused.
THEOREM UsedForGood == Spec => UsedStays
  <1>1. ASSUME Inv, [Next]_vars
        PROVE  \A m \in Mailboxes : row[m].state = "used" /\ row'[m].state # "used" =>
                 \E i \in Jobs : job[i] = "blame" /\ job'[i] = "bad" /\ Login[mail[i]] = m
    <2>1. CASE UNCHANGED vars
      BY <2>1 DEF vars, table
    <2> QED BY <1>1, <2>1, UsedStep
  <1> QED BY InitInv, StepInv, <1>1, PTL DEF Spec, UsedStays
=============================================================================
