------------------------ MODULE CheckoutQueue_proofs ------------------------
(***************************************************************************)
(* Proofs about CheckoutQueue: claims are exclusive, jobs belong to the     *)
(* open generation, nobody sleeps through a notification, rows of queued    *)
(* jobs stay active or are cut off, and links are kept.                     *)
(***************************************************************************)
EXTENDS CheckoutQueue, TLAPS

\* A task whose producer has not handed it over is in no queue and with no
\* worker: a key is queued once.
Fresh ==
    \A t \in Tasks : made[t] \notin {"queued", "done"} =>
        t \notin jobs /\ \A w \in Workers : at[w] \in Busy => job[w] # t

\* Workers are started in the generation of their time.
Born == \A w \in Workers : at[w] # "off" => w[1] <= gen

\* What is cut off has no row.
CutGone == \A t \in cut : row[t] = "none"

Inv == QueueInv /\ NoLostWakeup /\ JobsShown /\ Fresh /\ Born /\ CutGone

\* What JobsShown asks of a row.
Visible(t) == row[t] = "active" \/ t \in cut

\* Everything the invariant says of claims and jobs, without the rows.
Claims == ClaimsExact /\ JobsLive /\ OneJobPerToken /\ NoLostWakeup /\ Fresh /\ Born

-----------------------------------------------------------------------------
LEMMA InitInv == Init => Inv
  <1> SUFFICES ASSUME Init PROVE Inv
    OBVIOUS
  <1>1. TypeOK
    <2>1. gen \in 1..MaxGen /\ deaths \in 0..MaxDeaths /\ 0 \in 0..MaxGen
      BY QueueAssumption DEF Init
    <2>2. jobGen \in [Tasks -> 0..MaxGen]
      BY <2>1 DEF Init
    <2>3. at \in [Workers -> Busy \cup {"off", "loop", "wait"}]
      BY DEF Init
    <2> QED BY <2>1, <2>2, <2>3 DEF Init, TypeOK
  <1>2. jobs = {}
    BY DEF Init, jobs
  <1>3. \A w \in Workers : at[w] = "off"
    BY DEF Init
  <1>4. ClaimsExact
    BY <1>3 DEF Init, ClaimsExact, Busy
  <1>5. JobsLive /\ OneJobPerToken /\ JobsShown /\ CutGone
    BY <1>2 DEF JobsLive, OneJobPerToken, JobsShown, CutGone, Init
  <1>6. NoLostWakeup
    BY <1>3 DEF NoLostWakeup
  <1>7. Fresh /\ Born
    BY <1>2, <1>3 DEF Fresh, Born, Busy
  <1> QED BY <1>1, <1>4, <1>5, <1>6, <1>7 DEF Inv, QueueInv

\* A worker that goes on with its job disturbs no claim.
LEMMA Moves ==
    ASSUME Inv, NEW w \in Workers, NEW label \in Busy,
           at[w] \in Busy, Goto(w, label),
           UNCHANGED <<event, jobGen, inFlight, job, made, carried, account>>
    PROVE  Claims' /\ at' \in [Workers -> Busy \cup {"off", "loop", "wait"}]
  <1>1. at' \in [Workers -> Busy \cup {"off", "loop", "wait"}]
    BY DEF Goto, Inv, QueueInv, TypeOK
  <1>2. \A v \in Workers : (at'[v] \in Busy <=> at[v] \in Busy) /\ (at'[v] = "wait" <=> at[v] = "wait")
    BY DEF Goto, Inv, QueueInv, TypeOK, Busy
  <1>3. jobs' = jobs
    BY DEF jobs
  <1>4. ClaimsExact'
    BY <1>2, <1>3 DEF Inv, QueueInv, ClaimsExact
  <1>5. JobsLive' /\ OneJobPerToken'
    BY <1>3 DEF Inv, QueueInv, JobsLive, OneJobPerToken, SameToken, event
  <1>6. NoLostWakeup'
    BY <1>2, <1>3 DEF Inv, NoLostWakeup, IsSet, Unclaimed, event
  <1>7. Fresh'
    BY <1>2, <1>3 DEF Inv, Fresh
  <1>8. Born'
    BY DEF Goto, Inv, QueueInv, TypeOK, Born, event, Busy
  <1> QED BY <1>1, <1>4, <1>5, <1>6, <1>7, <1>8 DEF Claims

\* A producer that does not queue anything disturbs no claim either.
LEMMA Produces ==
    ASSUME Inv, NEW t \in Tasks,
           NEW label \in {"asked", "saved", "lock", "flow", "ended", "enqueue", "done"},
           Made(t, label),
           made[t] \notin {"queued", "done"} \/ label = "done",
           UNCHANGED <<jobGen, inFlight, at, job, account>>,
           \A u \in jobs : carried'[u] = carried[u],
           UNCHANGED event
    PROVE  Claims' /\ made' \in [Tasks -> {"new", "asked", "saved", "lock", "flow", "ended",
                                           "enqueue", "queued", "done"}]
  <1>1. jobs' = jobs
    BY DEF jobs
  <1>2. \A u \in Tasks : made'[u] \notin {"queued", "done"} => made[u] \notin {"queued", "done"}
    BY DEF Made, Inv, QueueInv, TypeOK
  <1>3. ClaimsExact'
    BY <1>1 DEF Inv, QueueInv, ClaimsExact
  <1>4. JobsLive' /\ OneJobPerToken'
    BY <1>1 DEF Inv, QueueInv, JobsLive, OneJobPerToken, SameToken, event
  <1>5. NoLostWakeup'
    BY <1>1 DEF Inv, NoLostWakeup, IsSet, Unclaimed, event
  <1>6. Fresh'
    BY <1>1, <1>2 DEF Inv, Fresh
  <1>7. made' \in [Tasks -> {"new", "asked", "saved", "lock", "flow", "ended", "enqueue", "queued", "done"}]
    BY DEF Made, Inv, QueueInv, TypeOK
  <1>8. Born'
    BY DEF Inv, Born, event
  <1> QED BY <1>3, <1>4, <1>5, <1>6, <1>7, <1>8 DEF Claims

\* Writing rows takes nothing off the table but by the cut.
LEMMA RowsKept ==
    ASSUME Inv, NEW ts \in SUBSET Tasks, NEW status \in {"active", "ended", "cancelled"},
           Rows(ts, status)
    PROVE  /\ row' \in [Tasks -> {"none", "active", "ended", "cancelled"}]
           /\ cut' \in SUBSET Tasks /\ CutGone'
           /\ \A t \in Tasks : t \notin ts \/ status = "active" => (Visible(t) => Visible(t)')
           /\ \A t \in ts : status = "active" => Visible(t)'
  <1>1. PICK kept \in SUBSET (Shown \cup ts) :
          /\ row' = [t \in Tasks |-> IF t \notin kept THEN "none"
                                    ELSE IF t \in ts THEN status ELSE row[t]]
          /\ cut' = (cut \cup Shown \cup ts) \ kept
    BY DEF Rows
  <1>2. Shown \in SUBSET Tasks /\ cut \in SUBSET Tasks
    BY DEF Shown, Inv, QueueInv, TypeOK
  <1>3. row' \in [Tasks -> {"none", "active", "ended", "cancelled"}]
    BY <1>1 DEF Inv, QueueInv, TypeOK
  <1>4. cut' \in SUBSET Tasks /\ CutGone'
    BY <1>1, <1>2 DEF CutGone
  <1>5. \A t \in ts : status = "active" => Visible(t)'
    BY <1>1 DEF Visible
  <1>6. ASSUME NEW t \in Tasks, t \notin ts, Visible(t) PROVE Visible(t)'
    <2>1. t \in cut => t \notin kept
      BY <1>1, <1>6 DEF Inv, CutGone, Shown
    <2>2. row[t] = "active" => t \in Shown
      BY DEF Shown
    <2> QED BY <1>1, <1>6, <2>1, <2>2 DEF Visible
  <1> QED BY <1>3, <1>4, <1>5, <1>6

LEMMA RowKept ==
    ASSUME Inv, NEW t \in Tasks, NEW status \in {"active", "ended", "cancelled"}, Row(t, status)
    PROVE  /\ row' \in [Tasks -> {"none", "active", "ended", "cancelled"}]
           /\ cut' \in SUBSET Tasks /\ CutGone'
           /\ \A u \in Tasks : u # t \/ status = "active" => (Visible(u) => Visible(u)')
           /\ status = "active" => Visible(t)'
  BY RowsKept DEF Row

LEMMA TableKept ==
    ASSUME Inv, UNCHANGED table
    PROVE  /\ row' \in [Tasks -> {"none", "active", "ended", "cancelled"}]
           /\ cut' \in SUBSET Tasks /\ CutGone'
           /\ \A t \in Tasks : Visible(t) => Visible(t)'
  BY DEF table, Inv, QueueInv, TypeOK, CutGone, Visible

\* The rows of queued jobs, when a worker that is not removing its job goes on
\* and writes no row but as active.
LEMMA RowsShown ==
    ASSUME Inv, NEW w \in Workers, NEW label \in Busy, at[w] # "remove",
           Goto(w, label), UNCHANGED <<jobGen, job>>,
           UNCHANGED table \/ (job[w] \in Tasks /\ Row(job[w], "active"))
    PROVE  JobsShown'
  <1>1. jobs' = jobs
    BY DEF jobs
  <1>2. \A v \in Workers : at[v] = "remove" => at'[v] = "remove"
    BY DEF Goto, Inv, QueueInv, TypeOK
  <1>3. \A t \in Tasks : Visible(t) => Visible(t)'
    BY RowKept, TableKept
  <1> QED BY <1>1, <1>2, <1>3 DEF Inv, JobsShown, Visible, jobs

LEMMA WorkersMove ==
    ASSUME Inv, NEW w \in Workers,
           Begin(w) \/ ShowRunning(w) \/ ShowRetrying(w) \/ MarkRaises(w) \/ EnterFlow(w)
             \/ FlowEnds(w) \/ Progress(w) \/ Report(w) \/ ShowEnd(w)
    PROVE  Inv'
  <1> USE DEF Inv
  <1>0. job[w] \in Tasks /\ account[job[w]] \in Accounts
    <2>1. at[w] \in Busy
      BY DEF Begin, ShowRunning, ShowRetrying, MarkRaises, EnterFlow, FlowEnds, Progress,
             Report, ShowEnd, Busy
    <2> QED BY <2>1, QueueAssumption DEF QueueInv, ClaimsExact, TypeOK
  <1>1. at[w] \in Busy
    BY DEF Begin, ShowRunning, ShowRetrying, MarkRaises, EnterFlow, FlowEnds, Progress,
           Report, ShowEnd, Busy
  <1>2. \E label \in Busy : Goto(w, label)
    BY DEF Begin, ShowRunning, ShowRetrying, MarkRaises, EnterFlow, FlowEnds, Progress,
           Report, ShowEnd, Busy
  <1>3. UNCHANGED <<event, jobGen, inFlight, job, token, made, own, carried, account>>
    BY DEF Begin, ShowRunning, ShowRetrying, MarkRaises, EnterFlow, FlowEnds, Progress,
           Report, ShowEnd, queue, task, event
  <1>4. Claims' /\ at' \in [Workers -> Busy \cup {"off", "loop", "wait"}]
    <2>1. PICK label \in Busy : Goto(w, label)
      BY <1>2
    <2> QED BY <2>1, <1>1, <1>3, Moves
  <1>5. ready' \in SUBSET Accounts
    BY <1>0 DEF Begin, ShowRunning, ShowRetrying, MarkRaises, EnterFlow, FlowEnds, Progress,
           Report, ShowEnd, Marked, Stored, NotStored, QueueInv, TypeOK
  <1>6. deaths' \in 0..MaxDeaths
    BY QueueAssumption DEF Begin, ShowRunning, ShowRetrying, MarkRaises, EnterFlow, FlowEnds, Progress,
           Report, ShowEnd, QueueInv, TypeOK
  <1>a. UNCHANGED table \/ Row(job[w], "active") \/ Row(job[w], "ended")
    BY DEF Begin, ShowRunning, ShowRetrying, MarkRaises, EnterFlow, FlowEnds, Progress, Report,
           ShowEnd
  <1>7. /\ row' \in [Tasks -> {"none", "active", "ended", "cancelled"}]
        /\ cut' \in SUBSET Tasks /\ CutGone'
    BY <1>0, <1>a, RowKept, TableKept
  <1>b. key' \in [Workers -> Nat]
    <2>1. key \in [Workers -> Nat] /\ 0 \in Nat /\ token[account[job[w]]] \in Nat
      BY <1>0 DEF QueueInv, TypeOK
    <2>2. \/ UNCHANGED key \/ key' = [key EXCEPT ![w] = 0]
          \/ key' = [key EXCEPT ![w] = token[account[job[w]]]]
      BY DEF Begin, ShowRunning, ShowRetrying, MarkRaises, EnterFlow, FlowEnds,
             Progress, Report, ShowEnd
    <2> QED BY <2>1, <2>2
  <1>8. JobsShown'
    <2>1. CASE ShowEnd(w)
      <3>1. jobs' = jobs
        BY <2>1 DEF ShowEnd, queue, jobs
      <3>2. at'[w] = "remove" /\ \A v \in Workers : v # w => at'[v] = at[v]
        BY <2>1 DEF ShowEnd, Goto, QueueInv, TypeOK
      <3>3. \A t \in Tasks : t # job[w] => (Visible(t) => Visible(t)')
        BY <1>0, <2>1, RowKept DEF ShowEnd
      <3>4. at[w] # "remove"
        BY <2>1 DEF ShowEnd
      <3>5. \A t \in jobs : t \in Tasks
        BY DEF jobs
      <3> QED BY <1>3, <3>1, <3>2, <3>3, <3>4, <3>5 DEF JobsShown, Visible
    <2>2. CASE ~ShowEnd(w)
      <3>1. at[w] # "remove"
        BY <2>2 DEF Begin, ShowRunning, ShowRetrying, MarkRaises, EnterFlow, FlowEnds, Progress, Report
      <3>2. UNCHANGED table \/ Row(job[w], "active")
        BY <2>2 DEF Begin, ShowRunning, ShowRetrying, MarkRaises, EnterFlow, FlowEnds, Progress, Report
      <3>3. PICK label \in Busy : Goto(w, label)
        BY <1>2
      <3> QED BY <1>0, <1>3, <3>1, <3>2, <3>3, RowsShown
    <2> QED BY <2>1, <2>2
  <1>9. TypeOK'
    BY <1>3, <1>4, <1>5, <1>6, <1>7, <1>b DEF QueueInv, TypeOK, event
  <1> QED BY <1>4, <1>7, <1>8, <1>9 DEF Claims, QueueInv

LEMMA ProducersMove ==
    ASSUME Inv, NEW t \in Tasks,
           RegisterSaves(t) \/ RegisterResolves(t) \/ RegisterEnters(t) \/ RegisterFlowEnds(t)
             \/ RegisterShowsEnd(t) \/ BatchChecks(t) \/ RegisterShows(t)
    PROVE  Inv'
  <1> USE DEF Inv
  <1>1. \E label \in {"asked", "saved", "lock", "flow", "ended", "enqueue", "done"} :
          Made(t, label) /\ (made[t] \notin {"queued", "done"} \/ label = "done")
    BY DEF RegisterSaves, RegisterResolves, RegisterEnters, RegisterFlowEnds, RegisterShowsEnd,
           BatchChecks, RegisterShows
  <1>2. UNCHANGED <<event, jobGen, inFlight, token, at, job, key, account, deaths>>
    BY DEF RegisterSaves, RegisterResolves, RegisterEnters, RegisterFlowEnds, RegisterShowsEnd, BatchChecks,
           RegisterShows, queue, worker, event
  <1>9. \A u \in jobs : carried'[u] = carried[u]
    BY DEF RegisterSaves, RegisterResolves, RegisterEnters, RegisterFlowEnds, RegisterShowsEnd,
           BatchChecks, RegisterShows, Fresh, QueueInv, TypeOK, jobs
  <1>3. Claims' /\ made' \in [Tasks -> {"new", "asked", "saved", "lock", "flow", "ended", "enqueue",
                                          "queued", "done"}]
    <2>1. PICK label \in {"asked", "saved", "lock", "flow", "ended", "enqueue", "done"} :
            Made(t, label) /\ (made[t] \notin {"queued", "done"} \/ label = "done")
      BY <1>1
    <2> QED BY <2>1, <1>2, <1>9, Produces
  <1>4. account[t] \in Accounts
    BY QueueAssumption DEF QueueInv, TypeOK
  <1>5. ready' \in SUBSET Accounts
    BY <1>4 DEF RegisterSaves, RegisterResolves, RegisterEnters, RegisterFlowEnds, RegisterShowsEnd, BatchChecks,
           RegisterShows, Marked, Stored, NotStored, QueueInv, TypeOK
  <1>a. UNCHANGED table \/ Row(t, "active") \/ (Row(t, "ended") /\ RegisterShowsEnd(t))
    BY DEF RegisterSaves, RegisterResolves, RegisterEnters, RegisterFlowEnds, RegisterShowsEnd,
           BatchChecks, RegisterShows
  <1>6. /\ row' \in [Tasks -> {"none", "active", "ended", "cancelled"}]
        /\ cut' \in SUBSET Tasks /\ CutGone'
    BY <1>a, RowKept, TableKept
  <1>b. carried' \in [Tasks -> Nat] /\ own' \in [Tasks -> Nat]
    BY <1>4 DEF RegisterSaves, RegisterResolves, RegisterEnters, RegisterFlowEnds,
           RegisterShowsEnd, BatchChecks, RegisterShows, QueueInv, TypeOK
  <1>7. TypeOK'
    BY <1>2, <1>3, <1>5, <1>6, <1>b DEF QueueInv, TypeOK, event
  <1>8. JobsShown'
    <2>1. jobs' = jobs
      BY <1>2 DEF jobs
    <2>2. \A u \in jobs : Visible(u) => Visible(u)'
      <3>1. RegisterShowsEnd(t) => t \notin jobs
        BY DEF RegisterShowsEnd, Fresh
      <3>2. jobs \in SUBSET Tasks
        BY DEF jobs
      <3> QED BY <1>a, <3>1, <3>2, RowKept, TableKept
    <2> QED BY <1>2, <2>1, <2>2 DEF JobsShown, Visible
  <1> QED BY <1>3, <1>6, <1>7, <1>8 DEF Claims, QueueInv

\* A generation that is stopped has no jobs, so a new one starts with none.
LEMMA Reopens ==
    ASSUME Inv, Reopen, UNCHANGED <<jobGen, inFlight, at, job, carried, account>>,
           \A t \in Tasks : made'[t] \notin {"queued", "done"} => made[t] \notin {"queued", "done"}
    PROVE  Claims' /\ gen' \in 1..MaxGen /\ stopped' \in BOOLEAN
  <1> USE DEF Inv
  <1>1. jobs' = jobs
    BY DEF jobs
  <1>2. ClaimsExact' /\ OneJobPerToken'
    BY <1>1 DEF QueueInv, ClaimsExact, OneJobPerToken, SameToken
  <1>3. Fresh'
    BY <1>1 DEF Fresh
  <1>4. CASE stopped
    <2>1. jobs = {}
      BY <1>4 DEF QueueInv, JobsLive
    <2>2. \A w \in Workers : at[w] # "wait"
      BY <1>4 DEF NoLostWakeup, IsSet
    <2>3. gen' \in 1..MaxGen /\ stopped' = FALSE
      BY <1>4, QueueAssumption DEF Reopen, QueueInv, TypeOK
    <2>4. Born'
      BY <1>4, QueueAssumption DEF Reopen, QueueInv, TypeOK, Born, Workers
    <2> QED BY <1>1, <1>2, <1>3, <2>1, <2>2, <2>3, <2>4 DEF Claims, JobsLive, NoLostWakeup
  <1>5. CASE ~stopped
    <2>1. UNCHANGED event
      BY <1>5 DEF Reopen
    <2>2. JobsLive' /\ NoLostWakeup'
      BY <1>1, <2>1 DEF QueueInv, JobsLive, NoLostWakeup, IsSet, Unclaimed, event
    <2>3. gen' \in 1..MaxGen /\ stopped' \in BOOLEAN
      BY <2>1 DEF event, QueueInv, TypeOK
    <2> QED BY <1>2, <1>3, <2>1, <2>2, <2>3 DEF Claims, Born, event
  <1> QED BY <1>4, <1>5

LEMMA OpensQueue ==
    ASSUME Inv, Start \/ (\E t \in Tasks : BatchOpens(t))
    PROVE  Inv'
  <1> USE DEF Inv
  <1>1. Reopen /\ UNCHANGED <<jobGen, inFlight, table, ready, token, at, job, key, own, carried,
                              account, deaths>>
    BY DEF Start, BatchOpens, queue, worker, task
  <1>2. /\ made' \in [Tasks -> {"new", "asked", "saved", "lock", "flow", "ended", "enqueue", "queued", "done"}]
        /\ \A t \in Tasks : made'[t] \notin {"queued", "done"} => made[t] \notin {"queued", "done"}
    BY DEF Start, BatchOpens, Made, task, QueueInv, TypeOK
  <1>3. Claims' /\ gen' \in 1..MaxGen /\ stopped' \in BOOLEAN
    BY <1>1, <1>2, Reopens
  <1>4. TypeOK'
    BY <1>1, <1>2, <1>3 DEF QueueInv, TypeOK, table
  <1>5. JobsShown' /\ CutGone'
    BY <1>1 DEF JobsShown, CutGone, jobs, table
  <1> QED BY <1>3, <1>4, <1>5 DEF Claims, QueueInv

\* A worker looks for work: it ends, waits when there is none, or claims a job
\* nobody has.
LEMMA ClaimMoves ==
    ASSUME Inv, NEW w \in Workers, Claim(w)
    PROVE  Inv'
  <1> USE DEF Inv
  <1>1. jobs' = jobs /\ UNCHANGED <<event, jobGen, table, ready, token, key, task, deaths, account>>
    BY DEF Claim, jobs
  <1>2. at[w] = "loop"
    BY DEF Claim
  <1>3. \A v \in Workers : v # w => at'[v] = at[v] /\ job'[v] = job[v]
    BY DEF Claim, Sleep, Goto, QueueInv, TypeOK
  <1>4. JobsShown' /\ CutGone'
    BY <1>1, <1>2, <1>3 DEF JobsShown, CutGone, table
  <1>5. JobsLive' /\ OneJobPerToken'
    BY <1>1 DEF QueueInv, JobsLive, OneJobPerToken, SameToken, task, event
  <1>b. Born'
    BY <1>1, <1>2, <1>3 DEF Born, event
  <1>6. CASE /\ at' = [at EXCEPT ![w] = "off"] \/ Sleep(w)
             /\ UNCHANGED <<inFlight, job>>
    <2>1. at'[w] \in {"off", "wait"} /\ (at'[w] = "wait" => ~IsSet(w[1]) /\ Unclaimed = {})
      BY <1>6 DEF Sleep, Goto, QueueInv, TypeOK
    <2>2. \A v \in Workers : at'[v] \in Busy <=> at[v] \in Busy
      BY <1>2, <1>3, <2>1 DEF Busy
    <2>3. ClaimsExact'
      BY <1>1, <1>6, <2>2 DEF QueueInv, ClaimsExact
    <2>4. Fresh'
      BY <1>1, <1>6, <2>2 DEF Fresh, task
    <2>5. NoLostWakeup'
      BY <1>1, <1>3, <1>6, <2>1 DEF NoLostWakeup, IsSet, Unclaimed, event
    <2>6. TypeOK'
      <3>1. at' \in [Workers -> Busy \cup {"off", "loop", "wait"}]
        BY <1>6 DEF Sleep, Goto, QueueInv, TypeOK
      <3> QED BY <1>1, <1>6, <3>1 DEF QueueInv, TypeOK, table, task, event
    <2> QED BY <1>4, <1>5, <1>b, <2>3, <2>4, <2>5, <2>6 DEF QueueInv
  <1>7. ASSUME NEW t \in Unclaimed, inFlight' = inFlight \cup {t},
               job' = [job EXCEPT ![w] = t], Goto(w, "begin")
        PROVE  Inv'
    <2>1. t \in Tasks /\ t \in jobs /\ t \notin inFlight
      BY <1>7 DEF Unclaimed, jobs
    <2>2. at'[w] = "begin" /\ job'[w] = t /\ \A v \in Workers : v # w => job'[v] = job[v]
      BY <1>7 DEF Goto, QueueInv, TypeOK
    <2>3. \A v \in Workers : at[v] \in Busy => job[v] # t
      BY <2>1 DEF QueueInv, ClaimsExact
    <2>4. at[w] \notin Busy /\ at'[w] \in Busy
      BY <1>2, <2>2 DEF Busy
    <2>5. ClaimsExact'
      <3>1. \A v \in Workers : at'[v] \in Busy => job'[v] \in Tasks
        BY <1>3, <2>1, <2>2 DEF QueueInv, ClaimsExact
      <3>2. \A u, v \in Workers : at'[u] \in Busy /\ at'[v] \in Busy /\ job'[u] = job'[v] => u = v
        BY <1>3, <2>2, <2>3 DEF QueueInv, ClaimsExact
      <3>3. \A u \in inFlight' : u \in jobs' /\ \E v \in Workers : at'[v] \in Busy /\ job'[v] = u
        <4>1. SUFFICES ASSUME NEW u \in inFlight
                       PROVE  u \in jobs' /\ \E v \in Workers : at'[v] \in Busy /\ job'[v] = u
          BY <1>1, <1>7, <2>1, <2>2, <2>4
        <4>2. PICK v \in Workers : at[v] \in Busy /\ job[v] = u
          BY DEF QueueInv, ClaimsExact
        <4>3. v # w
          BY <4>2, <2>4
        <4> QED BY <1>1, <1>3, <2>2, <4>2, <4>3 DEF QueueInv, ClaimsExact
      <3>4. \A v \in Workers : at'[v] \in Busy /\ job'[v] \in jobs' => job'[v] \in inFlight'
        BY <1>1, <1>3, <1>7, <2>2 DEF QueueInv, ClaimsExact
      <3> QED BY <3>1, <3>2, <3>3, <3>4 DEF ClaimsExact
    <2>6. Fresh'
      BY <1>1, <1>3, <2>1, <2>2 DEF Fresh, task
    <2>7. NoLostWakeup'
      BY <1>1, <1>3, <1>7, <2>2 DEF NoLostWakeup, IsSet, Unclaimed, event
    <2>8. TypeOK'
      <3>1. at' \in [Workers -> Busy \cup {"off", "loop", "wait"}]
        BY <1>7 DEF Goto, QueueInv, TypeOK, Busy
      <3>2. job' \in [Workers -> Tasks \cup {NoTask}] /\ inFlight' \in SUBSET Tasks
        BY <1>7, <2>1 DEF QueueInv, TypeOK
      <3> QED BY <1>1, <3>1, <3>2 DEF QueueInv, TypeOK, table, task, event
    <2> QED BY <1>4, <1>5, <1>b, <2>5, <2>6, <2>7, <2>8 DEF QueueInv
  <1>8. CASE \E i \in DOMAIN order :
               /\ IsNext(i)
               /\ inFlight' = inFlight \cup {order[i]}
               /\ job' = [job EXCEPT ![w] = order[i]]
               /\ Goto(w, "begin")
    BY <1>7, <1>8 DEF IsNext
  <1> QED BY <1>6, <1>8 DEF Claim, Sleep, Goto

\* Waking the sleepers of the generation leaves every worker with a job alone.
LEMMA WakingIsHarmless ==
    ASSUME TypeOK, NEW f \in [Workers -> Busy \cup {"off", "loop", "wait"}]
    PROVE  /\ Woken(f) \in [Workers -> Busy \cup {"off", "loop", "wait"}]
           /\ \A v \in Workers : f[v] # "wait" => Woken(f)[v] = f[v]
           /\ \A v \in Workers : Woken(f)[v] \in Busy <=> f[v] \in Busy
           /\ \A v \in Workers : Woken(f)[v] = "wait" => f[v] = "wait" /\ v[1] # gen
  BY DEF Woken, Busy

\* A sleeper belongs to the open generation.
LEMMA Sleepers ==
    ASSUME Inv, NEW w \in Workers, at[w] = "wait"
    PROVE  w[1] = gen
  <1>1. w[1] <= gen /\ ~(w[1] < gen)
    BY DEF Inv, Born, NoLostWakeup, IsSet
  <1>2. gen \in Nat /\ w[1] \in Nat
    <2>1. w \in (1..MaxGen) \X (1..ThreadCap) /\ gen \in 1..MaxGen
      BY DEF Workers, Inv, QueueInv, TypeOK
    <2>2. w[1] \in 1..MaxGen
      BY <2>1
    <2> QED BY <2>1, <2>2
  <1> QED BY <1>1, <1>2

LEMMA QueueTaskMoves ==
    ASSUME Inv, NEW t \in Tasks, QueueTask(t)
    PROVE  Inv'
  <1> USE DEF Inv
  <1>1. made[t] = "enqueue" /\ UNCHANGED <<event, ready, token, job, key, own, carried, deaths, account>>
    BY DEF QueueTask
  <1>2. t \notin jobs /\ \A w \in Workers : at[w] \in Busy => job[w] # t
    BY <1>1 DEF Fresh
  <1>3. made' \in [Tasks -> {"new", "asked", "saved", "lock", "flow", "ended", "enqueue", "queued", "done"}]
        /\ \A u \in Tasks : made'[u] \notin {"queued", "done"} => u # t /\ made[u] \notin {"queued", "done"}
    BY DEF QueueTask, Made, QueueInv, TypeOK
  <1>4. CASE ~Accepted(t)
    <2>1. UNCHANGED <<jobGen, inFlight, table, at>> /\ jobs' = jobs
      BY <1>4 DEF QueueTask, Enqueue, queue, jobs
    <2>2. TypeOK'
      BY <1>1, <1>3, <2>1 DEF QueueInv, TypeOK, table, event
    <2>3. ClaimsExact' /\ JobsLive' /\ OneJobPerToken' /\ JobsShown' /\ CutGone'
      BY <1>1, <2>1 DEF QueueInv, ClaimsExact, JobsLive, OneJobPerToken, SameToken, JobsShown,
           CutGone, table, event
    <2>4. NoLostWakeup'
      BY <1>1, <2>1 DEF NoLostWakeup, IsSet, Unclaimed, event
    <2>5. Fresh'
      BY <1>1, <1>3, <2>1 DEF Fresh
    <2> QED BY <1>1, <2>1, <2>2, <2>3, <2>4, <2>5 DEF QueueInv, Born, event
  <1>5. CASE Accepted(t)
    <2>1. /\ jobGen' = [jobGen EXCEPT ![t] = gen]
          /\ inFlight' = inFlight \ {t}
          /\ Row(t, "active")
      BY <1>5 DEF QueueTask, Enqueue
    <2>17. /\ row' \in [Tasks -> {"none", "active", "ended", "cancelled"}]
           /\ cut' \in SUBSET Tasks /\ CutGone' /\ Visible(t)'
           /\ \A u \in Tasks : Visible(u) => Visible(u)'
      BY <2>1, RowKept
    <2>2. PICK new \in SUBSET Workers :
             /\ Staffed(new)
             /\ at' = Woken([w \in Workers |-> IF w \in new THEN "loop" ELSE at[w]])
      BY <1>5 DEF QueueTask, Enqueue
    <2>3. \A w \in new : w \in Workers /\ at[w] = "off"
      BY <2>2 DEF Staffed
    <2> DEFINE f == [w \in Workers |-> IF w \in new THEN "loop" ELSE at[w]]
    <2>4. f \in [Workers -> Busy \cup {"off", "loop", "wait"}]
      BY DEF QueueInv, TypeOK
    <2>5. /\ at' \in [Workers -> Busy \cup {"off", "loop", "wait"}]
          /\ \A v \in Workers : f[v] # "wait" => at'[v] = f[v]
          /\ \A v \in Workers : at'[v] \in Busy <=> f[v] \in Busy
          /\ \A v \in Workers : at'[v] = "wait" => f[v] = "wait" /\ v[1] # gen
      BY <2>2, <2>4, WakingIsHarmless DEF QueueInv
    <2>6. \A v \in Workers : at'[v] \in Busy <=> at[v] \in Busy
      BY <2>3, <2>5 DEF Busy
    <2>7. \A v \in Workers : at'[v] # "wait"
      BY <2>3, <2>5, Sleepers
    <2>8. jobs' = jobs \cup {t} /\ t \in jobs'
      BY <2>1, QueueAssumption DEF jobs, QueueInv, TypeOK
    <2>9. TypeOK'
      <3>1. jobGen' \in [Tasks -> 0..MaxGen]
        BY <2>1, QueueAssumption DEF QueueInv, TypeOK
      <3> QED BY <1>1, <1>3, <2>1, <2>5, <2>17, <3>1 DEF QueueInv, TypeOK, event
    <2>10. ClaimsExact'
      <3>1. \A w \in Workers : at'[w] \in Busy => job'[w] \in Tasks
        BY <1>1, <2>6 DEF QueueInv, ClaimsExact
      <3>2. \A v, w \in Workers : at'[v] \in Busy /\ at'[w] \in Busy /\ job'[v] = job'[w] => v = w
        BY <1>1, <2>6 DEF QueueInv, ClaimsExact
      <3>3. \A u \in inFlight' : u \in jobs' /\ \E w \in Workers : at'[w] \in Busy /\ job'[w] = u
        BY <1>1, <2>1, <2>6, <2>8 DEF QueueInv, ClaimsExact
      <3>4. \A w \in Workers : at'[w] \in Busy /\ job'[w] \in jobs' => job'[w] \in inFlight'
        BY <1>1, <1>2, <2>1, <2>6, <2>8 DEF QueueInv, ClaimsExact
      <3> QED BY <3>1, <3>2, <3>3, <3>4 DEF ClaimsExact
    <2>11. JobsLive'
      BY <1>1, <1>5, <2>1, <2>8 DEF Accepted, QueueInv, JobsLive, event, TypeOK, jobs
    <2>12. OneJobPerToken'
      <3>1. \A u \in jobs : ~SameToken(t, u)
        BY <1>5 DEF Accepted, QueueInv, JobsLive
      <3> QED BY <1>1, <2>8, <3>1 DEF QueueInv, OneJobPerToken, SameToken
    <2>13. NoLostWakeup'
      BY <2>7 DEF NoLostWakeup
    <2>14. JobsShown'
      <3>1. \A v \in Workers : at[v] = "remove" => at'[v] = "remove"
        BY <2>3, <2>5
      <3> QED BY <1>1, <2>8, <2>17, <3>1 DEF JobsShown, Visible, jobs
    <2>15. Fresh'
      BY <1>1, <1>3, <2>6, <2>8 DEF Fresh
    <2>16. Born'
      <3>1. \A v \in new : v[1] = gen
        BY <2>2 DEF Staffed
      <3>2. \A v \in Workers : at'[v] # "off" => v \in new \/ at[v] # "off"
        BY <2>5
      <3>3. gen \in Nat /\ gen' = gen
        BY <1>1, QueueAssumption DEF QueueInv, TypeOK, event
      <3> QED BY <3>1, <3>2, <3>3 DEF Born
    <2> QED BY <2>9, <2>10, <2>11, <2>12, <2>13, <2>14, <2>15, <2>16, <2>17 DEF QueueInv
  <1> QED BY <1>4, <1>5

\* Stopping empties the queue: every job belongs to the open generation.
LEMMA CancelMoves == ASSUME Inv, Cancel PROVE Inv'
  <1> USE DEF Inv
  <1> DEFINE cancelled == {t \in jobs : jobGen[t] = gen}
  <1>1. cancelled = jobs
    BY DEF QueueInv, JobsLive
  <1>2. jobs' = {}
    BY <1>1 DEF Cancel, jobs, QueueInv, TypeOK
  <1>3. inFlight' = {}
    BY <1>1 DEF Cancel, QueueInv, ClaimsExact
  <1>4. /\ at' \in [Workers -> Busy \cup {"off", "loop", "wait"}]
        /\ \A v \in Workers : at'[v] \in Busy <=> at[v] \in Busy
        /\ \A v \in Workers : at'[v] # "wait"
        /\ \A v \in Workers : at[v] = "off" => at'[v] = "off"
    BY WakingIsHarmless, Sleepers DEF Cancel, QueueInv, TypeOK
  <1>5. UNCHANGED <<gen, ready, token, job, key, made, own, carried, deaths, account>> /\ stopped' = TRUE
    BY DEF Cancel, task
  <1>11. /\ row' \in [Tasks -> {"none", "active", "ended", "cancelled"}]
         /\ cut' \in SUBSET Tasks /\ CutGone'
    <2>1. cancelled \in SUBSET Tasks
      BY DEF jobs
    <2>2. Rows(cancelled, "cancelled")
      BY DEF Cancel
    <2> QED BY <2>1, <2>2, RowsKept
  <1>6. TypeOK'
    <2>1. jobGen' \in [Tasks -> 0..MaxGen]
      BY QueueAssumption DEF Cancel, QueueInv, TypeOK
    <2> QED BY <1>3, <1>4, <1>5, <1>11, <2>1 DEF QueueInv, TypeOK
  <1>7. ClaimsExact'
    BY <1>2, <1>3, <1>4, <1>5 DEF QueueInv, ClaimsExact
  <1>8. JobsLive' /\ OneJobPerToken' /\ JobsShown'
    BY <1>2 DEF JobsLive, OneJobPerToken, JobsShown
  <1>9. NoLostWakeup'
    BY <1>4 DEF NoLostWakeup
  <1>10. Fresh'
    BY <1>2, <1>4, <1>5 DEF Fresh
  <1> QED BY <1>4, <1>5, <1>6, <1>7, <1>8, <1>9, <1>10, <1>11 DEF QueueInv, Born

\* These do not touch claims, jobs or workers.
LEMMA OthersMove ==
    ASSUME Inv, \/ ClearHistory
                \/ \E t \in Tasks : \/ RetryDue(t) \/ RegisterProgress(t)
                                    \/ Rotate(account[t]) \/ DirectExtract(account[t])
    PROVE  Inv'
  <1> USE DEF Inv
  <1>1. UNCHANGED <<event, jobGen, inFlight, worker, task, account, deaths>>
    BY DEF ClearHistory, RetryDue, RegisterProgress, Rotate, DirectExtract, queue, event
  <1>2. jobs' = jobs
    BY <1>1 DEF jobs
  <1>3. \A t \in Tasks : account[t] \in Accounts
    BY QueueAssumption DEF QueueInv, TypeOK
  <1>4. /\ row' \in [Tasks -> {"none", "active", "ended", "cancelled"}]
        /\ cut' \in SUBSET Tasks /\ CutGone'
        /\ \A t \in Tasks : Visible(t) => Visible(t)'
    <2>1. CASE ClearHistory
      BY <2>1 DEF ClearHistory, QueueInv, TypeOK, CutGone, Visible
    <2>2. ASSUME NEW t \in Tasks, RegisterProgress(t)
          PROVE  <1>4!:
      BY <2>2, RowKept DEF RegisterProgress
    <2>3. CASE UNCHANGED table
      BY <2>3, TableKept
    <2> QED BY <2>1, <2>2, <2>3 DEF RetryDue, Rotate, DirectExtract
  <1>5. ready' \in SUBSET Accounts
    BY <1>3 DEF ClearHistory, RetryDue, RegisterProgress, Rotate, DirectExtract, Stored, NotStored,
                Marked, QueueInv, TypeOK
  <1>6. token' \in [Accounts -> Nat]
    BY <1>3 DEF ClearHistory, RetryDue, RegisterProgress, Rotate, DirectExtract, QueueInv, TypeOK
  <1>7. TypeOK'
    BY <1>1, <1>4, <1>5, <1>6 DEF QueueInv, TypeOK, event, worker, task
  <1>8. ClaimsExact' /\ JobsLive' /\ OneJobPerToken'
    BY <1>1, <1>2
       DEF QueueInv, ClaimsExact, JobsLive, OneJobPerToken, SameToken, event, worker, task
  <1>9. NoLostWakeup'
    BY <1>1, <1>2 DEF NoLostWakeup, IsSet, Unclaimed, event, worker
  <1>10. JobsShown'
    BY <1>1, <1>2, <1>4 DEF JobsShown, Visible, jobs, worker
  <1>11. Fresh'
    BY <1>1, <1>2 DEF Fresh, worker, task
  <1> QED BY <1>1, <1>4, <1>7, <1>8, <1>9, <1>10, <1>11 DEF QueueInv, Born, event, worker

\* A worker takes its job out of the queue, or gives the claim back.
LEMMA GivesBack ==
    ASSUME Inv, NEW w \in Workers, RemoveJob(w) \/ Release(w)
    PROVE  Inv'
  <1> USE DEF Inv
  <1>0. at[w] \in Busy /\ at[w] # "wait" /\ job[w] \in Tasks
    BY DEF RemoveJob, Release, Busy, QueueInv, ClaimsExact
  <1>1. UNCHANGED <<event, table, ready, token, key, task, deaths, account>>
    BY DEF RemoveJob, Release
  <1>2. inFlight' = inFlight \ {job[w]}
    BY DEF RemoveJob, Release
  <1>3. job' \in [Workers -> Tasks \cup {NoTask}] /\ \A v \in Workers : v # w => job'[v] = job[v]
    BY DEF RemoveJob, Release, QueueInv, TypeOK
  <1>4. /\ Woken(at) \in [Workers -> Busy \cup {"off", "loop", "wait"}]
        /\ \A v \in Workers : at[v] # "wait" => Woken(at)[v] = at[v]
        /\ \A v \in Workers : Woken(at)[v] \in Busy <=> at[v] \in Busy
        /\ \A v \in Workers : Woken(at)[v] # "wait"
    BY WakingIsHarmless, Sleepers DEF QueueInv, TypeOK
  <1>5. /\ at' \in [Workers -> Busy \cup {"off", "loop", "wait"}]
        /\ at'[w] \in {"off", "loop"}
        /\ \A v \in Workers : v # w => (at'[v] \in Busy <=> at[v] \in Busy)
        /\ \A v \in Workers : v # w /\ at[v] # "wait" => at'[v] = at[v]
        /\ \A v \in Workers : at'[v] = "wait" => at[v] = "wait" /\ job[w] \notin jobs /\ Release(w)
    <2>1. CASE RemoveJob(w)
      BY <1>4, <2>1 DEF RemoveJob
    <2>2. CASE Release(w)
      <3>1. CASE job[w] \in jobs
        BY <1>4, <2>2, <3>1 DEF Release
      <3>2. CASE job[w] \notin jobs
        BY <2>2, <3>2 DEF Release, QueueInv, TypeOK
      <3> QED BY <3>1, <3>2
    <2> QED BY <2>1, <2>2
  <1>6. at'[w] \notin Busy
    BY <1>5 DEF Busy
  <1>7. /\ jobGen' \in [Tasks -> 0..MaxGen]
        /\ \A t \in Tasks : t # job[w] => jobGen'[t] = jobGen[t]
        /\ \A t \in jobs' : t \in jobs
        /\ \A t \in jobs : t # job[w] => t \in jobs'
    BY <1>0, QueueAssumption DEF RemoveJob, Release, jobs, QueueInv, TypeOK
  <1>8. \A v \in Workers : at[v] \in Busy /\ job[v] = job[w] => v = w
    BY <1>0 DEF QueueInv, ClaimsExact
  <1>9. TypeOK'
    BY <1>1, <1>2, <1>3, <1>5, <1>7 DEF QueueInv, TypeOK, table, task, event
  <1>10. ClaimsExact'
    <2>1. \A v \in Workers : at'[v] \in Busy => v # w /\ at[v] \in Busy /\ job'[v] = job[v]
      BY <1>3, <1>5, <1>6
    <2>2. \A t \in inFlight' : t \in jobs' /\ \E v \in Workers : at'[v] \in Busy /\ job'[v] = t
      <3>1. SUFFICES ASSUME NEW t \in inFlight, t # job[w]
                     PROVE  t \in jobs' /\ \E v \in Workers : at'[v] \in Busy /\ job'[v] = t
        BY <1>2
      <3>2. PICK v \in Workers : at[v] \in Busy /\ job[v] = t
        BY DEF QueueInv, ClaimsExact
      <3>3. v # w
        BY <3>1, <3>2
      <3> QED BY <1>3, <1>5, <1>7, <3>1, <3>2, <3>3 DEF QueueInv, ClaimsExact
    <2> QED BY <1>2, <1>7, <1>8, <2>1, <2>2 DEF QueueInv, ClaimsExact
  <1>11. JobsLive' /\ OneJobPerToken'
    <2>1. \A t \in jobs' : t \in Tasks /\ jobGen'[t] = jobGen[t]
      BY DEF RemoveJob, Release, jobs, QueueInv, TypeOK
    <2> QED BY <1>1, <1>7, <2>1 DEF QueueInv, JobsLive, OneJobPerToken, SameToken, task, event
  <1>12. NoLostWakeup'
    <2>1. SUFFICES ASSUME NEW v \in Workers, at'[v] = "wait"
                   PROVE  (~IsSet(v[1]) /\ Unclaimed = {})'
      BY DEF NoLostWakeup
    <2>2. at[v] = "wait" /\ job[w] \notin jobs /\ UNCHANGED jobGen
      BY <1>5, <2>1 DEF Release
    <2>3. inFlight' = inFlight
      BY <1>2, <2>2 DEF QueueInv, ClaimsExact
    <2> QED BY <1>1, <2>2, <2>3 DEF NoLostWakeup, IsSet, Unclaimed, jobs, event
  <1>13. JobsShown'
    <2>1. SUFFICES ASSUME NEW t \in jobs'
                   PROVE  \/ row'[t] = "active" \/ t \in cut'
                          \/ \E v \in Workers : at'[v] = "remove" /\ job'[v] = t
      BY DEF JobsShown
    <2>2. t \in jobs
      BY <1>7
    <2>3. CASE row[t] = "active" \/ t \in cut
      BY <1>1, <2>3 DEF table
    <2>4. ASSUME NEW v \in Workers, at[v] = "remove", job[v] = t
          PROVE  \E u \in Workers : at'[u] = "remove" /\ job'[u] = t
      <3>1. v # w
        <4>1. CASE RemoveJob(w)
          BY <1>0, <2>4, <4>1 DEF RemoveJob, jobs, QueueInv, TypeOK
        <4>2. CASE Release(w)
          BY <2>4, <4>2 DEF Release
        <4> QED BY <4>1, <4>2
      <3> QED BY <1>3, <1>5, <2>4, <3>1
    <2> QED BY <2>2, <2>3, <2>4 DEF JobsShown
  <1>14. Fresh'
    BY <1>1, <1>3, <1>5, <1>6, <1>7 DEF Fresh, task
  <1>15. Born'
    BY <1>0, <1>1, <1>5 DEF Born, event, Busy
  <1>16. CutGone'
    BY <1>1 DEF CutGone, table
  <1> QED BY <1>16, <1>9, <1>10, <1>11, <1>12, <1>13, <1>14, <1>15 DEF QueueInv

LEMMA StepInv == Inv /\ [Next]_vars => Inv'
  <1> SUFFICES ASSUME Inv, [Next]_vars PROVE Inv'
    OBVIOUS
  <1>1. CASE \E w \in Workers : Work(w) \/ EnterFlow(w) \/ FlowEnds(w) \/ Progress(w) \/ MarkRaises(w)
    BY <1>1, ClaimMoves, WorkersMove, GivesBack DEF Work, Attempt
  <1>2. CASE \E t \in Tasks : RetryDue(t) \/ RegisterSaves(t) \/ RegisterProgress(t) \/ BatchOpens(t)
                            \/ Produce(t) \/ Rotate(account[t])
    BY <1>2, OthersMove, ProducersMove, OpensQueue, QueueTaskMoves DEF Produce
  <1>3. CASE Operator
    BY <1>3, OpensQueue, CancelMoves, OthersMove DEF Operator
  <1>4. CASE UNCHANGED vars
    <2>1. UNCHANGED <<event, jobGen, inFlight, table, ready, token, worker, task, account, deaths>>
      BY <1>4 DEF vars, queue
    <2> QED BY <2>1
          DEF Inv, QueueInv, TypeOK, ClaimsExact, JobsLive, OneJobPerToken, SameToken, NoLostWakeup,
              JobsShown, CutGone, Fresh, Born, jobs, Unclaimed, IsSet, event, table, worker, task
  <1> QED BY <1>1, <1>2, <1>3, <1>4 DEF Next

-----------------------------------------------------------------------------
\* The main result: whatever the interleaving of workers, registrations,
\* batches, rotations, stops and reopenings, claims are exclusive, jobs belong to
\* the open generation, and there is at most one for an access token.  An account
\* whose token is rotated while its job waits may have a second one.
THEOREM ClaimsExclusive == Spec => []QueueInv
  <1>1. Inv => QueueInv
    BY DEF Inv
  <1> QED BY InitInv, StepInv, <1>1, PTL DEF Spec

\* No worker sleeps while there is a job for it or its queue is stopped.
THEOREM WakeupsKept == Spec => []NoLostWakeup
  <1>1. Inv => NoLostWakeup
    BY DEF Inv
  <1> QED BY InitInv, StepInv, <1>1, PTL DEF Spec

\* The row of a queued job is active until its worker has shown how it ended,
\* unless the table has lost it to later rows.
THEOREM QueuedJobsShown == Spec => []JobsShown
  <1>1. Inv => JobsShown
    BY DEF Inv
  <1> QED BY InitInv, StepInv, <1>1, PTL DEF Spec

\* No step takes a link away.
THEOREM LinksKept == Spec => LinkKept
  <1>1. [Next]_vars => [ready \subseteq ready']_vars
    BY DEF Next, Work, Attempt, Produce, Operator, Claim, Begin, ShowRunning, Report, ShowRetrying,
           ShowEnd, RemoveJob, Release, EnterFlow, FlowEnds, Progress, MarkRaises, RetryDue,
           RegisterSaves, RegisterResolves, RegisterProgress, Rotate, BatchOpens, RegisterEnters, RegisterFlowEnds, RegisterShowsEnd,
           BatchChecks, QueueTask, RegisterShows, Start, Cancel, ClearHistory, DirectExtract,
           Stored, NotStored, Marked
  <1> QED BY <1>1, PTL DEF Spec, LinkKept
=============================================================================
