------------------------ MODULE ProxyClearance_proofs ------------------------
(***************************************************************************)
(* Proofs about ProxyClearance: nobody waits for an event that will not be  *)
(* set, and fetches of a key are not doubled, for any number of requests    *)
(* and changes of the configuration.                                        *)
(***************************************************************************)
EXTENDS ProxyClearance, TLAPS

Inv == ProxyInv /\ Listed

ProcType ==
    [at : {"idle", "wait", "woken", "solve", "leased", "refresh"},
     key : Keys, on : Procs \cup {"none"}]

\* The directory's tables after a load: some events may be gone.
Tables(table, flights) ==
    /\ table \in [Keys -> {"none", "valid", "invalid"}]
    /\ flights \in [Keys -> Procs \cup {"none"}]
    /\ \A k \in Keys : flights[k] # events[k] => flights[k] = "none" /\ k \in stray'
    /\ stray \subseteq stray' /\ stray' \subseteq Keys

\* What a step on the tables and the tasks keeps.
Flights ==
    /\ bundles' \in [Keys -> {"none", "valid", "invalid"}]
    /\ events' \in [Keys -> Procs \cup {"none"}]
    /\ proc' \in [Procs -> ProcType]
    /\ EventsLive' /\ NobodyStranded' /\ Listed'

LEMMA FreeType == AnyKey \in Keys /\ Free \in ProcType
<1>1. <<"direct", Default>> \in Keys
  BY ProxyAssumption DEF Keys, Affinities
<1>2. AnyKey \in Keys
  BY <1>1 DEF AnyKey
<1> QED
  BY <1>2 DEF Free, ProcType

LEMMA ServedType ==
    ASSUME NEW p \in Procs, NEW key \in Keys
    PROVE  Served(p, key) \in ProcType /\ Served(p, key).at \in {"idle", "leased"}
  BY FreeType DEF Served, Free, ProcType

LEMMA Modulo == \A a \in Nat, b \in Nat : b > 0 => a % b \in 0..(b - 1)
  BY Z3

\* The cursor always names a node of the pool.
LEMMA PickedNode ==
    ASSUME NEW c \in Configs, NEW i \in Nat
    PROVE  Pick(c, i) \in Affinities
<1>1. c.nodes \in Seq(Nodes)
  BY ProxyAssumption
<1>2. CASE c.nodes = <<>>
  BY <1>2 DEF Pick, Affinities
<1>3. CASE c.nodes # <<>>
  <2>1. Len(c.nodes) \in Nat /\ Len(c.nodes) > 0
    BY <1>1, <1>3
  <2>2. i % Len(c.nodes) \in 0..(Len(c.nodes) - 1)
    BY <2>1, Modulo
  <2>3. (i % Len(c.nodes)) + 1 \in 1..Len(c.nodes)
    <3> DEFINE m == i % Len(c.nodes)
    <3>1. m \in 0..(Len(c.nodes) - 1)
      BY <2>2
    <3> HIDE DEF m
    <3>2. m + 1 \in 1..Len(c.nodes)
      BY <2>1, <3>1
    <3> QED
      BY <3>2 DEF m
  <2> QED
    BY <1>1, <1>3, <2>3 DEF Pick, Affinities
<1> QED
  BY <1>2, <1>3

\* A load only forgets events, and remembers whose it forgot.
LEMMA LoadTables ==
    ASSUME TypeOK, Load
    PROVE  /\ Tables(LoadedBundles, LoadedEvents)
           /\ cfg' \in Configs /\ file' \in Configs /\ LoadedCursor \in Nat
  BY DEF Tables, Load, LoadedBundles, LoadedEvents, LoadedCursor, TypeOK

\* A step that leaves the events in place.
LEMMA SameTables ==
    ASSUME TypeOK, UNCHANGED stray
    PROVE  Tables(bundles, events)
  BY DEF Tables, TypeOK

-----------------------------------------------------------------------------
(* The flights *)

\* Tasks that were not fetching and neither wait nor fetch now disturb nothing.
LEMMA CalmStep ==
    ASSUME Inv, NEW p \in Procs, NEW next \in ProcType,
           proc[p].at \notin {"solve"}, next.at \notin {"wait", "solve"},
           proc' = [proc EXCEPT ![p] = next],
           NEW table, NEW flights, Tables(table, flights), events' = flights
    PROVE  /\ proc' \in [Procs -> ProcType]
           /\ EventsLive' /\ NobodyStranded' /\ Listed'
<1> USE DEF Inv, ProxyInv, TypeOK, Tables
<1>1. proc' \in [Procs -> ProcType]
  BY DEF ProcType
<1>2. \A q \in Procs : proc'[q].at \in {"wait", "solve"} => q # p /\ proc'[q] = proc[q]
  BY <1>1
<1>3. \A q \in Procs : proc[q].at = "solve" => proc'[q] = proc[q]
  OBVIOUS
<1>4. EventsLive'
  BY <1>3 DEF EventsLive
<1>5. NobodyStranded'
  BY <1>1, <1>2, <1>3, ProxyAssumption DEF NobodyStranded, ProcType
<1>6. Listed'
  BY <1>1, <1>2 DEF Listed, ProcType
<1> QED
  BY <1>1, <1>4, <1>5, <1>6

LEMMA AskHolds ==
    ASSUME Inv, NEW p \in Procs, NEW key \in Keys, proc[p].at \in {"idle", "woken"},
           NEW table, NEW flights, Tables(table, flights), Ask(p, key, table, flights)
    PROVE  Flights
<1> USE DEF Inv, ProxyInv, TypeOK, Tables
<1>1. CASE /\ proc' = [proc EXCEPT ![p] = Served(p, key)]
           /\ bundles' \in [Keys -> {"none", "valid", "invalid"}]
           /\ events' = flights
  <2>1. Served(p, key) \in ProcType /\ Served(p, key).at \notin {"wait", "solve"}
    BY ServedType
  <2> QED
    BY <1>1, <2>1, CalmStep DEF Flights
<1>2. CASE /\ flights[key] # "none" /\ Goes(p, "wait", key, flights[key])
           /\ bundles' = table /\ events' = flights
  <2>1. events[key] = flights[key] /\ flights[key] \in Procs
    BY <1>2
  <2>2. proc[flights[key]].at = "solve" /\ proc[flights[key]].key = key
    BY <2>1, <1>2 DEF EventsLive
  <2>3. proc' \in [Procs -> ProcType]
    BY <1>2, <2>1 DEF Goes, ProcType
  <2>4. \A q \in Procs : proc[q].at = "solve" => proc'[q] = proc[q]
    BY <1>2 DEF Goes
  <2>5. \A q \in Procs : q # p => proc'[q] = proc[q]
    BY <1>2 DEF Goes
  <2>6. proc'[p] = [at |-> "wait", key |-> key, on |-> flights[key]]
    BY <1>2 DEF Goes
  <2>7. EventsLive'
    BY <1>2, <2>4 DEF EventsLive
  <2>8. NobodyStranded'
    <3> SUFFICES ASSUME NEW q \in Procs, proc'[q].at = "wait"
                 PROVE  /\ proc'[q].on \in Procs
                        /\ proc'[proc'[q].on].at = "solve"
                        /\ proc'[proc'[q].on].key = proc'[q].key
      BY DEF NobodyStranded
    <3>1. CASE q = p
      BY <3>1, <2>1, <2>2, <2>4, <2>6
    <3>2. CASE q # p
      <4>1. proc'[q] = proc[q] /\ proc[q].on \in Procs \cup {"none"}
        BY <3>2, <2>5 DEF ProcType
      <4>2. /\ proc[q].on \in Procs
            /\ proc[proc[q].on].at = "solve" /\ proc[proc[q].on].key = proc[q].key
        BY <4>1 DEF NobodyStranded
      <4> QED
        BY <4>1, <4>2, <2>4
    <3> QED
      BY <3>1, <3>2
  <2>9. Listed'
    BY <1>2, <2>3, <2>5, <2>6 DEF Listed, ProcType
  <2> QED
    BY <1>2, <2>3, <2>7, <2>8, <2>9 DEF Flights
<1>3. CASE /\ flights[key] = "none" /\ Goes(p, "solve", key, "none")
           /\ bundles' = table /\ events' = [flights EXCEPT ![key] = p]
  <2>1. proc' \in [Procs -> ProcType]
    BY <1>3 DEF Goes, ProcType
  <2>2. \A q \in Procs : q # p => proc'[q] = proc[q]
    BY <1>3 DEF Goes
  <2>3. proc'[p] = [at |-> "solve", key |-> key, on |-> "none"]
    BY <1>3 DEF Goes
  <2>4. EventsLive'
    BY <1>3, <2>2, <2>3 DEF EventsLive
  <2>5. NobodyStranded'
    BY <1>3, <2>1, <2>2, <2>3 DEF NobodyStranded, ProcType, Goes
  <2>6. Listed'
    <3> SUFFICES ASSUME NEW q \in Procs, proc'[q].at = "solve"
                 PROVE  events'[proc'[q].key] = q \/ proc'[q].key \in stray'
      BY DEF Listed
    <3>1. CASE q = p
      BY <3>1, <1>3, <2>3
    <3>2. CASE q # p
      <4>1. proc'[q] = proc[q] /\ proc[q].key \in Keys
        BY <3>2, <2>2 DEF ProcType
      <4>2. events[proc[q].key] = q \/ proc[q].key \in stray
        BY <4>1 DEF Listed
      <4>3. CASE events[proc[q].key] = q /\ proc[q].key \notin stray'
        <5>1. flights[proc[q].key] = q
          BY <4>1, <4>3
        <5>2. proc[q].key # key
          BY <5>1, <1>3, ProxyAssumption
        <5> QED
          BY <4>1, <5>1, <5>2, <1>3
      <4> QED
        BY <4>1, <4>2, <4>3
    <3> QED
      BY <3>1, <3>2
  <2> QED
    BY <1>3, <2>1, <2>4, <2>5, <2>6 DEF Flights
<1> QED
  BY <1>1, <1>2, <1>3 DEF Ask

LEMMA EnterHolds ==
    ASSUME Inv, NEW p \in Procs, NEW key \in Keys, proc[p].at \in {"idle", "woken"},
           NEW table, NEW flights, Tables(table, flights), Enter(p, key, table, flights)
    PROVE  Flights
<1>1. CASE Ask(p, key, table, flights)
  BY <1>1, AskHolds
<1>2. CASE /\ proc' = [proc EXCEPT ![p] = Served(p, key)]
           /\ bundles' = table /\ events' = flights
  <2>1. Served(p, key) \in ProcType /\ Served(p, key).at \notin {"wait", "solve"}
    BY ServedType
  <2> QED
    BY <1>2, <2>1, CalmStep DEF Flights, Tables
<1> QED
  BY <1>1, <1>2 DEF Enter

\* The end of a fetch wakes those that wait for it, and only those.
LEMMA FinallyHolds ==
    ASSUME Inv, UNCHANGED stray, NEW p \in Procs, proc[p].at = "solve",
           NEW next \in ProcType, next.at \in {"idle", "leased"}, Finally(p, next)
    PROVE  /\ events' \in [Keys -> Procs \cup {"none"}]
           /\ proc' \in [Procs -> ProcType]
           /\ EventsLive' /\ NobodyStranded' /\ Listed'
<1> USE DEF Inv, ProxyInv, TypeOK
<1>1. proc' \in [Procs -> ProcType]
  BY DEF Finally, ProcType
<1>2. events' = [events EXCEPT ![proc[p].key] = "none"] /\ proc[p].key \in Keys
  BY DEF Finally, ProcType
<1>3. \A q \in Procs : q # p /\ proc[q].at # "wait" => proc'[q] = proc[q]
  BY DEF Finally
<1>4. \A q \in Procs : proc'[q].at \in {"wait", "solve"} => q # p /\ proc'[q] = proc[q]
  BY DEF Finally
<1>5. \A q \in Procs : proc'[q].at = "wait" => proc[q].on # p
  BY <1>4 DEF Finally
<1>6. EventsLive'
  BY <1>2, <1>3, ProxyAssumption DEF EventsLive
<1>7. NobodyStranded'
  <2> SUFFICES ASSUME NEW q \in Procs, proc'[q].at = "wait"
               PROVE  /\ proc'[q].on \in Procs
                      /\ proc'[proc'[q].on].at = "solve"
                        /\ proc'[proc'[q].on].key = proc'[q].key
    BY DEF NobodyStranded
  <2>1. proc'[q] = proc[q] /\ proc[q].on # p
    BY <1>4, <1>5
  <2>2. /\ proc[q].on \in Procs
        /\ proc[proc[q].on].at = "solve" /\ proc[proc[q].on].key = proc[q].key
    BY <2>1 DEF NobodyStranded
  <2> QED
    BY <2>1, <2>2, <1>3
<1>8. Listed'
  <2> SUFFICES ASSUME NEW q \in Procs, proc'[q].at = "solve"
               PROVE  events'[proc'[q].key] = q \/ proc'[q].key \in stray'
    BY DEF Listed
  <2>1. q # p /\ proc'[q] = proc[q] /\ proc[q].key \in Keys
    BY <1>4 DEF ProcType
  <2>2. events[proc[q].key] = q \/ proc[q].key \in stray
    BY <2>1 DEF Listed
  <2>3. events[proc[p].key] = p \/ proc[p].key \in stray
    BY DEF Listed
  <2>4. CASE proc[q].key = proc[p].key
    BY <2>1, <2>2, <2>3, <2>4
  <2>5. CASE proc[q].key # proc[p].key
    BY <2>1, <2>2, <2>5, <1>2
  <2> QED
    BY <2>4, <2>5
<1> QED
  BY <1>1, <1>2, <1>6, <1>7, <1>8

-----------------------------------------------------------------------------
(* The steps *)

LEMMA AcquireHolds ==
    ASSUME Inv, NEW c \in Callers, NEW host \in Hosts, Acquire(c, host)
    PROVE  Inv'
<1> DEFINE key == <<Pick(file, LoadedCursor), host>>
<1>1. TypeOK /\ c \in Procs
  BY DEF Inv, ProxyInv, Procs
<1>2. /\ Tables(LoadedBundles, LoadedEvents)
      /\ cfg' \in Configs /\ file' \in Configs /\ LoadedCursor \in Nat
  BY <1>1, LoadTables DEF Acquire
<1>3. key \in Keys
  BY <1>1, <1>2, PickedNode DEF Keys, TypeOK
<1>4. Flights
  BY <1>1, <1>2, <1>3, EnterHolds DEF Acquire
<1>5. /\ phase' = phase /\ todo' = todo /\ changes' = changes /\ cursor' \in Nat
      /\ calls' \in 0..MaxCalls
  BY <1>1, <1>2, ProxyAssumption DEF Acquire, Load, sched, TypeOK
<1> QED
  BY <1>1, <1>2, <1>4, <1>5 DEF Inv, ProxyInv, TypeOK, Flights, Tables, ProcType

LEMMA RetryHolds ==
    ASSUME Inv, NEW p \in Procs, Retry(p)
    PROVE  Inv'
<1>1. TypeOK /\ proc[p].key \in Keys
  BY DEF Inv, ProxyInv, TypeOK
<1>2. Tables(bundles, events)
  BY <1>1, SameTables DEF Retry
<1>3. Flights
  BY <1>1, <1>2, AskHolds DEF Retry
<1> QED
  BY <1>1, <1>3 DEF Inv, ProxyInv, TypeOK, Flights, Retry, ProcType, sched

LEMMA SolvedHolds ==
    ASSUME Inv, NEW p \in Procs, Solved(p)
    PROVE  Inv'
<1> USE DEF Inv, ProxyInv
<1>1. TypeOK /\ proc[p].key \in Keys
  BY DEF TypeOK
<1>2. Served(p, proc[p].key) \in ProcType /\ Served(p, proc[p].key).at \in {"idle", "leased"}
  BY <1>1, ServedType
<1>3. /\ events' \in [Keys -> Procs \cup {"none"}]
      /\ proc' \in [Procs -> ProcType]
      /\ EventsLive' /\ NobodyStranded' /\ Listed'
  BY <1>2, FinallyHolds DEF Solved
<1>4. bundles' \in [Keys -> {"none", "valid", "invalid"}]
  BY <1>1 DEF Solved, TypeOK
<1> QED
  BY <1>1, <1>3, <1>4 DEF TypeOK, Solved, ProcType, sched

LEMMA CancelHolds ==
    ASSUME Inv, NEW c \in Callers, Cancel(c)
    PROVE  Inv'
<1> USE DEF Inv, ProxyInv
<1>1. TypeOK /\ c \in Procs /\ UNCHANGED stray
  BY DEF Procs, Cancel
<1>2. Free \in ProcType /\ Free.at = "idle"
  BY FreeType DEF Free
<1>3. /\ events' \in [Keys -> Procs \cup {"none"}]
      /\ proc' \in [Procs -> ProcType]
      /\ EventsLive' /\ NobodyStranded' /\ Listed'
  <2>1. CASE proc[c].at = "solve" /\ Finally(c, Free)
    BY <1>1, <1>2, <2>1, FinallyHolds
  <2>2. CASE /\ proc[c].at \in {"wait", "woken"}
             /\ proc' = [proc EXCEPT ![c] = Free] /\ UNCHANGED events
    <3>1. Tables(bundles, events)
      BY <1>1, SameTables
    <3> QED
      BY <1>1, <1>2, <2>2, <3>1, CalmStep DEF TypeOK
  <2> QED
    BY <2>1, <2>2 DEF Cancel
<1> QED
  BY <1>1, <1>3 DEF TypeOK, Cancel, ProcType, sched

LEMMA FeedbackHolds ==
    ASSUME Inv, NEW c \in Callers, NEW kind \in {"ok", "challenge", "failure"}, Feedback(c, kind)
    PROVE  Inv'
<1> USE DEF Inv, ProxyInv
<1>1. TypeOK /\ c \in Procs /\ proc[c].key \in Keys
  BY DEF Procs, TypeOK
<1>2. Free \in ProcType /\ Free.at = "idle"
  BY FreeType DEF Free
<1>3. Tables(bundles, events)
  BY <1>1, SameTables DEF Feedback
<1>4. proc' \in [Procs -> ProcType] /\ EventsLive' /\ NobodyStranded' /\ Listed'
  BY <1>1, <1>2, <1>3, CalmStep DEF Feedback
<1>5. bundles' \in [Keys -> {"none", "valid", "invalid"}] /\ cursor' \in Nat
  BY <1>1 DEF Feedback, TypeOK
<1> QED
  BY <1>1, <1>4, <1>5 DEF TypeOK, Feedback, ProcType, sched

LEMMA BeginHolds ==
    ASSUME Inv, Begin
    PROVE  Inv'
<1> USE DEF Inv, ProxyInv
<1>1. TypeOK
  OBVIOUS
<1>2. /\ Tables(LoadedBundles, LoadedEvents)
      /\ cfg' \in Configs /\ file' \in Configs /\ LoadedCursor \in Nat
  BY <1>1, LoadTables DEF Begin
<1>3. \A p \in Procs : proc[p].at = "solve" =>
        LoadedEvents[proc[p].key] = p \/ proc[p].key \in stray'
  BY <1>1, <1>2 DEF Listed, Tables, TypeOK
<1>4. EventsLive' /\ NobodyStranded' /\ Listed'
  BY <1>1, <1>2, <1>3 DEF Begin, EventsLive, NobodyStranded, Listed, Tables, TypeOK
<1>5. phase' \in {"start", "warm", "sleep", "refresh"} /\ todo' \subseteq Keys
  <2>1. BaseKeys(file) \subseteq Keys
    <3>1. file.nodes \in Seq(Nodes)
      BY <1>1, ProxyAssumption DEF TypeOK
    <3>2. Reached(file) \subseteq Affinities
      BY <3>1 DEF Reached, Affinities, ToSet
    <3> QED
      BY <3>2, ProxyAssumption DEF BaseKeys, Keys
  <2> QED
    BY <2>1 DEF Begin
<1> QED
  BY <1>1, <1>2, <1>4, <1>5 DEF TypeOK, Begin, Load, Tables

LEMMA WarmHolds ==
    ASSUME Inv, NEW k \in Keys, Warm(k)
    PROVE  Inv'
<1>1. TypeOK /\ Scheduler \in Procs
  BY DEF Inv, ProxyInv, Procs
<1>2. Tables(bundles, events)
  BY <1>1, SameTables DEF Warm
<1>3. Flights
  BY <1>1, <1>2, EnterHolds DEF Warm
<1> QED
  BY <1>1, <1>3 DEF Inv, ProxyInv, TypeOK, Flights, Warm, ProcType

LEMMA RefreshHolds ==
    ASSUME Inv, NEW k \in Keys, Refresh(k)
    PROVE  Inv'
<1> USE DEF Inv, ProxyInv
<1>1. TypeOK /\ Scheduler \in Procs
  BY DEF Procs
<1>2. proc' \in [Procs -> ProcType] /\ EventsLive' /\ NobodyStranded' /\ Listed'
  <2>1. CASE UNCHANGED proc
    BY <2>1, <1>1 DEF Refresh, EventsLive, NobodyStranded, Listed, TypeOK, ProcType
  <2>2. CASE Goes(Scheduler, "refresh", k, "none")
    <3> DEFINE next == [at |-> "refresh", key |-> k, on |-> "none"]
    <3>1. next \in ProcType /\ next.at \notin {"wait", "solve"}
      BY DEF ProcType
    <3>2. Tables(bundles, events)
      BY <1>1, SameTables DEF Refresh
    <3>3. proc' = [proc EXCEPT ![Scheduler] = next] /\ events' = events
      BY <2>2 DEF Goes, Refresh
    <3>4. proc[Scheduler].at \notin {"solve"}
      BY DEF Refresh
    <3> HIDE DEF next
    <3> QED
      BY <1>1, <3>1, <3>2, <3>3, <3>4, CalmStep
  <2> QED
    BY <2>1, <2>2 DEF Refresh
<1>3. bundles' \in [Keys -> {"none", "valid", "invalid"}]
  BY <1>1 DEF Refresh, TypeOK
<1> QED
  BY <1>1, <1>2, <1>3 DEF TypeOK, Refresh, ProcType

LEMMA RefreshedHolds ==
    ASSUME Inv, Refreshed
    PROVE  Inv'
<1> USE DEF Inv, ProxyInv
<1>1. TypeOK /\ Scheduler \in Procs /\ proc[Scheduler].key \in Keys
  BY DEF Procs, TypeOK
<1>2. Free \in ProcType /\ Free.at = "idle"
  BY FreeType DEF Free
<1>3. Tables(bundles, events)
  BY <1>1, SameTables DEF Refreshed
<1>4. proc' \in [Procs -> ProcType] /\ EventsLive' /\ NobodyStranded' /\ Listed'
  BY <1>1, <1>2, <1>3, CalmStep DEF Refreshed
<1>5. bundles' \in [Keys -> {"none", "valid", "invalid"}]
  BY <1>1 DEF Refreshed, RefreshedBundle, TypeOK
<1> QED
  BY <1>1, <1>4, <1>5 DEF TypeOK, Refreshed, ProcType, sched

\* Steps that touch neither the tasks nor the events.
LEMMA QuietHolds ==
    ASSUME Inv, Configure \/ Sleep \/ UNCHANGED vars
    PROVE  Inv'
  BY ProxyAssumption
     DEF Inv, ProxyInv, TypeOK, EventsLive, NobodyStranded, Listed, Configure, Sleep, vars, sched

LEMMA Initially == Init => Inv
  BY FreeType, ProxyAssumption
     DEF Init, Inv, ProxyInv, TypeOK, EventsLive, NobodyStranded, Listed, Free, ProcType

THEOREM Inductive == Spec => []Inv
<1>1. Inv /\ [Next]_vars => Inv'
  BY AcquireHolds, RetryHolds, SolvedHolds, CancelHolds, FeedbackHolds, BeginHolds, WarmHolds,
     RefreshHolds, RefreshedHolds, QuietHolds DEF Next, Request, Flight, Schedule
<1> QED
  BY Initially, <1>1, PTL DEF Spec

\* Every task that waits for a clearance waits for one that is being fetched,
\* through cancellations and loads that drop events (_get_or_build_bundle).
THEOREM NoWaiterLost == Spec => []ProxyInv
  BY Inductive, PTL DEF Inv

\* Two tasks fetch the clearance of one key only after a load dropped its event.
THEOREM FetchesSingle == Spec => []OneFlight
<1>1. Inv => OneFlight
  BY DEF Inv, ProxyInv, TypeOK, Listed, OneFlight
<1> QED
  BY Inductive, <1>1, PTL

\* A working clearance is given up for a challenge or a new configuration only:
\* the scheduled refresh keeps it until it has another (refresh_clearance_safe).
THEOREM ClearanceKept == Spec => BundleKept
<1> DEFINE Gone == \A k \in Keys :
          bundles[k] = "valid" /\ bundles'[k] # "valid" =>
              \/ cfg' # cfg
              \/ \E c \in Callers : proc[c].at = "leased" /\ proc[c].key = k /\ proc'[c].at = "idle"
<1>1. Inv /\ [Next]_vars => Gone
  <2> SUFFICES ASSUME Inv, [Next]_vars, NEW k \in Keys, bundles[k] = "valid",
                      bundles'[k] # "valid", cfg' = cfg
               PROVE  \E c \in Callers : /\ proc[c].at = "leased" /\ proc[c].key = k
                                         /\ proc'[c].at = "idle"
    OBVIOUS
  <2>1. TypeOK
    BY DEF Inv, ProxyInv
  <2>2. ASSUME NEW p, NEW key, NEW flights, Enter(p, key, bundles, flights)
        PROVE  FALSE
    BY <2>1, <2>2 DEF Enter, Ask, TypeOK
  <2>3. ASSUME Load PROVE LoadedBundles = bundles
    BY <2>3 DEF Load, LoadedBundles
  <2>4. ASSUME NEW c \in Callers, NEW host \in Hosts, Acquire(c, host) PROVE FALSE
    BY <2>2, <2>3, <2>4 DEF Acquire
  <2>5. ASSUME NEW p \in Procs, Retry(p) PROVE FALSE
    BY <2>1, <2>5 DEF Retry, Ask, TypeOK
  <2>6. ASSUME NEW p \in Procs, Solved(p) PROVE FALSE
    BY <2>1, <2>6 DEF Solved, TypeOK
  <2>7. ASSUME NEW c \in Callers, Cancel(c) PROVE FALSE
    BY <2>7 DEF Cancel
  <2>8. ASSUME NEW c \in Callers, NEW kind \in {"ok", "challenge", "failure"}, Feedback(c, kind)
        PROVE  proc[c].at = "leased" /\ proc[c].key = k /\ proc'[c].at = "idle"
    <3>1. c \in Procs
      BY DEF Procs
    <3>2. proc[c].key = k
      BY <2>1, <2>8 DEF Feedback, TypeOK
    <3> QED
      BY <2>1, <2>8, <3>1, <3>2 DEF Feedback, TypeOK, Free
  <2>9. CASE Begin
    BY <2>3, <2>9 DEF Begin
  <2>10. ASSUME NEW key \in Keys, Warm(key) PROVE FALSE
    BY <2>2, <2>10 DEF Warm
  <2>11. ASSUME NEW key \in Keys, Refresh(key) PROVE FALSE
    BY <2>1, <2>11 DEF Refresh, TypeOK
  <2>12. CASE Refreshed
    BY <2>1, <2>12 DEF Refreshed, RefreshedBundle, TypeOK
  <2>13. CASE Configure \/ Sleep \/ UNCHANGED vars
    BY <2>13 DEF Configure, Sleep, vars
  <2> QED
    BY <2>4, <2>5, <2>6, <2>7, <2>8, <2>9, <2>10, <2>11, <2>12, <2>13
       DEF Next, Request, Flight, Schedule
<1>2. Inv /\ [Next]_vars => [Gone]_vars
  BY <1>1
<1> QED
  BY Inductive, <1>2, PTL DEF Spec, BundleKept
=============================================================================
