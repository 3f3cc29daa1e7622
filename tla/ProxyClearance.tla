--------------------------- MODULE ProxyClearance ---------------------------
(***************************************************************************)
(* The proxy pool and its Cloudflare clearances (src/app/control/proxy).    *)
(* A request loads the configuration if it changed, takes the node under    *)
(* the pool's cursor and the clearance bundle of that node and host.  A     *)
(* bundle that is missing or invalid is fetched from FlareSolverr, by one   *)
(* request while the others wait for its event.  A scheduler refreshes the  *)
(* bundles beside that.                                                     *)
(*                                                                         *)
(* Everything runs on one event loop and no `async with self._lock' awaits  *)
(* in its body, so a step lasts until the next wait: for an event, or for   *)
(* FlareSolverr.  What a bundle and a lease carry is left out, and so are the *)
(* media nodes: no caller asks for one.                                     *)
(***************************************************************************)
EXTENDS Naturals, FiniteSets, Sequences, SequencesExt

CONSTANTS
    Callers,    \* tasks that send requests
    Scheduler,  \* the task of ProxyClearanceScheduler
    Nodes,      \* proxy URLs
    Hosts,      \* hosts that ask for a clearance
    Default,    \* grok.com
    Configs,    \* the configurations an operator saves
    MaxCalls,   \* bound on the requests
    MaxChanges  \* bound on the changes of the configuration

Affinities == Nodes \cup {"direct"}
Keys       == Affinities \X Hosts
Procs      == Callers \cup {Scheduler}

ASSUME ProxyAssumption ==
    /\ Scheduler \notin Callers /\ "none" \notin Procs
    /\ "direct" \notin Nodes
    /\ Default \in Hosts
    /\ Configs \subseteq [mode : {"direct", "single", "pool"}, clear : {"none", "manual", "flare"},
                          nodes : Seq(Nodes)]
    /\ MaxCalls \in Nat /\ MaxChanges \in Nat

VARIABLES
    file,     \* the configuration snapshot
    cfg,      \* the configuration the directory loaded
    cursor,   \* _pool_cursor
    bundles,  \* _bundles
    events,   \* _refresh_events: the task whose event it is
    proc,     \* where a task is, for which key, and whose event it waits for
    phase,    \* the scheduler: warming up, sleeping or refreshing
    todo,     \* the keys it has left
    calls, changes,
    stray     \* history: the keys whose event a load forgot

sched == <<phase, todo>>
vars == <<file, cfg, cursor, bundles, events, proc, sched, calls, changes, stray>>

AnyKey == CHOOSE k \in Keys : TRUE
Free == [at |-> "idle", key |-> AnyKey, on |-> "none"]

TypeOK ==
    /\ file \in Configs /\ cfg \in Configs
    /\ cursor \in Nat
    /\ bundles \in [Keys -> {"none", "valid", "invalid"}]
    /\ events \in [Keys -> Procs \cup {"none"}]
    /\ proc \in [Procs -> [at : {"idle", "wait", "woken", "solve", "leased", "refresh"},
                           key : Keys, on : Procs \cup {"none"}]]
    /\ phase \in {"start", "warm", "sleep", "refresh"}
    /\ todo \subseteq Keys /\ stray \subseteq Keys
    /\ calls \in 0..MaxCalls /\ changes \in 0..MaxChanges

Init ==
    /\ file \in Configs /\ cfg = file
    /\ cursor = 0
    /\ bundles = [k \in Keys |-> "none"]
    /\ events = [k \in Keys |-> "none"]
    /\ proc = [p \in Procs |-> Free]
    /\ phase = "start" /\ todo = {}
    /\ calls = 0 /\ changes = 0 /\ stray = {}

-----------------------------------------------------------------------------
(* The configuration *)

\* An operator saves another configuration.
Configure ==
    /\ changes < MaxChanges
    /\ changes' = changes + 1
    /\ file' \in Configs \ {file}
    /\ UNCHANGED <<cfg, cursor, bundles, events, proc, sched, calls, stray>>

\* valid_affinities of configuration c
Reached(c) ==
    IF c.nodes = <<>> THEN {"direct"} ELSE ToSet(c.nodes)

\* _bundles after load()
LoadedBundles ==
    IF file = cfg THEN bundles
    ELSE [k \in Keys |-> IF k[1] \notin Reached(file) \/ bundles[k] = "none"
                         THEN "none" ELSE "invalid"]

\* _refresh_events after load()
LoadedEvents ==
    IF file = cfg THEN events
    ELSE [k \in Keys |-> IF k[1] \in Reached(file) THEN events[k] ELSE "none"]

\* The rest of load()
Load ==
    /\ cfg' = file
    /\ stray' = stray \cup {k \in Keys : events[k] # LoadedEvents[k]}
    /\ UNCHANGED <<file, changes>>

LoadedCursor == IF file = cfg THEN cursor ELSE 0

\* _pick_proxy_url: the node of configuration c under cursor i
Pick(c, i) == IF c.nodes = <<>> THEN "direct" ELSE c.nodes[(i % Len(c.nodes)) + 1]

-----------------------------------------------------------------------------
(* The single flight *)

Goes(p, where, key, on) == proc' = [proc EXCEPT ![p] = [at |-> where, key |-> key, on |-> on]]

\* A task that has its bundle, or none: the scheduler wants no lease.
Served(p, key) ==
    IF p = Scheduler THEN Free ELSE [at |-> "leased", key |-> key, on |-> "none"]

\* A bundle comes at once: written by hand, or refused as the mode changed.
AtOnce == cfg'.clear = "manual" \/ file.clear # "flare"

\* Mutant: a task does not look at the events.
AskAlone(p, key, table, flights) ==
    \/ /\ table[key] = "valid"
       /\ proc' = [proc EXCEPT ![p] = Served(p, key)]
       /\ bundles' = table /\ events' = flights
    \/ /\ table[key] # "valid"
       /\ Goes(p, "solve", key, "none")
       /\ bundles' = table /\ events' = [flights EXCEPT ![key] = p]

\* A round of the loop in _get_or_build_bundle over these tables.
Ask(p, key, table, flights) ==
    \/ /\ table[key] = "valid"
       /\ proc' = [proc EXCEPT ![p] = Served(p, key)]
       /\ bundles' = table /\ events' = flights
    \/ /\ table[key] # "valid" /\ flights[key] # "none"
       /\ Goes(p, "wait", key, flights[key])
       /\ bundles' = table /\ events' = flights
    \/ /\ table[key] # "valid" /\ flights[key] = "none" /\ ~AtOnce
       /\ Goes(p, "solve", key, "none")
       /\ bundles' = table /\ events' = [flights EXCEPT ![key] = p]
    \/ /\ table[key] # "valid" /\ flights[key] = "none" /\ AtOnce
       /\ proc' = [proc EXCEPT ![p] = Served(p, key)]
       /\ bundles' = IF cfg'.clear = "manual" /\ file.clear = "manual"
                     THEN [table EXCEPT ![key] = "valid"] ELSE table
       /\ events' = flights

\* _get_or_build_bundle(): nothing to do without a clearance mode.
Enter(p, key, table, flights) ==
    IF cfg'.clear = "none"
    THEN proc' = [proc EXCEPT ![p] = Served(p, key)] /\ bundles' = table /\ events' = flights
    ELSE Ask(p, key, table, flights)

\* get_proxy_runtime(), then acquire()
Acquire(c, host) ==
    /\ proc[c].at = "idle"
    /\ calls < MaxCalls /\ calls' = calls + 1
    /\ Load
    /\ cursor' = LoadedCursor
    /\ Enter(c, <<Pick(file, LoadedCursor), host>>, LoadedBundles, LoadedEvents)
    /\ UNCHANGED sched

\* The event is set: the task goes round again.
Retry(p) ==
    /\ proc[p].at = "woken"
    /\ UNCHANGED <<file, cfg, cursor, sched, calls, changes, stray>>
    /\ Ask(p, proc[p].key, bundles, events)

\* Mutant: only the event still in the table is set.
FinallyListed(p, to) ==
    /\ events' = [events EXCEPT ![proc[p].key] = "none"]
    /\ proc' = [q \in Procs |->
                  IF q = p THEN to
                  ELSE IF proc[q].at = "wait" /\ proc[q].on = p /\ events[proc[p].key] = p
                  THEN [proc[q] EXCEPT !.at = "woken", !.on = "none"] ELSE proc[q]]

\* Mutant: the event stays in the table.
FinallyKept(p, to) ==
    /\ UNCHANGED events
    /\ proc' = [q \in Procs |->
                  IF q = p THEN to
                  ELSE IF proc[q].at = "wait" /\ proc[q].on = p
                  THEN [proc[q] EXCEPT !.at = "woken", !.on = "none"] ELSE proc[q]]

\* The finally of _get_or_build_bundle: the key leaves the table, whoever's
\* event it holds, and the waiters of the own event wake.
Finally(p, to) ==
    /\ events' = [events EXCEPT ![proc[p].key] = "none"]
    /\ proc' = [q \in Procs |->
                  IF q = p THEN to
                  ELSE IF proc[q].at = "wait" /\ proc[q].on = p
                  THEN [proc[q] EXCEPT !.at = "woken", !.on = "none"] ELSE proc[q]]

\* FlareSolverr answers with a clearance, or it fails or times out.
Solved(p) ==
    /\ proc[p].at = "solve"
    /\ \/ bundles' = [bundles EXCEPT ![proc[p].key] = "valid"]
       \/ UNCHANGED bundles
    /\ Finally(p, Served(p, proc[p].key))
    /\ UNCHANGED <<file, cfg, cursor, sched, calls, changes, stray>>

\* The request is cancelled while it waits.
Cancel(c) ==
    /\ \/ proc[c].at = "solve" /\ Finally(c, Free)
       \/ /\ proc[c].at \in {"wait", "woken"}
          /\ proc' = [proc EXCEPT ![c] = Free] /\ UNCHANGED events
    /\ UNCHANGED <<file, cfg, cursor, bundles, sched, calls, changes, stray>>

\* feedback(): the request was challenged, failed at the node, or neither.
Feedback(c, kind) ==
    /\ proc[c].at = "leased"
    /\ proc' = [proc EXCEPT ![c] = Free]
    /\ bundles' = IF kind = "challenge" /\ bundles[proc[c].key] # "none"
                  THEN [bundles EXCEPT ![proc[c].key] = "invalid"] ELSE bundles
    /\ cursor' = IF kind # "ok" /\ cfg.mode = "pool" /\ proc[c].key[1] # "direct"
                 THEN cursor + 1 ELSE cursor
    /\ UNCHANGED <<file, cfg, events, sched, calls, changes, stray>>

-----------------------------------------------------------------------------
(* The scheduler.  It takes its keys in any order, and others may run        *)
(* between two of them.                                                      *)

BaseKeys(c) == Reached(c) \X {Default}

\* _warm_up(), and later _refresh(): the configuration is loaded and the keys
\* are listed.
Begin ==
    /\ phase \in {"start", "sleep"}
    /\ Load
    /\ cursor' = LoadedCursor /\ bundles' = LoadedBundles /\ events' = LoadedEvents
    /\ IF file.clear = "none" THEN phase' = "sleep" /\ todo' = {}
       ELSE /\ phase' = IF phase = "start" THEN "warm" ELSE "refresh"
            /\ todo' = BaseKeys(file) \cup
                       {k \in Keys : phase = "sleep" /\ LoadedBundles[k] # "none"}
    /\ UNCHANGED <<proc, calls>>

\* The next key of warm_up()
Warm(k) ==
    /\ phase = "warm" /\ proc[Scheduler].at = "idle" /\ k \in todo
    /\ todo' = todo \ {k}
    /\ UNCHANGED <<file, cfg, cursor, phase, calls, changes, stray>>
    /\ Enter(Scheduler, k, bundles, events)

\* The next key of refresh_clearance_safe(), which asks for no event.
Refresh(k) ==
    /\ phase = "refresh" /\ proc[Scheduler].at = "idle" /\ k \in todo
    /\ todo' = todo \ {k}
    /\ UNCHANGED <<file, cfg, cursor, events, phase, calls, changes, stray>>
    /\ IF AtOnce
       THEN /\ bundles' = IF cfg.clear = "manual" /\ file.clear = "manual"
                          THEN [bundles EXCEPT ![k] = "valid"] ELSE bundles
            /\ UNCHANGED proc
       ELSE Goes(Scheduler, "refresh", k, "none") /\ UNCHANGED bundles

\* Mutant: a refresh that failed gives up the old bundle.
RefreshedOrGone(k) ==
    \/ bundles' = [bundles EXCEPT ![k] = "valid"]
    \/ bundles' = [bundles EXCEPT ![k] = "none"]

\* The new bundle, or the old one when the refresh failed
RefreshedBundle(k) ==
    \/ bundles' = [bundles EXCEPT ![k] = "valid"]
    \/ UNCHANGED bundles

Refreshed ==
    /\ proc[Scheduler].at = "refresh"
    /\ RefreshedBundle(proc[Scheduler].key)
    /\ proc' = [proc EXCEPT ![Scheduler] = Free]
    /\ UNCHANGED <<file, cfg, cursor, events, sched, calls, changes, stray>>

\* The scheduler sleeps until the next interval.
Sleep ==
    /\ phase \in {"warm", "refresh"} /\ todo = {} /\ proc[Scheduler].at = "idle"
    /\ phase' = "sleep"
    /\ UNCHANGED <<file, cfg, cursor, bundles, events, proc, todo, calls, changes, stray>>

-----------------------------------------------------------------------------

Request ==
    \E c \in Callers :
        \/ \E host \in Hosts : Acquire(c, host)
        \/ Cancel(c)
        \/ \E kind \in {"ok", "challenge", "failure"} : Feedback(c, kind)

Flight == \E p \in Procs : Retry(p) \/ Solved(p)

Schedule ==
    \/ Begin \/ Refreshed \/ Sleep
    \/ \E k \in Keys : Warm(k) \/ Refresh(k)

Next == Configure \/ Request \/ Flight \/ Schedule

Spec == Init /\ [][Next]_vars

\* The loop runs what is ready, FlareSolverr answers or times out, and the
\* warm-up goes on from key to key.
Fairness ==
    \A p \in Procs : WF_vars(Retry(p)) /\ WF_vars(Solved(p))

FairSpec == Spec /\ Fairness

-----------------------------------------------------------------------------

\* An event in the table belongs to a task that is fetching that key.
EventsLive ==
    \A k \in Keys :
        events[k] # "none" => proc[events[k]].at = "solve" /\ proc[events[k]].key = k

\* A task waits for one that is fetching its key: no event is left behind, even
\* when the fetch is cancelled or a load has dropped the event from the table.
NobodyStranded ==
    \A p \in Procs :
        proc[p].at = "wait" =>
            /\ proc[p].on \in Procs
            /\ proc[proc[p].on].at = "solve" /\ proc[proc[p].on].key = proc[p].key

ProxyInv == TypeOK /\ EventsLive /\ NobodyStranded

\* What makes it so: the table holds the event of every such fetch.
Listed ==
    \A p \in Procs : proc[p].at = "solve" => events[proc[p].key] = p \/ proc[p].key \in stray

\* Requests and the warm-up fetch a key one at a time, unless a change of the
\* configuration dropped the event of a fetch that went on.
OneFlight ==
    \A p, q \in Procs :
        proc[p].at = "solve" /\ proc[q].at = "solve" /\ proc[p].key = proc[q].key
            => p = q \/ proc[p].key \in stray

\* A bundle in use is given up for a new configuration or for a challenge on a
\* request that used its key, never because a refresh failed.
BundleKept ==
    [][\A k \in Keys :
          bundles[k] = "valid" /\ bundles'[k] # "valid" =>
              \/ cfg' # cfg
              \/ \E c \in Callers : proc[c].at = "leased" /\ proc[c].key = k /\ proc'[c].at = "idle"
      ]_vars

\* A request that waits for a clearance, its own or another's, gets past it.
AcquireReturns ==
    \A c \in Callers :
        proc[c].at \in {"wait", "woken", "solve"} ~> proc[c].at \in {"leased", "idle"}
=============================================================================
