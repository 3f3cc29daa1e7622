---------------------------- MODULE SurvivalLease ----------------------------
(***************************************************************************)
(* The survival poll of the GPT accounts (services/                        *)
(* openai_survival_service.py).  Every process has a scheduler that starts *)
(* a run in a thread of its own; a row of an SQLite file, the lease, keeps *)
(* the processes from polling at the same time.  A run renews its lease    *)
(* each time a probe ends, and does not look at whether that succeeded.    *)
(*                                                                         *)
(* The name in the lease is new with every process, so the lease of a      *)
(* process that ended is nobody's (Former).  Time is counted in ticks:     *)
(* left is what remains of the lease.                                      *)
(***************************************************************************)
EXTENDS Naturals

CONSTANTS
    Workers,     \* the processes
    NoOwner,     \* there is no row
    Former,      \* the owner was a process that has ended
    TTL,         \* ttl_seconds, in ticks
    MaxProbes,   \* bound on the accounts of a run
    MaxFaults    \* bound on crashes and on statements that raise

ASSUME LeaseAssumption ==
    /\ NoOwner \notin Workers /\ Former \notin Workers /\ NoOwner # Former
    /\ TTL \in Nat \ {0}
    /\ MaxProbes \in Nat /\ MaxFaults \in Nat

VARIABLES
    owner, left,  \* the row of scheduler_lease
    stored,       \* "enabled" in openai_survival.json
    up,           \* the processes that run
    enabled,      \* each one's own copy of the configuration
    runner,       \* where its run is
    todo,         \* probes of the run that have not ended
    silent,       \* history: ticks since it last claimed or renewed the lease
    faults

lease     == <<owner, left>>
process   == <<stored, up, enabled>>
leaseVars == <<lease, process, runner, todo, silent, faults>>

LeaseTypeOK ==
    /\ owner \in Workers \cup {NoOwner, Former}
    /\ left \in 0..TTL
    /\ stored \in BOOLEAN
    /\ up \in SUBSET Workers
    /\ enabled \in [Workers -> BOOLEAN]
    /\ runner \in [Workers -> {"none", "claim", "probe", "release"}]
    /\ todo \in [Workers -> 0..MaxProbes]
    /\ silent \in [Workers -> 0..TTL]
    /\ faults \in 0..MaxFaults

LeaseInit ==
    /\ owner = NoOwner /\ left = 0
    /\ stored = TRUE
    /\ up = {}
    /\ enabled = [w \in Workers |-> TRUE]
    /\ runner = [w \in Workers |-> "none"]
    /\ todo = [w \in Workers |-> 0]
    /\ silent = [w \in Workers |-> 0]
    /\ faults = 0

RunGoes(w, label) == runner' = [runner EXCEPT ![w] = label]

Fault == faults < MaxFaults /\ faults' = faults + 1

-----------------------------------------------------------------------------
(* Processes and time *)

\* __init__ loads the configuration; no run is left over.
Start(w) ==
    /\ w \notin up
    /\ up' = up \cup {w}
    /\ enabled' = [enabled EXCEPT ![w] = stored]
    /\ UNCHANGED <<lease, stored, runner, todo, silent, faults>>

Crash(w) ==
    /\ w \in up
    /\ Fault
    /\ up' = up \ {w}
    /\ owner' = IF owner = w THEN Former ELSE owner
    /\ RunGoes(w, "none")
    /\ todo' = [todo EXCEPT ![w] = 0]
    /\ UNCHANGED <<left, stored, enabled, silent>>

\* update_config, in the process that answers the operator's request
UpdateConfig(w, value) ==
    /\ w \in up
    /\ enabled' = [enabled EXCEPT ![w] = value]
    /\ stored' = value
    /\ UNCHANGED <<lease, up, runner, todo, silent, faults>>

Tick ==
    /\ left' = IF left > 0 THEN left - 1 ELSE 0
    /\ silent' = [w \in Workers |-> IF silent[w] < TTL THEN silent[w] + 1 ELSE TTL]
    /\ UNCHANGED <<owner, process, runner, todo, faults>>

-----------------------------------------------------------------------------
(* A run *)

\* run_now: one run at a time in a process
RunNow(w) ==
    /\ w \in up
    /\ runner[w] = "none"
    /\ RunGoes(w, "claim")
    /\ UNCHANGED <<lease, process, todo, silent, faults>>

\* _scheduler_loop, each time its interval is over or the configuration changes
Scheduled(w) == enabled[w] /\ RunNow(w)

\* Mutant: the lapsed row is not deleted first.
FreeNoRow == owner = NoOwner

\* _claim_run deletes a row that has lapsed, then inserts its own.
Free == owner = NoOwner \/ left = 0

Claim(w) ==
    /\ runner[w] = "claim"
    /\ IF Free
       THEN /\ owner' = w /\ left' = TTL
            /\ silent' = [silent EXCEPT ![w] = 0]
            /\ RunGoes(w, "probe")
            /\ todo' \in {[todo EXCEPT ![w] = n] : n \in 0..MaxProbes}
       ELSE /\ RunGoes(w, "none")
            /\ UNCHANGED <<lease, silent, todo>>
    /\ UNCHANGED <<process, faults>>

\* _renew_run: of its own row, lapsed or not.
Renew(w) ==
    IF owner = w
    THEN /\ left' = TTL
         /\ silent' = [silent EXCEPT ![w] = 0]
         /\ UNCHANGED owner
    ELSE UNCHANGED <<lease, silent>>

\* A probe ends: renewed, and its verdict written to the account.
ProbeEnds(w) ==
    /\ runner[w] = "probe" /\ todo[w] > 0
    /\ todo' = [todo EXCEPT ![w] = @ - 1]
    /\ Renew(w)
    /\ UNCHANGED <<process, runner, faults>>

Summarise(w) ==
    /\ runner[w] = "probe" /\ todo[w] = 0
    /\ RunGoes(w, "release")
    /\ UNCHANGED <<lease, process, todo, silent, faults>>

\* Mutant: whoever ends its run deletes the row.
ReleaseAny(w) == owner' = NoOwner /\ left' = 0

\* _release_run: its own row only.
Release(w) ==
    IF owner = w THEN owner' = NoOwner /\ left' = 0 ELSE UNCHANGED lease

RunEnds(w) ==
    /\ runner[w] = "release"
    /\ Release(w)
    /\ RunGoes(w, "none")
    /\ UNCHANGED <<process, todo, silent, faults>>

\* A statement raises.  Out of the claim and the release the exception ends the
\* thread; in between it ends the run, once the executor's probes are over.
Raises(w) ==
    /\ Fault
    /\ \/ runner[w] \in {"claim", "release"} /\ RunGoes(w, "none")
       \/ runner[w] = "probe" /\ RunGoes(w, "release")
    /\ todo' = [todo EXCEPT ![w] = 0]
    /\ UNCHANGED <<lease, process, silent>>

RunStep(w) == Claim(w) \/ ProbeEnds(w) \/ Summarise(w) \/ RunEnds(w)

LeaseNext ==
    \/ Tick
    \/ \E w \in Workers :
          \/ Start(w) \/ Crash(w)
          \/ \E value \in BOOLEAN : UpdateConfig(w, value)
          \/ RunNow(w) \/ RunStep(w) \/ Raises(w)

LeaseSpec == LeaseInit /\ [][LeaseNext]_leaseVars

\* Time passes, processes are started again, the schedulers of those where the
\* poll is enabled keep starting runs, and a run goes on.
Fairness ==
    /\ WF_leaseVars(Tick)
    /\ \A w \in Workers : /\ WF_leaseVars(Start(w))
                          /\ WF_leaseVars(Scheduled(w))
                          /\ WF_leaseVars(RunStep(w))

FairLeaseSpec == LeaseSpec /\ Fairness

-----------------------------------------------------------------------------
(* Properties *)

InRun(w) == runner[w] \in {"probe", "release"}

\* A run none of whose probes has kept it from renewing for a whole TTL.
Punctual(w) == InRun(w) /\ silent[w] < TTL

\* "another process is polling" (run_once): two runs never poll at the same
\* time, unless one of them has not renewed its lease for its whole length.
\* That one goes on unaware, but cannot disturb the other's lease.
PunctualAlone ==
    \A v, w \in Workers : Punctual(v) /\ Punctual(w) => v = w

\* A lease that has not lapsed is given up by its own run, or left behind by
\* the end of its process; no claim, renewal or release of another run, and no
\* restart, takes it (_claim_run, _renew_run, _release_run).
LeaseKept ==
    [][\A w \in Workers :
          owner = w /\ left > 0 /\ owner' # w => runner[w] = "release" \/ w \notin up']_leaseVars

\* A lease nobody will release: its process has ended, or its release raised.
Orphan ==
    \/ owner = Former
    \/ \E w \in Workers : owner = w /\ ~InRun(w)

\* Such a lease does not stop the poll for ever: it is taken over once it has
\* lapsed, as long as the poll is enabled somewhere.
OrphanTakenOver ==
    Orphan ~> (~Orphan \/ \E w \in Workers : ~enabled[w])

-----------------------------------------------------------------------------
(* The inductive invariant *)

\* A punctual run has the lease, for as long as it may stay silent.
PunctualHolds ==
    \A w \in Workers : Punctual(w) => owner = w /\ left = TTL - silent[w]

\* Only a process that runs has a run.
RunsUp == \A w \in Workers : runner[w] # "none" => w \in up

LeaseInv == LeaseTypeOK /\ PunctualHolds /\ RunsUp
=============================================================================
