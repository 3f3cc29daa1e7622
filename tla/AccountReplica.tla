-------------------------- MODULE AccountReplica --------------------------
(***************************************************************************)
(* What a worker's view of the account store promises, without scans,      *)
(* batches, locks or restarts: for every token the view is some version    *)
(* the store has had, it never goes back to an older one, and a version    *)
(* newer than the view is eventually followed.                             *)
(***************************************************************************)
EXTENDS Integers

CONSTANTS Tokens, MaxRevision

VARIABLES
    version,   \* the latest version of each token in the store
    view       \* the version the worker's table was last built from

vars == <<version, view>>

Init == /\ version = [t \in Tokens |-> 0]
        /\ view = [t \in Tokens |-> 0]

\* The store moves some tokens forward.
Write == /\ version' \in [Tokens -> 0..MaxRevision]
         /\ \A t \in Tokens : version[t] <= version'[t]
         /\ UNCHANGED view

\* The worker catches up, wholly or in part, and never backwards.
Learn == /\ view' \in [Tokens -> 0..MaxRevision]
         /\ \A t \in Tokens : view[t] <= view'[t] /\ view'[t] <= version[t]
         /\ UNCHANGED version

LearnToken(t) == Learn /\ view'[t] > view[t]

Next == Write \/ Learn

Spec == Init /\ [][Next]_vars

FairSpec == Spec /\ \A t \in Tokens : WF_vars(LearnToken(t))
=============================================================================
