-------------------------- MODULE MCProxyClearance --------------------------
(* Instances of ProxyClearance for TLC. *)
EXTENDS ProxyClearance

CONSTANTS c1, c2, c3, s, p1, p2, grok

Requests == {c1, c2, c3}
Pair     == {c1, c2}
Proxies  == {p1, p2}
Grok     == {grok}

\* A pool, and no proxy with a bundle written by hand.
Pool  == [mode |-> "pool", clear |-> "flare", nodes |-> <<p1, p2>>]
Hand  == [mode |-> "direct", clear |-> "manual", nodes |-> <<>>]
Saved == {Pool, Hand}
=============================================================================
