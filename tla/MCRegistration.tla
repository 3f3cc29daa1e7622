--------------------------- MODULE MCRegistration ---------------------------
(* Instances of Registration for TLC. *)
EXTENDS Registration

CONSTANTS m1, m2

Two          == {m1, m2}
AliasOfFirst == [m \in Two |-> m1]

\* One OpenAI run suffices for its own path: two runs meet over Grok accounts.
RunsOf == [ofGrok \in BOOLEAN |-> IF ofGrok THEN 2 ELSE 1]
=============================================================================
