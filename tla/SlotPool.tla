------------------------------ MODULE SlotPool ------------------------------
(***************************************************************************)
(* What a pool of accounts promises those who work with them: a client has *)
(* at most one slot, of one account; an account is worked on by no more    *)
(* than Limit clients at once; a slot goes with its account when that gets *)
(* another name, and is gone with it, never anywhere else.                 *)
(***************************************************************************)
EXTENDS Naturals, FiniteSets

CONSTANTS Clients, Accounts, Nobody, Limit

VARIABLES
    at,    \* the account of each client's slot
    open,  \* the names of the accounts there are
    lost   \* something happened after which nothing is promised

vars == <<at, open, lost>>

Init ==
    /\ at = [c \in Clients |-> Nobody]
    /\ open \in SUBSET Accounts
    /\ lost = FALSE

Take(c) ==
    /\ at[c] = Nobody
    /\ \E a \in open :
          /\ Cardinality({d \in Clients : at[d] = a}) < Limit
          /\ at' = [at EXCEPT ![c] = a]
    /\ UNCHANGED open

Give(c) ==
    /\ at[c] # Nobody
    /\ at' = [at EXCEPT ![c] = Nobody]
    /\ UNCHANGED open

Rename(a, b) ==
    /\ a \in open /\ b \notin open
    /\ open' = (open \ {a}) \cup {b}
    /\ at' = [c \in Clients |-> IF at[c] = a THEN b ELSE at[c]]

Open(a) ==
    /\ a \notin open
    /\ open' = open \cup {a}
    /\ UNCHANGED at

Close(a) ==
    /\ a \in open
    /\ open' = open \ {a}
    /\ at' = [c \in Clients |-> IF at[c] = a THEN Nobody ELSE at[c]]

Next ==
    \/ lost'
    \/ /\ ~lost'
       /\ \/ \E c \in Clients : Take(c) \/ Give(c)
          \/ \E a \in Accounts : Open(a) \/ Close(a) \/ \E b \in Accounts : Rename(a, b)

Spec == Init /\ [][Next]_vars
=============================================================================
