--------------------------- MODULE MCCheckoutQueue ---------------------------
(* A registration and a batch of the operator, for one account or for two. *)
EXTENDS CheckoutQueue, TLC

CONSTANTS a, b, c, t1, t2

MCAssignments == {t1 :> a @@ t2 :> a, t1 :> b @@ t2 :> c}

\* The token of a is rotated, while jobs wait and flows run.
MCMaxTokens == a :> 1 @@ b :> 0 @@ c :> 0
=============================================================================
