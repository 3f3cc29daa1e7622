--------------------------- MODULE MCAccountSync ---------------------------
(* Instances of AccountSync for TLC. *)
EXTENDS AccountSync, TLC

\* Tokens and callers other than the sync loop are interchangeable.
TokenSymmetry == Permutations(Tokens)
=============================================================================
