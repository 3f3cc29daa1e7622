------------------------ MODULE MCAccountDirectory ------------------------
(* Instances of AccountDirectory for TLC. *)
EXTENDS AccountDirectory, TLC

RequestSymmetry == Permutations(Requests) \cup Permutations(Tokens)

\* quota_defaults.py: "basic" has fast only, "super" also auto.
MCSupports == [p \in Pools |-> IF p = "basic" THEN {"fast"} ELSE Modes]

\* A chat model in AUTO falls back to FAST; every mode tries the pools in order.
MCCandidates == <<[pool |-> "super", mode |-> "auto"],
                  [pool |-> "basic", mode |-> "fast"]>>

MCCap == [s \in {"quota", "random"} |-> IF s = "quota" THEN 2 ELSE 1]

\* The store's rows: a fresh basic account, a super account whose window of the
\* auto mode is exhausted and ends later, a disabled one.
MCStoreRows ==
    {[status |-> "active", pool |-> "basic", quota |-> [m \in Modes |-> Total],
      reset |-> [m \in Modes |-> "none"], fails |-> 0],
     [status |-> "active", pool |-> "super",
      quota |-> [m \in Modes |-> IF m = "auto" THEN 0 ELSE Total],
      reset |-> [m \in Modes |-> IF m = "auto" THEN "later" ELSE "none"], fails |-> 0],
     [status |-> "disabled", pool |-> "basic", quota |-> [m \in Modes |-> Total],
      reset |-> [m \in Modes |-> "none"], fails |-> 0]}
=============================================================================
