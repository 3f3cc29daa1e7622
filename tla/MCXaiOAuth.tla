----------------------------- MODULE MCXaiOAuth -----------------------------
(* Instances of XaiOAuth for TLC. *)
EXTENDS XaiOAuth

TwoJobs == 1..2
=============================================================================
