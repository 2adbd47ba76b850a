-------------------------- MODULE MCSubmissionQueue --------------------------
(* The submission queue for TLC; the configurations give the constants. *)
EXTENDS SubmissionQueue
=============================================================================
