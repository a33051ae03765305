---------------------------- MODULE MCJobLedger ----------------------------
(* Two jobs, two workers, one idempotency key and two requests: one with a   *)
(* budget of two attempts, one with a single attempt.                        *)
EXTENDS JobLedger, TLC

CONSTANTS retryOnce, noRetry

MCMaxAttempts == retryOnce :> 2 @@ noRetry :> 1

\* Jobs and workers are interchangeable: neither is named in the specification.
MCSymmetry == Permutations(Jobs) \cup Permutations(Workers)
=============================================================================
