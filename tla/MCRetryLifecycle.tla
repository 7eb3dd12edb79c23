--------------------------- MODULE MCRetryLifecycle ---------------------------
(***************************************************************************)
(* RetryLifecycle on small instances.                                      *)
(***************************************************************************)
EXTENDS RetryLifecycle, TLC

\* Orders made by the pipeline are interchangeable; safety runs only.
OrderSymmetry == Permutations(AgentOrders)

\* So are the workers.
WorkerSymmetry == Permutations(Workers)

=============================================================================
