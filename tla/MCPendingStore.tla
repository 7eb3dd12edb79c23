---------------------------- MODULE MCPendingStore ----------------------------
(***************************************************************************)
(* PendingStore on small instances.                                        *)
(***************************************************************************)
EXTENDS PendingStore, TLC

\* Neither files, nor processes, nor orders differ in anything but their name.
StoreSymmetry == Permutations(Files) \cup Permutations(Procs) \cup Permutations(Orders)

=============================================================================
