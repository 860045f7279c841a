---------------------------- MODULE MCTransfers ----------------------------
(* Small instances of Transfers for TLC. *)
EXTENDS Transfers, TLC

\* Calls of snapshot are not told apart, but for liveness properties.
Symmetry == Permutations(Fetch) \cup Permutations(Send)

=============================================================================
