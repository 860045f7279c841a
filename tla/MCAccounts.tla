------------------------------ MODULE MCAccounts ------------------------------
(* Small instances of Accounts for TLC. *)
EXTENDS Accounts, TLC

\* Interchangeable values; used by the runs without liveness properties only.
Symmetry == Permutations(Request) \cup Permutations(Email) \cup Permutations(Subject)

=============================================================================
