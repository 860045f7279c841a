---------------------------- MODULE MCGoogleKeys ----------------------------
(* Small instances of GoogleKeys for TLC. *)
EXTENDS GoogleKeys, TLC

\* No property of the module tells requests, or keys, apart.
Symmetry == Permutations(Request) \cup Permutations(Key)

=============================================================================
