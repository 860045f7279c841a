---------------------------- MODULE MCDeviceSession ----------------------------
(* Small instances of DeviceSession for TLC. *)
EXTENDS DeviceSession, TLC

\* For runs without liveness properties.
Symmetry == Permutations(Task) \cup Permutations(User)

=============================================================================
