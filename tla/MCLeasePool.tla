---------------------------- MODULE MCLeasePool ----------------------------
(* Small instances of RuntimeLeasePool for TLC.                            *)
EXTENDS RuntimeLeasePool, TLC

\* Holders and records are interchangeable; the liveness run does not use this.
Symmetry == Permutations(Holders) \cup Permutations(Records)

=============================================================================
