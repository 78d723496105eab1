------------------------------ MODULE MCService ------------------------------
(* Small instances of SimulatorService for TLC.                            *)
EXTENDS SimulatorService, TLC

\* Threads and environments are interchangeable; not used for liveness.
Symmetry == Permutations(Threads) \cup Permutations(Envs)

=============================================================================
