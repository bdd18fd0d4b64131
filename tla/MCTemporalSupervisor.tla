------------------------- MODULE MCTemporalSupervisor -------------------------
(* Small instances of TemporalSupervisor for TLC. *)
EXTENDS TemporalSupervisor, TLC

CONSTANTS p1, p2, q1, q2, q3

\* The callers are interchangeable, and so are the PIDs nobody else gets.
Symmetry == Permutations(Callers) \cup Permutations(Pids \ Recycled)

=============================================================================
