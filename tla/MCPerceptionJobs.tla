---------------------------- MODULE MCPerceptionJobs ----------------------------
(* A small instance of the worker plane for TLC. *)
EXTENDS PerceptionJobs, TLC

Symmetry == Permutations(Handlers) \cup Permutations(Jobs) \cup Permutations(Samples)
            \cup Permutations(Workers) \cup Permutations(Runs)
=============================================================================
